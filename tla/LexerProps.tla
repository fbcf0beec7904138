----------------------------- MODULE LexerProps -----------------------------
(***************************************************************************)
(* What must hold of the lexer.  The reference is the tokens of a line     *)
(* taken by itself: TokensOf gives them for each line a file is made of.   *)
(***************************************************************************)
EXTENDS ConfigLexer, SequencesExt

CONSTANT TokensOf   \* well-formed lines to their tokens

(* Token t is what is written in a line, with so many bytes before and after*)
(* it that are not of its text: the < and > of a section, or quotes.        *)
Written(text, t, before, after) ==
  LET a == t.from - before
      b == t.to + after
      Only(C) == \A k \in t.from..t.to : text[k] \in C
      Follows(C) == b < Len(text) => text[b + 1] \in C
  IN
  /\ 1 <= a /\ t.from <= t.to /\ b <= Len(text)
  /\ \/ /\ t.kind = "KEY" /\ before = 0 /\ after = 0
        /\ Only(KeyChars) /\ Follows(Chars \ KeyChars)
     \/ /\ t.kind = "VALUE" /\ before = 0 /\ after = 0 /\ text[a] # "#"
        /\ Only(Chars \ (Blank \cup {"quote"})) /\ Follows(Blank \cup {"quote"})
     \/ /\ t.kind = "VALUE" /\ before = 1 /\ after = 1 /\ text[a + 1] # "#"
        /\ text[a] = "quote" /\ Only(Chars \ {"quote"}) /\ text[b] = "quote"
     \/ /\ t.kind = "SECTION_START" /\ before = 1 /\ text[a] = "<" /\ Only(KeyChars)
        /\ IF after = 1 THEN text[b] = ">" ELSE b < Len(text) /\ text[b + 1] \in Blank
     \/ /\ t.kind = "SECTION_NAME" /\ before = 0 /\ after = 1
        /\ Only(KeyChars) /\ text[b] = ">"
     \/ /\ t.kind = "SECTION_END" /\ before = 2 /\ after = 1
        /\ text[a] = "<" /\ text[a + 1] = "/" /\ Only(KeyChars) /\ text[b] = ">"

(* A line is blank, a key and its values, or the start or the end of a      *)
(* section, and a section that has a name is not closed in front of it.     *)
Kinds(ts, after) ==
  \/ ts = <<>>
  \/ ts[1].kind = "KEY" /\ \A i \in 2..Len(ts) : ts[i].kind = "VALUE"
  \/ Len(ts) = 1 /\ ts[1].kind = "SECTION_START" /\ after[1] = 1
  \/ /\ Len(ts) = 2 /\ ts[1].kind = "SECTION_START" /\ after[1] = 0
     /\ ts[2].kind = "SECTION_NAME"
  \/ Len(ts) = 1 /\ ts[1].kind = "SECTION_END"

(* Only blanks are between its tokens, and at its end a comment. *)
MadeOf(text, ts) ==
  \E before \in [DOMAIN ts -> 0..2], after \in [DOMAIN ts -> 0..1],
     rest \in 1..Len(text) + 1 :
    LET start(i) == ts[i].from - before[i]
        end(i) == IF i = 0 THEN 0 ELSE ts[i].to + after[i]
        Blanks(from, to) == from <= to /\ \A k \in from..to - 1 : text[k] \in Blank
    IN /\ Kinds(ts, after)
       /\ \A i \in DOMAIN ts : /\ Written(text, ts[i], before[i], after[i])
                              /\ Blanks(end(i - 1) + 1, start(i))
       /\ Blanks(end(Len(ts)) + 1, rest)
       /\ rest <= Len(text) => text[rest] = "#"

ASSUME LinesAssumption ==
  \A text \in DOMAIN TokensOf :
    /\ text \in Seq(Chars \ {"newline"})
    /\ TokensOf[text] \in Seq([kind : TokenKinds, from : Nat, to : Nat])
    /\ MadeOf(text, TokensOf[text])

(* The type of the state. *)
LexTypeOK ==
  /\ file \in Seq(Chars)
  /\ cursor \in 1..Limit + 1
  /\ eoi \in BOOLEAN
  /\ {condition, label} \subseteq Conditions
  /\ lineNumber \in 1..Limit + 1
  /\ \A i \in DOMAIN tokens :
       /\ tokens[i].kind \in TokenKinds
       /\ tokens[i].line \in 1..lineNumber
       /\ tokens[i].from \in 1..tokens[i].to
       /\ tokens[i].to \in 1..Limit
  /\ status \in {"ready", "scanning", "end", "unknown", "no rule", "assert"}

Starts == {1} \cup {i + 1 : i \in {j \in 1..Limit : file[j] = "newline"}}

(* The byte that ends the line that starts at s, and the line *)
LineEnd(s) == Min({j \in s..Limit : file[j] = "newline"} \cup {Limit + 1})
LineText(s) == SubSeq(file, s, LineEnd(s) - 1)
Unended(s) == s <= Limit /\ LineEnd(s) = Limit + 1

(* The last line may lack its newline if the > or the quote that closes a   *)
(* token ends it.                                                           *)
WellFormed ==
  \A s \in Starts :
    /\ LineText(s) \in DOMAIN TokensOf
    /\ Unended(s) => LET ts == TokensOf[LineText(s)]
                     IN ts # <<>> /\ ts[Len(ts)].to = Len(LineText(s)) - 1

Number(s) == Cardinality({r \in Starts : r <= s})

(* The tokens of the line that starts at s, where they are in the file *)
Placed(s) ==
  {[kind |-> t.kind, line |-> Number(s), from |-> s + t.from - 1, to |-> s + t.to - 1] :
     t \in ToSet(TokensOf[LineText(s)])}

(* A file of well-formed lines is read to its end, and gives the tokens of  *)
(* each line, in order, with their text and the number of the line,         *)
(* whatever line comes before or after it: start conditions outlive the     *)
(* line they were set in, and the end of the file is noticed while its last *)
(* byte is still to be read, yet neither is to change a token. The file may *)
(* lack the last newline, as the test of issue 8 has it.                    *)
TokensExact ==
  status \notin {"ready", "scanning"} /\ WellFormed =>
    /\ status = "end"
    /\ ToSet(tokens) = UNION {Placed(s) : s \in Starts}
    /\ \A i, j \in DOMAIN tokens : i < j => tokens[i].to < tokens[j].from

(* In any file that ends with a newline, well-formed or not, the lexer      *)
(* takes only blanks and newlines with it when it reports the end: what     *)
(* sets _eoi is a look at the last byte, before the bytes up to it are      *)
(* used.                                                                    *)
NothingDropped ==
  status = "end" /\ file[Limit] = "newline" =>
    \A i \in cursor..Limit : file[i] \in {" ", "newline"}

(* Every file is read in finitely many steps: no rule of re2c loops without *)
(* taking a byte, and parseConfig, which scans until it gets no token, ends.*)
ScanEnds == <>(status \notin {"ready", "scanning"})
=============================================================================
