---------------------------- MODULE LemonScanner ----------------------------
(***************************************************************************)
(* How lemon takes the text of a grammar file apart: preprocess_input and  *)
(* Parse of tools/lemon.c.  What becomes of a token is LemonInput's.       *)
(*                                                                         *)
(* A text is a sequence of characters, except that a run of letters that   *)
(* the properties need not tell apart is one of them ("a", "ifdef").       *)
(***************************************************************************)
EXTENDS CommandLine

CONSTANTS
  TextHash(_), \* strhash
  FirstSize    \* the slots the table of strings starts with, 1024 in the code

VARIABLES
  scanning,  \* where Parse is
  file,      \* the file as it was read
  z,         \* filebuf, the file with its terminating NUL
  cp,        \* where the scanner is in it
  lineno,
  level,     \* of braces, in a block of C code
  mark,      \* tokenstart and tokenlineno
  tokens,    \* what parseonetoken was called with
  strings,   \* the table of Strsafe
  errorcnt

parseVars == <<scanning, file, z, cp, lineno, level, mark, tokens, strings, errorcnt>>
scanVars == <<commandVars, parseVars>>

NUL == "NUL"
Blank == " "
Spaces == {Blank, "\n"}
Letters == {"a", "b", "ifdef", "ifndef", "endif"}
WordParts == Letters \cup {"1", "_"}
Alnum == WordParts \ {"_"}

Strings == INSTANCE AssocTable WITH Hash <- TextHash

-----------------------------------------------------------------------------
\* The first position from j on whose character is in stops; NUL stops it too.
Until(t, j, stops) == Min({k \in j..Len(t) : t[k] \in stops \cup {NUL}})

\* The first position from j on that is past all of the characters in skipped.
Past(t, j, skipped) == Min({k \in j..Len(t) : t[k] \notin skipped})

Blanked(t, from, to) ==
  [k \in DOMAIN t |-> IF k \in from..to /\ t[k] # "\n" THEN Blank ELSE t[k]]

\* A directive is at the start of a line, and a space follows it.
Directive(t, i, words) ==
  /\ t[i] = "%" /\ (i = 1 \/ t[i - 1] = "\n")
  /\ t[i + 1] \in words /\ t[i + 2] \in Spaces

\* The name is looked for past all spaces, also on the next lines.
MacroAt(t, i) ==
  LET j == Past(t, i + 2, Spaces) IN SubSeq(t, j, Until(t, j, Spaces) - 1)

Holds(t, i) == (MacroAt(t, i) \in settings.azDefine) = (t[i + 1] = "ifdef")

\* The %endif of an inner block ends the outer one.
PreprocessAt_NotNested(acc, i) ==
  LET t == acc.z
      line == Until(t, i, {"\n"}) - 1
  IN  IF Directive(t, i, {"endif"})
      THEN [acc EXCEPT
              !.z = IF acc.exclude = 1 THEN Blanked(t, acc.start, line) ELSE Blanked(t, i, line),
              !.exclude = 0]
      ELSE IF Directive(t, i, {"ifdef", "ifndef"})
      THEN [acc EXCEPT
              !.z = Blanked(t, i, line),
              !.exclude = IF @ > 0 \/ ~Holds(t, i) THEN 1 ELSE 0,
              !.start = IF acc.exclude = 0 THEN i ELSE @]
      ELSE acc

\* A block that is left out counts the directives in it; one that is kept does
\* not, and its %endif is only blanked.
PreprocessAt(acc, i) ==
  LET t == acc.z
      line == Until(t, i, {"\n"}) - 1
  IN  IF Directive(t, i, {"endif"})
      THEN [acc EXCEPT
              !.z = IF acc.exclude = 1 THEN Blanked(t, acc.start, line) ELSE Blanked(t, i, line),
              !.exclude = IF @ > 0 THEN @ - 1 ELSE 0]
      ELSE IF Directive(t, i, {"ifdef", "ifndef"})
      THEN [acc EXCEPT
              !.z = Blanked(t, i, line),
              !.exclude = IF @ > 0 THEN @ + 1 ELSE IF Holds(t, i) THEN 0 ELSE 1,
              !.start = IF acc.exclude = 0 THEN i ELSE @]
      ELSE acc

preprocess_input(t) ==
  LET upto[i \in 0..Len(t)] ==
        IF i = 0 THEN [z |-> t, exclude |-> 0, start |-> 0] ELSE PreprocessAt(upto[i - 1], i)
  IN  upto[Len(t)]

-----------------------------------------------------------------------------
c == z[cp]
Next1 == z[cp + 1]  \* cp[1]; c is not the NUL

Lines(from, to) == Cardinality({k \in from..to : z[k] = "\n"})

\* An invocation is a command line and the text of the file it names.
ScanInit(invocations) ==
  /\ scanning = "opening"
  /\ \E call \in invocations : CommandInit({call.argv}) /\ file = call.file
  /\ z = Append(file, NUL) /\ cp = 1 /\ lineno = 1 /\ level = 0
  /\ mark = [start |-> 0, line |-> 0]
  /\ tokens = <<>> /\ strings = Strings!NewTable(FirstSize) /\ errorcnt = 0

\* fopen, malloc or fread fails.
Unreadable ==
  /\ scanning = "opening"
  /\ scanning' = "unread" /\ errorcnt' = errorcnt + 1
  /\ UNCHANGED <<file, z, cp, lineno, level, mark, tokens, strings>>

\* An unterminated %ifdef ends the process.
Preprocess ==
  /\ scanning = "opening"
  /\ LET result == preprocess_input(z) IN
       /\ z' = result.z
       /\ scanning' = IF result.exclude > 0 THEN "exit" ELSE "layout"
  /\ UNCHANGED <<file, cp, lineno, level, mark, tokens, strings, errorcnt>>

Scanning(where) == scanning = where /\ UNCHANGED <<file, z>>

\* The scanner goes to position p, past the lines from cp on.
Advance(p) == cp' = p /\ lineno' = lineno + Lines(cp, p - 1)

InLayout == Scanning("layout")

SkipLayout(p) ==
  /\ Advance(p)
  /\ UNCHANGED <<scanning, level, mark, tokens, strings, errorcnt>>

SkipSpace == InLayout /\ c \in Spaces /\ SkipLayout(cp + 1)

SkipLineComment ==
  InLayout /\ c = "/" /\ Next1 = "/" /\ SkipLayout(Until(z, cp + 2, {"\n"}))

\* The first slash from position first on that a star comes before, or the NUL.
CommentEnd(first) ==
  Min({k \in cp + 2..Len(z) :
         \/ z[k] = NUL
         \/ k >= first /\ z[k - 1] = "*" /\ z[k] = "/"})

\* The star that opens it may also close it.
SkipComment ==
  /\ InLayout /\ c = "/" /\ Next1 = "*"
  /\ LET end == CommentEnd(cp + 2) IN SkipLayout(IF z[end] = NUL THEN end ELSE end + 1)

\* Strsafe: the number that stands for a string, the same one for the same.
Strsafe(text) == Strings!Lookup(strings', text)

\* parseonetoken, with a NUL put at position end.
Emit(at, end) ==
  LET text == SubSeq(z, at.start, end - 1) IN
    /\ strings' = Strings!Inserted(strings, text)
    /\ tokens' = Append(tokens, [x |-> Strsafe(text), line |-> at.line])

Here == [start |-> cp, line |-> lineno]

Token(end, next) ==
  /\ Advance(next) /\ Emit(Here, end)
  /\ mark' = Here
  /\ UNCHANGED <<scanning, level>>

StringLiteral ==
  /\ InLayout /\ c = "\""
  /\ LET end == Until(z, cp + 1, {"\""}) IN
       IF z[end] = NUL
       THEN Token(end, end) /\ errorcnt' = errorcnt + 1
       ELSE Token(end, end + 1) /\ UNCHANGED errorcnt

Word(p) == LET end == Past(z, p, WordParts) IN Token(end, end)

Identifier == InLayout /\ c \in Alnum /\ Word(cp) /\ UNCHANGED errorcnt

Alternative ==
  /\ InLayout /\ c \in {"/", "|"} /\ Next1 \in Letters
  /\ Word(cp + 2) /\ UNCHANGED errorcnt

Arrow == c = ":" /\ Next1 = ":" /\ z[cp + 2] = "="

Operator ==
  /\ InLayout /\ c \notin Spaces \cup Alnum \cup {NUL, "\"", "{"}
  /\ ~(c = "/" /\ Next1 \in {"/", "*"})
  /\ ~(c \in {"/", "|"} /\ Next1 \in Letters)
  /\ LET end == cp + (IF Arrow THEN 3 ELSE 1) IN Token(end, end)
  /\ UNCHANGED errorcnt

-----------------------------------------------------------------------------
\* A block of C code, up to the brace that closes it.
OpenCode ==
  /\ InLayout /\ c = "{"
  /\ scanning' = "code" /\ level' = 1 /\ mark' = Here
  /\ cp' = cp + 1
  /\ UNCHANGED <<lineno, tokens, strings, errorcnt>>

InCode == Scanning("code") /\ UNCHANGED mark

\* One round of the loop, which goes on at p.  It looks at the character there
\* even when that is past the NUL: a comment or a literal ran into the end.
CodeTo(p, lines) ==
  /\ cp' = p /\ lineno' = lineno + lines
  /\ scanning' = IF p > Len(z) THEN "past" ELSE "code"
  /\ UNCHANGED <<tokens, strings, errorcnt>>

CodeCharacter ==
  /\ InCode /\ c # NUL /\ (level > 1 \/ c # "}")
  /\ ~(c = "/" /\ Next1 \in {"*", "/"}) /\ c \notin {"'", "\""}
  /\ level' = level + (CASE c = "{" -> 1 [] c = "}" -> -1 [] OTHER -> 0)
  /\ CodeTo(cp + 1, Lines(cp, cp))

CodeComment ==
  /\ InCode /\ c = "/" /\ Next1 = "*"
  /\ LET end == CommentEnd(cp + 3) IN CodeTo(end + 1, Lines(cp, end))
  /\ UNCHANGED level

\* The line that ends with the comment is not counted.
CodeLineComment_LineLost ==
  /\ InCode /\ c = "/" /\ Next1 = "/"
  /\ LET end == Until(z, cp + 2, {"\n"}) IN CodeTo(end + 1, 0)
  /\ UNCHANGED level

CodeLineComment ==
  /\ InCode /\ c = "/" /\ Next1 = "/"
  /\ LET end == Until(z, cp + 2, {"\n"}) IN CodeTo(end + 1, Lines(end, end))
  /\ UNCHANGED level

\* prevc at position k of a literal that opened at q: a character that is
\* itself escaped escapes nothing.
Escaping(q) ==
  LET prevc[k \in q..Len(z)] ==
        IF k <= q + 1 THEN NUL
        ELSE IF prevc[k - 1] = "\\" THEN NUL ELSE z[k - 1]
  IN  prevc

CodeLiteral ==
  /\ InCode /\ c \in {"'", "\""}
  /\ LET prevc == Escaping(cp)
         end == Min({k \in cp + 1..Len(z) : z[k] = NUL \/ (z[k] = c /\ prevc[k] # "\\")})
     IN  CodeTo(end + 1, Lines(cp, end))
  /\ UNCHANGED level

CloseCode ==
  /\ InCode /\ c \in {NUL, "}"} /\ (c = "}" => level = 1)
  /\ Emit(mark, cp)
  /\ scanning' = "layout" /\ level' = 0
  /\ cp' = (IF c = NUL THEN cp ELSE cp + 1)
  /\ errorcnt' = (IF c = NUL THEN errorcnt + 1 ELSE errorcnt)
  /\ UNCHANGED lineno

EndOfFile ==
  /\ InLayout /\ c = NUL
  /\ scanning' = "done"
  /\ UNCHANGED <<cp, lineno, level, mark, tokens, strings, errorcnt>>

\* Parse, from its call to its end
ParseFile ==
  \/ Unreadable \/ Preprocess
  \/ SkipSpace \/ SkipLineComment \/ SkipComment
  \/ StringLiteral \/ Identifier \/ Alternative \/ Operator
  \/ OpenCode \/ CodeCharacter \/ CodeComment \/ CodeLineComment
  \/ CodeLiteral \/ CloseCode
  \/ EndOfFile

ScanNext ==
  \/ ReadOptions /\ UNCHANGED parseVars
  \/ main = "file" /\ ParseFile /\ UNCHANGED commandVars
=============================================================================
