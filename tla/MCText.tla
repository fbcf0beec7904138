------------------------------- MODULE MCText -------------------------------
(***************************************************************************)
(* The texts TLC runs the hand-written scanners and builders over.         *)
(***************************************************************************)
EXTENDS TextProps, FiniteSetsExt

\* As in strhash, few values: the chains are shared.
Weight(x) == CASE x = "a" -> 1 [] x = "b" -> 2 [] x = "{" -> 3 [] OTHER -> 0
MCTextHash(text) == FoldLeft(LAMBDA h, x : (h * 13 + Weight(x)) % 8, 0, text)

Upto(pieces, n) == {FlattenSeq(s) : s \in BoundedSeq(pieces, n)}

\* Directives, whole lines: on macros that are defined and not, one whose name
\* is on the next line, one that is none.
Directives ==
  { <<"%", "ifdef", " ", "a", "\n">>, <<"%", "ifdef", " ", "b", "\n">>,
    <<"%", "ifndef", " ", "a", "b", "\n">>, <<"%", "endif", "\n">>,
    <<"a", "{", "\n">> }

MoreDirectives ==
  { <<"%", "ifdef", "\n", "a", "\n", "%", "endif">>,
    <<"a", "%", "ifdef", " ", "b", "\n", "%", "endif", "\n", "b">>,
    <<"%", "ifdef", "1", "\n">>,
    <<"%", "ifndef", " ", " ", "b", "\n", "}", "\n", "%", "endif", " ", "a", "\n">> }

\* What may stand outside of a block of C code.
Outside ==
  { <<"a">>, <<"b", "_">>, <<" ">>, <<"\n">>, <<"/">>, <<"*">>, <<"/", "/">>,
    <<"|">>, <<"\"">>, <<"{">>, <<"}">>, <<":">>, <<":", ":", "=">>, <<"1">> }

\* What may stand in it.
Inside ==
  { <<"{">>, <<"}">>, <<"/", "*">>, <<"*", "/">>, <<"/", "/">>, <<"\n">>,
    <<"'">>, <<"\"">>, <<"\\">>, <<"a">> }

Blocks == {<<"{">> \o s \o <<"}", "b">> : s \in Upto(Inside, 4)}

MCFiles == Upto(Directives, 5) \cup MoreDirectives \cup Upto(Outside, 3) \cup Blocks

\* A macro with a value and one without, a flag, and the name of the file.
Usual == << <<"-", "D", "a">>, <<"-", "g">>, <<"-", "D", "a", "b", "=", "1">>, <<"y">> >>

\* Options of every form, some that are none, flags taken back, and operands.
Arguments ==
  { <<"-", "D", "a">>, <<"D", "=", "a", "=", "b">>, <<"+", "D", "b">>, <<"-", "D">>,
    <<"-", "x">>, <<"+", "x", "q">>, <<"-", "g", "=", "1">>, <<"g", "=", "1">>,
    <<"T", "=", "t">>, <<"-", "O">>, <<"-", "-">>, <<"-">>, <<"z", "=", "1">>, <<"=">>,
    <<>>, <<"y">> }

Conditional ==
  { <<"%", "ifdef", " ", "a", "\n", "b", "%", "endif", "\n", "%", "endif", "\n">>,
    <<"%", "ifndef", " ", "b", "\n", "a", "\n", "%", "endif">> }

MCInvocations ==
  [argv : {Usual}, file : MCFiles]
    \cup [argv : BoundedSeq(Arguments, 3), file : Conditional]

-----------------------------------------------------------------------------
Bytes == {97, 255, 58}

Secrets == BoundedSeq(Bytes, 2) \cup {<<58, 97, 255>>, <<255, 255, 255, 255>>,
             <<97, 58, 255, 0, 97>>, <<1, 2, 3, 4, 5, 6>>, <<255, 254, 253, 252, 251, 250, 97>>,
             <<1, 2, 3, 4, 5, 6, 7, 8>>}

Answers == [kind : {"static", "dynamic"}, password : Secrets, response : Secrets]

\* Typed: nothing, one of the labels in a word, too many tokens and too few, and
\* what base64 does not have.
Typed ==
  { static_cr_label, static_cr_label \o <<Colon>>, static_cr_label \o <<Colon, Colon, Colon>>,
    static_cr_label \o <<5, Colon, 5, 5, Colon, 5, NotBase64, 5>>,
    <<1>> \o static_cr_label \o <<Colon, Colon>>, dynamic_cr_label \o <<Colon, Colon>>,
    [k \in 1..5 |-> Colon], [k \in 1..6 |-> Colon], [k \in 1..9 |-> Colon] }

MCSendings == Answers \cup [kind : {"typed"}, password : Typed, response : {<<>>}]

-----------------------------------------------------------------------------
\* Parts of a template: the two formats, beginnings of one, characters of the
\* syntax, an escaped one and a backslash.
Parts == { <<"%", "u">>, <<"%", "s">>, <<"%">>, <<"u">>, <<"(", "a", "=">>, <<")">>, <<"*">>,
           <<"\\", "*">>, <<"\\">> }

Names == BoundedSeq({"a", "*", "\\", "%", "u"}, 3) \cup {<<"(", "%", "s", ")">>}

MCOrders ==
  [maker : {"plugin"}, template : Upto(Parts, 2), username : Names]
    \cup [maker : {"plugin", "object"}, template : Upto(Parts, 3), username : {<<"*", "%", "u", "\\">>, <<>>}]

\* INT_MAX is 12: numbers on both sides of it and of LONG_MAX, 112.
Words ==
  { <<"y", "e", "s">>, <<"Y", "e", "S">>, <<"n", "o">>, <<"T", "R", "U", "E">>,
    <<"f", "a", "l", "s", "e">>, <<"o", "n">>, <<"y", "e">> }

MCTexts ==
  Words \cup BoundedSeq({"0", "1", "2", "3", " ", "-"}, 3)
    \cup {<<"-", "1", "1", "3">>, <<"+", "1", "1">>, <<"1", "1", "a">>, <<"-", "2", "0", "0">>}
=============================================================================
