----------------------------- MODULE StringProps -----------------------------
(***************************************************************************)
(* What must hold of the strings the plugin makes and reads: the filter of *)
(* a search, and the values of the configuration.                          *)
(***************************************************************************)
EXTENDS SearchFilter, ConfigToken

\* What libldap takes a part of a filter for: a backslash makes the special
\* character behind it one like any other.
Special(c) == c \in {"*", "(", ")", "\\"}
Role(c) == IF Special(c) THEN "syntax" ELSE "text"

Piece(text, i) ==
  IF text[i] = "\\" /\ i < Len(text) /\ Special(text[i + 1])
  THEN [takes |-> 2, means |-> << <<text[i + 1], "text">> >>]
  ELSE [takes |-> 1, means |-> << <<text[i], Role(text[i])>> >>]

\* n characters read from left to right: what stands at each place, and how many
\* characters of it there are.
ReadBy(n, piece) ==
  LET from[i \in 1..n + 1] ==
        IF i > n THEN <<>> ELSE piece[i].means \o from[i + piece[i].takes]
  IN  from[1]

\* What the administrator means: the template as it is understood, and where
\* the format stands in it each character of the name for itself.
PlaceAt(text, format, i) == i < Len(text) /\ <<text[i], text[i + 1]>> = format

Spelled(name) == [i \in DOMAIN name |-> <<name[i], "text">>]

Filled(text, format, name) ==
  ReadBy(Len(text), [i \in DOMAIN text |->
                       IF PlaceAt(text, format, i) THEN [takes |-> 2, means |-> Spelled(name)]
                       ELSE Piece(text, i)])

\* A text without places.
Understood(text) == Filled(text, <<>>, <<>>)

Meant(o) == Filled(o.template, Formats[o.maker], o.username)

\* A backslash right in front of a place would make the first character of the
\* name, or the backslash it is quoted with, one like any other.
PlaceEscaped(o) ==
  \E i \in DOMAIN o.template :
    o.template[i] = "\\" /\ PlaceAt(o.template, Formats[o.maker], i + 1)

\* The memory of a string holds its text and a zero byte, and nothing is cut off.
Sized(string) == string \in {Fresh, NoString} \/ string.numBytes = Len(string.bytes) + 1

(* A search looks for exactly the name the user gave: the filter is read as *)
(* the template with each character of the name standing for itself in      *)
(* every place of the format, also where the name is empty, ends in a       *)
(* special character, or holds the format itself, and nothing is cut off by *)
(* a wrong length: createSearchFilter, quoteForSearch and TRString.  (Only  *)
(* a template with a backslash right in front of a place undoes this.)      *)
FilterExact ==
  /\ building = "built" /\ ~PlaceEscaped(order) => Understood(filter.bytes) = Meant(order)
  /\ \A string \in {unquoted, quoted, template, filter} : Sized(string)

-----------------------------------------------------------------------------
\* The sum of digits by their weights, which are the powers of ten.
Weighed(digits) ==
  LET n == Len(digits)
      power[k \in 0..n] == IF k = 0 THEN 1 ELSE 10 * power[k - 1]
      sum[i \in 0..n] ==
        IF i = 0 THEN 0 ELSE sum[i - 1] + DigitOf(digits[i]) * power[n - i]
  IN  sum[n]

\* What a text is in decimal; no number without a digit, except that the empty
\* text is read as 0.
Numeral(text) ==
  LET blanks == Cardinality({i \in DOMAIN text : \A j \in 1..i : text[j] = Space})
      plain == SubSeq(text, blanks + 1, Len(text))
      signed == plain # <<>> /\ Head(plain) \in {"+", "-"}
      digits == IF signed THEN Tail(plain) ELSE plain
      numeric == digits # <<>> /\ \A i \in DOMAIN digits : Contains(Digits, digits[i])
      size == Weighed(digits)
  IN  CASE text = <<>> -> {0}
        [] text # <<>> /\ ~numeric -> {}
        [] OTHER -> {IF signed /\ Head(plain) = "-" THEN -size ELSE size}

(* However often and in whatever order a token is asked for a number and    *)
(* for a truth value, it answers as if it were asked for the first time:    *)
(* what it keeps of the one is never taken for the other.  A number is      *)
(* accepted if it lies strictly between INT_MIN and INT_MAX, and held to    *)
(* them otherwise: -[TRConfigToken intValue:], boolValue:.                  *)
ConversionsExact ==
  LET text == configToken.text
      refused(value) == answer.ok = FALSE /\ answer.value = value
  IN
  /\ answer.asked = "int" =>
       IF Numeral(text) = {} THEN refused(0)
       ELSE \A n \in Numeral(text) :
              CASE n >= INT_MAX -> refused(INT_MAX)
                [] n <= INT_MIN -> refused(INT_MIN)
                [] OTHER -> answer.ok /\ answer.value = n
  /\ answer.asked = "bool" =>
       LET word == CaseFold(text)
       IN  /\ answer.ok <=> word \in Yes \cup No
           /\ answer.value = IF word \in Yes THEN 1 ELSE 0
=============================================================================
