----------------------------- MODULE ConfigToken -----------------------------
(***************************************************************************)
(* A token of the configuration, asked for its value as a number or as a   *)
(* truth value (TRConfigToken.m), which it keeps for the next time, and    *)
(* the conversion to a number (TRString.m).                                *)
(***************************************************************************)
EXTENDS Integers, SequencesExt

CONSTANTS
  INT_MAX,   \* 2147483647 in the code
  LONG_MAX   \* INT_MAX or more

ASSUME TokenAssumption ==
  INT_MAX \in Nat \ {0} /\ LONG_MAX \in Nat /\ LONG_MAX >= INT_MAX

VARIABLES
  configToken,  \* its text, dataType and internalRep, a union
  answer        \* the last answer: [asked, ok, value]

tokenVars == <<configToken, answer>>

INT_MIN == -INT_MAX - 1

Digits == <<"0", "1", "2", "3", "4", "5", "6", "7", "8", "9">>
DigitOf(c) == CHOOSE d \in 0..9 : Digits[d + 1] = c

\* A word is folded to lower case; the letters are those of the words below.
CaseFold(text) ==
  LET upper == <<"Y", "E", "S", "N", "O", "T", "R", "U", "F", "A", "L">>
      lower == <<"y", "e", "s", "n", "o", "t", "r", "u", "f", "a", "l">>
      folded(c) == IF Contains(upper, c)
                   THEN lower[CHOOSE i \in DOMAIN upper : upper[i] = c] ELSE c
  IN  [i \in DOMAIN text |-> folded(text[i])]

\* The length of the longest beginning that satisfies Fits(i) throughout.
Span(text, from, Fits(_)) ==
  LET stops == {i \in from..Len(text) : ~Fits(text[i])}
  IN  IF stops = {} THEN Len(text) + 1 ELSE CHOOSE i \in stops : \A j \in stops : i <= j

\* What digits are in decimal: ten times those before, and the last one.
Decimal(digits) ==
  LET upto[i \in 0..Len(digits)] ==
        IF i = 0 THEN 0 ELSE 10 * upto[i - 1] + DigitOf(digits[i])
  IN  upto[Len(digits)]

Space == " "

\* strtol: the value, held within a long, and whether all was read.  Without a
\* digit nothing is read.
Strtol(text) ==
  LET start == Span(text, 1, LAMBDA c : c = Space)
      signed == start \in DOMAIN text /\ text[start] \in {"+", "-"}
      first == IF signed THEN start + 1 ELSE start
      end == Span(text, first, LAMBDA c : Contains(Digits, c))
      size == Decimal(SubSeq(text, first, end - 1))
      negative == signed /\ text[start] = "-"
  IN  IF end = first THEN [value |-> 0, all |-> text = <<>>]
      ELSE [value |-> IF negative THEN IF size > LONG_MAX THEN -LONG_MAX - 1 ELSE -size
                      ELSE IF size > LONG_MAX THEN LONG_MAX ELSE size,
            all |-> end > Len(text)]

\* -[TRString intValue:]
StringIntValue(text) ==
  LET i == Strtol(text)
  IN  CASE ~i.all -> [ok |-> FALSE, value |-> 0]
        [] i.all /\ i.value >= INT_MAX -> [ok |-> FALSE, value |-> INT_MAX]
        [] i.all /\ i.value <= INT_MIN -> [ok |-> FALSE, value |-> INT_MIN]
        [] OTHER -> [ok |-> TRUE, value |-> i.value]

Yes == {<<"y", "e", "s">>, <<"t", "r", "u", "e">>, <<"1">>}
No == {<<"n", "o">>, <<"f", "a", "l", "s", "e">>, <<"0">>}

StringBoolValue(text) ==
  [ok |-> CaseFold(text) \in Yes \cup No,
   value |-> IF CaseFold(text) \in Yes THEN 1 ELSE 0]

-----------------------------------------------------------------------------
NotAsked == [asked |-> "nothing", ok |-> FALSE, value |-> 0]

TokenInit(texts) ==
  /\ configToken \in {[text |-> x, dataType |-> "string", internalRep |-> 0] : x \in texts}
  /\ answer = NotAsked

(* Mutation: what is kept is taken for a value of either type. *)
Kept_Either(type) == configToken.dataType # "string"

\* A value of that type is kept from an earlier conversion.
Kept(type) == configToken.dataType = type

Convert(type, converted) ==
  IF Kept(type)
  THEN /\ answer' = [asked |-> type, ok |-> TRUE, value |-> configToken.internalRep]
       /\ configToken' = configToken
  ELSE /\ answer' = [asked |-> type, ok |-> converted.ok, value |-> converted.value]
       /\ configToken' = IF converted.ok
                   THEN [configToken EXCEPT !.dataType = type, !.internalRep = converted.value]
                   ELSE configToken

IntValue == Convert("int", StringIntValue(configToken.text))
BoolValue == Convert("bool", StringBoolValue(configToken.text))

TokenNext == IntValue \/ BoolValue
=============================================================================
