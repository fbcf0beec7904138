------------------------------ MODULE Challenge ------------------------------
(***************************************************************************)
(* The answer of a client to a challenge, as openvpn passes it in place of *)
(* the password (openvpn-cr.c), and its base64 (base64.c).                 *)
(*                                                                         *)
(* A character of basis_64 is its place in it, 0 to 63; any other is a     *)
(* number from 64 on.  A byte is a number below 256.                       *)
(***************************************************************************)
EXTENDS Integers, SequencesExt

CONSTANTS
  MAXTOKENLENGTH, \* 1024 in the code
  MaxIndexes      \* the places for the start of a token, 15 in the code

ASSUME AnswerAssumption == MAXTOKENLENGTH \in Nat \ {0} /\ MaxIndexes \in Nat

VARIABLES
  parsing,       \* where extract_openvpn_cr is
  sent,          \* what the client was asked: [kind, password, response]
  response,      \* the text it made of it
  p,             \* the character that is looked at next
  tokenIndexes,  \* where the tokens start
  result         \* openvpn_response

crVars == <<parsing, sent, response, p, tokenIndexes, result>>

Colon == 100
Pad == 101
NotBase64 == 102

Bits(x, from, width) == (x \div 2^from) % 2^width

-----------------------------------------------------------------------------
\* Three bytes make four characters; one or two are filled up with zero bits
\* and padded.
Quad(s, i) ==
  LET b(k) == IF i + k <= Len(s) THEN s[i + k] ELSE 0
  IN  << Bits(b(0), 2, 6),
         Bits(b(0), 0, 2) * 16 + Bits(b(1), 4, 4),
         IF i + 1 <= Len(s) THEN Bits(b(1), 0, 4) * 4 + Bits(b(2), 6, 2) ELSE Pad,
         IF i + 2 <= Len(s) THEN Bits(b(2), 0, 6) ELSE Pad >>

Base64encode(s) ==
  [j \in 1..4 * ((Len(s) + 2) \div 3) |-> Quad(s, 3 * ((j - 1) \div 4) + 1)[((j - 1) % 4) + 1]]

pr2six(x) == IF x <= 63 THEN x ELSE 64

\* The characters up to the first one that is not in basis_64; the end of the
\* text is none either.
Prefix(t, from) ==
  LET stops == {k \in from..Len(t) : pr2six(t[k]) > 63}
  IN  SubSeq(t, from, IF stops = {} THEN Len(t)
                      ELSE (CHOOSE k \in stops : \A j \in stops : k <= j) - 1)

\* What is left over after the quads is not counted.
Base64decode_len_Short(t, from) == (Len(Prefix(t, from)) \div 4) * 3 + 1

Base64decode_len(t, from) == ((Len(Prefix(t, from)) + 3) \div 4) * 3 + 1

\* One byte of every two neighbours in a quad; a single character is ignored.
Base64decode(t, from) ==
  LET code == Prefix(t, from)
      byte(k) == LET quad == 4 * ((k - 1) \div 3)
                     i == (k - 1) % 3
                 IN  (code[quad + i + 1] * 2^(2 * i + 2)
                        + Bits(code[quad + i + 2], 4 - 2 * i, 2 * i + 2)) % 256
      rest == Len(code) % 4
  IN  [k \in 1..3 * (Len(code) \div 4) + (IF rest > 1 THEN rest - 1 ELSE 0) |-> byte(k)]

-----------------------------------------------------------------------------
static_cr_label == <<18, 2, 17, 21, 53>>   \* SCRV1
dynamic_cr_label == <<2, 17, 21, 53>>      \* CRV1

\* What openvpn sends: SCRV1:password:response, CRV1::state::response, or what
\* was typed.
TextOf(s) ==
  CASE s.kind = "static" ->
         static_cr_label \o <<Colon>> \o Base64encode(s.password)
           \o <<Colon>> \o Base64encode(s.response)
    [] s.kind = "dynamic" ->
         dynamic_cr_label \o <<Colon, Colon>> \o Base64encode(s.password)
           \o <<Colon, Colon>> \o Base64encode(s.response)
    [] OTHER -> s.password

NoResult == [protocol |-> <<>>, password |-> <<>>, response |-> <<>>]

CRInit(sendings) ==
  /\ parsing = "tokens"
  /\ sent \in sendings
  /\ response = TextOf(sent)
  /\ p = 1
  /\ tokenIndexes = <<1>>
  /\ result = NoResult

\* The loop over the text, one character a round; the array is not looked after.
NextCharacter ==
  /\ parsing = "tokens" /\ p \in DOMAIN response
  /\ p' = p + 1
  /\ tokenIndexes' =
       IF response[p] = Colon THEN Append(tokenIndexes, p + 1) ELSE tokenIndexes
  /\ parsing' = IF Len(tokenIndexes') > MaxIndexes THEN "overrun" ELSE "tokens"
  /\ UNCHANGED <<sent, response, result>>

IsStatic == Len(tokenIndexes) = 3 /\ IsPrefix(static_cr_label, response)
IsDynamic == Len(tokenIndexes) = 5 /\ IsPrefix(dynamic_cr_label, response)

\* set_token: strncpy is given the length of a token for the six bytes of
\* protocol, and fills up with zeros what comes after it, the password.
SetProtocol ==
  /\ parsing = "tokens" /\ p \notin DOMAIN response
  /\ IF IsStatic \/ IsDynamic
     THEN /\ result' = [result EXCEPT
                          !.protocol = IF IsStatic THEN static_cr_label ELSE dynamic_cr_label,
                          !.password = <<>>]
          /\ parsing' = "password"
     ELSE parsing' = "refused" /\ UNCHANGED result
  /\ UNCHANGED <<sent, response, p, tokenIndexes>>

\* set_token_b64
Fits(from) == Base64decode_len(response, from) < MAXTOKENLENGTH

SetToken(field, from, next) ==
  /\ parsing = field
  /\ IF Fits(from)
     THEN /\ result' = [result EXCEPT ![field] = Base64decode(response, from)]
          /\ parsing' = next
     ELSE parsing' = "refused" /\ UNCHANGED result
  /\ UNCHANGED <<sent, response, p, tokenIndexes>>

SetPassword == SetToken("password", tokenIndexes[IF IsStatic THEN 2 ELSE 3], "response")
SetResponse == SetToken("response", tokenIndexes[IF IsStatic THEN 3 ELSE 5], "accepted")

CRNext == NextCharacter \/ SetProtocol \/ SetPassword \/ SetResponse
=============================================================================
