------------------------------ MODULE TextProps ------------------------------
(***************************************************************************)
(* What must hold of the code that takes texts apart and puts them         *)
(* together by hand: lemon's scanner, the one for the answer to a          *)
(* challenge, the search filters, and the values of the configuration.     *)
(* They share nothing; a behaviour runs one of them on one text.           *)
(***************************************************************************)
EXTENDS LemonScanner, Challenge, StringProps

CONSTANTS
  Invocations, \* of lemon: its command line and the grammar file
  Sendings,    \* what is asked of the client
  Orders,      \* the filters that are to be built
  Texts        \* of tokens

ASSUME InvocationsAssumption ==
  \A call \in Invocations : call.argv \in Seq(Seq(STRING)) /\ call.file \in Seq(STRING)

ASSUME OrdersAssumption ==
  \A o \in Orders : /\ o.maker \in DOMAIN Formats
                     /\ o.template \in Seq(STRING) /\ o.username \in Seq(STRING)

ASSUME SendingsAssumption ==
  \A s \in Sendings :
    \/ s.kind \in {"static", "dynamic"} /\ {s.password, s.response} \subseteq Seq(0..255)
    \/ s.kind = "typed" /\ s.password \in Seq(Nat)

ASSUME TextsAssumption == Texts \subseteq Seq(STRING)

VARIABLE reader  \* which of them

textVars == <<reader, scanVars, crVars, filterVars, tokenVars>>

Idle == [kind |-> "typed", password |-> <<>>, response |-> <<>>]
NoInvocation == [argv |-> <<>>, file |-> <<>>]
NoOrder == [maker |-> "plugin", template |-> <<>>, username |-> <<>>]

Of(who, these, none) == IF reader = who THEN these ELSE {none}

Init ==
  /\ reader \in {"grammar", "answer", "filter", "token"}
  /\ ScanInit(Of("grammar", Invocations, NoInvocation))
  /\ CRInit(Of("answer", Sendings, Idle))
  /\ FilterInit(Of("filter", Orders, NoOrder))
  /\ TokenInit(Of("token", Texts, <<>>))

Next ==
  /\ reader' = reader
  /\ \/ reader = "grammar" /\ ScanNext /\ UNCHANGED <<crVars, filterVars, tokenVars>>
     \/ reader = "answer" /\ CRNext /\ UNCHANGED <<scanVars, filterVars, tokenVars>>
     \/ reader = "filter" /\ FilterNext /\ UNCHANGED <<scanVars, crVars, tokenVars>>
     \/ reader = "token" /\ TokenNext /\ UNCHANGED <<scanVars, crVars, filterVars>>

Spec == Init /\ [][Next]_textVars

-----------------------------------------------------------------------------
(* The directives of a file, by the lines they are on and not by counting. *)

Text == Append(file, NUL)

Ifs == {i \in DOMAIN file : Directive(Text, i, {"ifdef", "ifndef"})}
Endifs == {i \in DOMAIN file : Directive(Text, i, {"endif"})}

\* The %endif of the %ifdef at i: the first with as many of the others between.
EndsOf(i) ==
  {e \in Endifs : e > i /\ Cardinality(Ifs \cap i + 1..e - 1)
                             = Cardinality(Endifs \cap i + 1..e - 1)}

\* The macros of the command line: the names in -Dname, -Dname=value, +Dname
\* and D=name.
Given ==
  LET upto(k, from) ==
        SubSeq(argv[k], from,
               Min({j \in from..Len(argv[k]) : argv[k][j] = "="} \cup {Len(argv[k]) + 1}) - 1)
  IN  {upto(k, 3) : k \in {j \in DOMAIN argv : \/ IsPrefix(<<"-", "D">>, argv[j])
                                              \/ IsPrefix(<<"+", "D">>, argv[j])
                                              \/ IsPrefix(<<"D", "=">>, argv[j])}}

LeftOut == {i \in Ifs : (MacroAt(Text, i) \in Given) # (Text[i + 1] = "ifdef")}

LineOf(i) == i..Until(Text, i, {"\n"}) - 1

Removed ==
  UNION ({LineOf(i) : i \in Ifs \cup Endifs}
           \cup {i..Min(EndsOf(i)) : i \in LeftOut})

(* What lemon reads is the file with each directive, and each block whose   *)
(* condition does not hold for the macros its command line gives, replaced  *)
(* by spaces, however they are nested and wherever a %endif is missing or   *)
(* left over, and with every newline kept: OptInit and preprocess_input.    *)
(* Only a block that is left out and does not end stops it.                 *)
PreprocessExact ==
  scanning \notin {"opening", "unread"} =>
    IF \E i \in LeftOut : EndsOf(i) = {}
    THEN scanning = "exit"
    ELSE /\ scanning # "exit"
         /\ z = [k \in DOMAIN Text |->
                   IF k \in Removed /\ Text[k] # "\n" THEN Blank ELSE Text[k]]

-----------------------------------------------------------------------------
(* The tokens of a text, by recursive descent: where the token or the gap   *)
(* ends that starts at a position, blocks within blocks.                    *)

Opens(k, second) == z[k] = "/" /\ z[k + 1] = second
LineEnd(k) == Min({j \in k..Len(z) : z[j] \in {"\n", NUL}})
\* The first slash after a star from position k on, or the NUL.
StarSlash(k) == Min({j \in k..Len(z) : z[j] = NUL \/ (z[j] = "/" /\ z[j - 1] = "*")})

\* The quote that closes the literal whose text starts at k.
Quote(quote) ==
  LET at[k \in 1..Len(z)] ==
        IF z[k] \in {NUL, quote} THEN k
        ELSE IF z[k] = "\\" /\ z[k + 1] # NUL THEN at[k + 2] ELSE at[k + 1]
  IN  at

\* The brace that closes the block whose text goes on at k.
Close ==
  LET single == Quote("'")
      double == Quote("\"")
      at[k \in 1..Len(z)] ==
        LET after(end) == IF z[end] = NUL THEN end ELSE at[end + 1] IN
        CASE z[k] \in {NUL, "}"} -> k
          [] z[k] = "{" -> after(at[k + 1])
          [] z[k] = "'" -> after(single[k + 1])
          [] z[k] = "\"" -> after(double[k + 1])
          [] Opens(k, "*") -> after(IF z[k + 2] = NUL THEN k + 2 ELSE StarSlash(k + 3))
          [] Opens(k, "/") -> after(LineEnd(k + 2))
          [] OTHER -> at[k + 1]
  IN  at

\* The position after the word that starts at k.
WordEnd(k) == Min({j \in k..Len(z) : z[j] \notin WordParts})

\* The tokens from k on, as [from, to, next].  In a gap a comment is /*/ too.
TokensFrom ==
  LET close == Close
      found[k \in 1..Len(z)] ==
        LET gap(end) == IF z[end] = NUL THEN <<>> ELSE found[end + 1]
            token(to, next) == <<[from |-> k, to |-> to]>> \o found[next]
            closed(to) == token(to, IF z[to] = NUL THEN to ELSE to + 1)
        IN CASE z[k] = NUL -> <<>>
             [] z[k] \in Spaces -> gap(k)
             [] Opens(k, "/") -> gap(LineEnd(k))
             [] Opens(k, "*") -> gap(StarSlash(k + 2))
             [] z[k] = "\"" -> closed(Min({j \in k + 1..Len(z) : z[j] \in {"\"", NUL}}))
             [] z[k] = "{" -> closed(close[k + 1])
             [] z[k] \in Alnum -> token(WordEnd(k), WordEnd(k))
             [] z[k] \in {"/", "|"} /\ z[k + 1] \in Letters ->
                  token(WordEnd(k + 1), WordEnd(k + 1))
             [] k + 2 < Len(z) /\ SubSeq(z, k, k + 2) = <<":", ":", "=">> -> token(k + 3, k + 3)
             [] OTHER -> token(k + 1, k + 1)
  IN  found[1]

(* Every token is cut out where it is written, blocks of C code up to the   *)
(* brace that closes them and not one in a comment or a literal, carries    *)
(* the line it begins on, and equal texts, and only those, are the same     *)
(* string; an unterminated one is reported: Parse and Strsafe.              *)
TokensAsWritten ==
  scanning = "done" =>
    LET expected == TokensFrom IN
      /\ Len(tokens) = Len(expected)
      /\ \A i \in DOMAIN tokens :
           /\ strings.tbl[tokens[i].x] = SubSeq(z, expected[i].from, expected[i].to - 1)
           /\ tokens[i].line = 1 + Lines(1, expected[i].from)
      /\ \A i, j \in DOMAIN tokens :
           strings.tbl[tokens[i].x] = strings.tbl[tokens[j].x] => tokens[i].x = tokens[j].x
      /\ errorcnt = Cardinality({i \in DOMAIN expected :
                       /\ z[expected[i].from] \in {"{", "\""}
                       /\ z[expected[i].to] = NUL})

-----------------------------------------------------------------------------
(* A client's answer gives exactly the password and the response that were  *)
(* encoded, or is refused, which it is when one is too long and when it is  *)
(* not of one of the two forms; what is decoded never runs over its place:  *)
(* extract_openvpn_cr.                                                      *)
AnswersExact ==
  LET long(bytes) == 3 * ((Len(bytes) + 2) \div 3) + 1 >= MAXTOKENLENGTH
      fits(bytes) == Len(bytes) < MAXTOKENLENGTH
  IN
  /\ parsing = "accepted" /\ sent.kind # "typed" =>
       /\ result.password = sent.password
       /\ result.response = sent.response
  /\ parsing = "refused" =>
       \/ sent.kind = "typed"
       \/ long(sent.password) \/ long(sent.response)
  /\ fits(result.password) /\ fits(result.response)
  /\ parsing = "accepted" =>
       \E label \in {static_cr_label, dynamic_cr_label} : IsPrefix(label, response)
=============================================================================
