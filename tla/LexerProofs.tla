---------------------------- MODULE LexerProofs ----------------------------
(***************************************************************************)
(* Proofs about ConfigLexer, for files of any length and content.          *)
(***************************************************************************)
EXTENDS LexerProps, TLAPS, WellFoundedInduction, FiniteSetTheorems,
  SequenceTheorems

(***************************************************************************)
(* A non-empty set of natural numbers has a least element.                 *)
(***************************************************************************)
LEMMA LeastNat ==
  ASSUME NEW T, T \subseteq Nat, T # {}
  PROVE  \E x \in T : \A y \in T : x <= y
<1> DEFINE R == OpToRel(<, Nat)
<1>1. IsWellFoundedOn(R, Nat)
  BY NatLessThanWellFounded
<1>2. PICK x \in T : \A y \in T : ~ (<<y, x>> \in R)
  <2> HIDE DEF R
  <2> QED
    BY <1>1, WFMin
<1>3. \A y \in T : <<y, x>> \in R <=> y < x
  BY DEF OpToRel
<1>4. \A y \in T : ~ (y < x)
  <2> HIDE DEF R
  <2> QED
    BY <1>2, <1>3
<1> HIDE DEF R
<1>5. \A y \in T : x \in Nat /\ y \in Nat
  OBVIOUS
<1> QED
  BY <1>4, <1>5

(***************************************************************************)
(* Where a repetition ends.                                                *)
(***************************************************************************)
LEMMA WhileEnds ==
  ASSUME NEW C, Limit \in Nat, NEW p \in 1..Limit + 1
  PROVE  /\ While(p, C) \in p..Limit + 1
         /\ \A i \in p..While(p, C) - 1 : file[i] \in C
         /\ While(p, C) <= Limit => file[While(p, C)] \notin C
<1> DEFINE T == {q \in p..Limit + 1 : q <= Limit => file[q] \notin C}
<1>1. T \subseteq Nat /\ Limit + 1 \in T
  OBVIOUS
<1>2. PICK x \in T : \A y \in T : x <= y
  BY <1>1, LeastNat
<1>3. \A i \in p..x - 1 : file[i] \in C
  BY <1>2
<1>4. \E q \in p..Limit + 1 : /\ q <= Limit => file[q] \notin C
                              /\ \A i \in p..q - 1 : file[i] \in C
  BY <1>2, <1>3
<1> QED
  BY <1>4 DEF While

(* A repetition that matches anything matches the byte it begins at. *)
LEMMA WhileBegins ==
  ASSUME NEW C, Limit \in Nat, NEW p \in 1..Limit + 1, While(p, C) # p
  PROVE  file[p] \in C
<1> DEFINE w == While(p, C)
<1>1. w \in p..Limit + 1 /\ \A i \in p..w - 1 : file[i] \in C
  BY WhileEnds
<1> HIDE DEF w
<1>2. p \in p..w - 1
  <2>1. p \in Int /\ w # p
    BY DEF w
  <2> QED
    BY <1>1, <2>1
<1> QED
  BY <1>1, <1>2

LEMMA CommentEnds ==
  ASSUME file \in Seq(Chars), NEW p \in 1..Limit
  PROVE  /\ Comment(p) \in p..Limit + 1
         /\ Comment(p) > p => file[p] = "#"
<1>1. Limit \in Nat
  BY DEF Limit
<1> QED
  BY <1>1, WhileEnds DEF Comment

(***************************************************************************)
(* The match is one of the rules, and no rule matches more.                *)
(***************************************************************************)
LEMMA MatchIsBest ==
  ASSUME NEW m \in Matches
  PROVE  /\ \E i \in DOMAIN Rules(cursor) : m = Rules(cursor)[i]
         /\ m.end > cursor
         /\ \A j \in DOMAIN Rules(cursor) : Rules(cursor)[j].end <= m.end
         /\ status = "scanning" /\ ~Overrun
  BY DEF Matches

(***************************************************************************)
(* What a match does with the end of the file, as an assumption of the     *)
(* lemmas about the five blocks of rules and what they prove.              *)
(***************************************************************************)
AtRules ==
  /\ file \in Seq(Chars)
  /\ cursor \in 1..Limit

LeavesBlanks(m) ==
  /\ m.end \in cursor + 1..Limit + 1
  /\ Limit \notin Looked(cursor) => m.end <= Limit
  /\ Limit \in Looked(cursor) /\ file[Limit] = "newline" =>
       \A i \in m.end..Limit : file[i] \in {" ", "newline"}

LEMMA AtMost ==
  ASSUME NEW l \in Nat, NEW c \in Nat, NEW e \in c + 1..l + 1, e # l + 1
  PROVE  e <= l
  OBVIOUS

LEMMA Within ==
  ASSUME NEW l \in Nat, NEW p \in Nat, NEW q \in p..l + 1, ~(q > l)
  PROVE  q \in p..l
  OBVIOUS

LEMMA LeavesBlanksIf ==
  ASSUME Limit \in Nat, cursor \in Nat,
         NEW m, NEW e \in cursor + 1..Limit + 1, m.end = e,
         e = Limit + 1 => Limit \in Looked(cursor),
         Limit \in Looked(cursor) /\ file[Limit] = "newline" =>
           \A i \in e..Limit : file[i] \in {" ", "newline"}
  PROVE  LeavesBlanks(m)
<1>1. e # Limit + 1 => e <= Limit
  BY AtMost
<1> QED
  BY <1>1 DEF LeavesBlanks

LEMMA ReachesLimit ==
  ASSUME Limit \in Nat, cursor \in Nat,
         NEW m, NEW e \in cursor + 1..Limit + 1, m.end = e,
         e = Limit + 1 => Limit \in Looked(cursor),
         Limit \in Looked(cursor) /\ file[Limit] = "newline" => e >= Limit
  PROVE  LeavesBlanks(m)
<1>1. e >= Limit => \A i \in e..Limit : i = Limit
  OBVIOUS
<1> QED
  BY <1>1, LeavesBlanksIf

LEMMA RuleFields ==
  ASSUME NEW name, NEW end
  PROVE  Rule(name, end).name = name /\ Rule(name, end).end = end
  BY DEF Rule

LEMMA OneOfThree ==
  ASSUME NEW a, NEW b, NEW c, NEW s, s = <<a, b, c>>, NEW i \in DOMAIN s
  PROVE  s[i] \in {a, b, c}
  OBVIOUS

LEMMA FirstOfThree ==
  ASSUME NEW a, NEW b, NEW c, NEW s, s = <<a, b, c>>
  PROVE  s[1] = a /\ 1 \in DOMAIN s
  OBVIOUS

LEMMA OneOfFour ==
  ASSUME NEW a, NEW b, NEW c, NEW d, NEW s, s = <<a, b, c, d>>,
         NEW i \in DOMAIN s
  PROVE  s[i] \in {a, b, c, d}
  OBVIOUS

LEMMA InitialMatch ==
  ASSUME AtRules, label = "INITIAL", NEW m \in Matches
  PROVE  /\ LeavesBlanks(m)
         /\ m.name \in {"skip", "KEY", "section", "newline", "unknown"}
<1> DEFINE b == While(cursor, Blank)
           c == Comment(cursor)
           k == While(cursor, KeyChars)
           o(x) == One(cursor, x)
<1>1. Rules(cursor) = <<Rule("skip", b), Rule("skip", c), Rule("KEY", k),
                        Rule("section", o("<")), Rule("newline", o("newline")),
                        Rule("unknown", cursor + 1)>>
  BY label = "INITIAL" DEF Rules
<1>2. Looked(cursor) = {cursor, b, c, k}
  BY label = "INITIAL" DEF Looked
<1>3. Limit \in Nat /\ cursor \in 1..Limit + 1
  BY DEF AtRules, Limit
<1>4. {b, c, k} \subseteq cursor..Limit + 1
  BY <1>3, WhileEnds, CommentEnds DEF AtRules
<1>5. \A x : o(x) \in {cursor, cursor + 1}
  BY DEF One
<1> HIDE DEF b, c, k, o
<1>6. /\ m.end \in {b, c, k, cursor + 1, o("<"), o("newline")}
      /\ m.name \in {"skip", "KEY", "section", "newline", "unknown"}
      /\ m.end >= b /\ m.end >= c /\ m.end >= k
      /\ m.end > cursor
  BY <1>1, MatchIsBest DEF Rule
<1>7. \A q \in {cursor, b, c, k} : q <= Limit
  BY <1>2, <1>3, <1>4, MatchIsBest DEF Overrun
<1>8. m.end \in cursor + 1..Limit + 1
  BY <1>3, <1>4, <1>5, <1>6, <1>7
<1>9. Limit \notin Looked(cursor) => m.end <= Limit
  BY <1>2, <1>3, <1>4, <1>5, <1>6, <1>7
<1>10. Limit \in Looked(cursor) => m.end >= Limit
  BY <1>2, <1>3, <1>4, <1>6, <1>8
<1>11. Limit \in Looked(cursor) /\ file[Limit] = "newline" =>
         \A i \in m.end..Limit : file[i] \in {" ", "newline"}
  <2> SUFFICES ASSUME Limit \in Looked(cursor), file[Limit] = "newline",
                      NEW i \in m.end..Limit
               PROVE  i = Limit
    OBVIOUS
  <2> QED
    BY <1>3, <1>8, <1>10
<1> QED
  BY <1>6, <1>8, <1>9, <1>11 DEF LeavesBlanks

LEMMA SectionMatch ==
  ASSUME AtRules, label = "SECTION", NEW m \in Matches
  PROVE  /\ LeavesBlanks(m)
         /\ m.name \in {"SECTION_START", "SECTION_START named", "SECTION_END",
                       "newline"}
         /\ m.name = "SECTION_START" => m.end >= cursor + 2
         /\ m.name = "SECTION_END" => m.end >= cursor + 3
<1> DEFINE k == While(cursor, KeyChars)
           l == While(cursor + 1, KeyChars)
           w == IF k > cursor THEN While(k, Blank) ELSE cursor
           z == IF file[cursor] = "/" /\ l > cursor + 1 THEN l ELSE cursor
<1>1. Rules(cursor) =
        <<Rule("SECTION_START", Closed(cursor, k, ">")),
          Rule("SECTION_START named", IF BlankFollows(k) THEN k ELSE cursor),
          Rule("SECTION_END", SectionEnd(cursor)),
          Rule("newline", One(cursor, "newline"))>>
  BY label = "SECTION" DEF Rules
<1>2. Looked(cursor) = {cursor, k, w, z}
  BY label = "SECTION" DEF Looked
<1>3. Limit \in Nat /\ cursor \in Nat
      /\ cursor \in 1..Limit + 1 /\ cursor + 1 \in 1..Limit + 1
  BY DEF AtRules, Limit
<1>4. /\ k \in cursor..Limit + 1
      /\ k > cursor => file[cursor] = "k"
  BY <1>3, WhileEnds DEF KeyChars
<1>5. l \in cursor + 1..Limit + 1
  BY <1>3, WhileEnds
<1>6. /\ k > cursor => /\ w \in k..Limit + 1
                       /\ \A i \in k..w - 1 : file[i] = " "
      /\ ~(k > cursor) => w = cursor
  <2>1. ASSUME k > cursor
        PROVE  w \in k..Limit + 1 /\ \A i \in k..w - 1 : file[i] = " "
    <3>1. k \in 1..Limit + 1
      BY <1>3, <1>4
    <3>2. w = While(k, Blank)
      BY <2>1
    <3> HIDE DEF k, w
    <3> QED
      BY <1>3, <3>1, <3>2, WhileEnds DEF Blank
  <2> QED
    BY <2>1
<1>7. SectionEnd(cursor) # cursor =>
        /\ SectionEnd(cursor) = l + 1
        /\ file[cursor] = "/"
        /\ cursor + 1 < l /\ l <= Limit /\ file[l] = ">"
  BY <1>3, <1>5 DEF SectionEnd, Closed
<1> HIDE DEF k, l, w
<1>8. Limit + 1 \notin {k, w, z}
  BY <1>2, <1>3, MatchIsBest DEF Overrun
<1> DEFINE Start == /\ m.name = "SECTION_START" /\ m.end = k + 1
                    /\ cursor < k /\ k <= Limit /\ file[k] = ">"
           Named == /\ m.name = "SECTION_START named" /\ m.end = k
                    /\ cursor < k /\ k <= Limit /\ file[k] = " "
           End == /\ m.name = "SECTION_END" /\ m.end = l + 1
                  /\ file[cursor] = "/"
                  /\ cursor + 1 < l /\ l <= Limit /\ file[l] = ">"
           Newl == /\ m.name = "newline" /\ m.end = cursor + 1
                   /\ file[cursor] = "newline"
           Goal == /\ LeavesBlanks(m)
                   /\ m.name \in {"SECTION_START", "SECTION_START named",
                                  "SECTION_END", "newline"}
                   /\ m.name = "SECTION_START" => m.end >= cursor + 2
                   /\ m.name = "SECTION_END" => m.end >= cursor + 3
<1>9. Start \/ Named \/ End \/ Newl
  <2>1. m.end > cursor
    BY MatchIsBest
  <2>2. m.end # cursor
    BY <1>3, <2>1
  <2> DEFINE start == Closed(cursor, k, ">")
             named == IF BlankFollows(k) THEN k ELSE cursor
             end == SectionEnd(cursor)
             newl == One(cursor, "newline")
  <2>3. \/ m.name = "SECTION_START" /\ m.end = start
        \/ m.name = "SECTION_START named" /\ m.end = named
        \/ m.name = "SECTION_END" /\ m.end = end
        \/ m.name = "newline" /\ m.end = newl
    <3> HIDE DEF start, named, end, newl
    <3>1. Rules(cursor) =
            <<Rule("SECTION_START", start), Rule("SECTION_START named", named),
              Rule("SECTION_END", end), Rule("newline", newl)>>
      BY <1>1 DEF start, named, end, newl
    <3>2. PICK i \in DOMAIN Rules(cursor) : m = Rules(cursor)[i]
      BY MatchIsBest
    <3>3. m \in {Rule("SECTION_START", start),
                Rule("SECTION_START named", named),
                Rule("SECTION_END", end), Rule("newline", newl)}
      BY <3>1, <3>2, OneOfFour
    <3>4. CASE m = Rule("SECTION_START", start)
      BY <3>4, RuleFields
    <3>5. CASE m = Rule("SECTION_START named", named)
      BY <3>5, RuleFields
    <3>6. CASE m = Rule("SECTION_END", end)
      BY <3>6, RuleFields
    <3>7. CASE m = Rule("newline", newl)
      BY <3>7, RuleFields
    <3> QED
      BY <3>3, <3>4, <3>5, <3>6, <3>7
  <2>4. CASE m.name = "SECTION_START" /\ m.end = start
    BY <2>2, <2>4 DEF Closed
  <2>5. CASE m.name = "SECTION_START named" /\ m.end = named
    <3>1. BlankFollows(k) /\ m.end = k /\ m.name = "SECTION_START named"
      BY <2>2, <2>5
    <3>2. cursor < k
      BY <1>3, <1>4, <2>1, <3>1
    <3> QED
      BY <3>1, <3>2 DEF BlankFollows, Blank
  <2>6. CASE m.name = "SECTION_END" /\ m.end = end
    BY <1>7, <2>2, <2>6
  <2>7. CASE m.name = "newline" /\ m.end = newl
    BY <2>2, <2>7 DEF One
  <2> QED
    BY <2>3, <2>4, <2>5, <2>6, <2>7
<1> HIDE DEF z
<1>4a. cursor < k /\ k <= Limit => file[cursor] = "k" /\ k \in cursor + 1..Limit
  BY <1>3, <1>4
<1>4b. file[cursor] # "k" => k = cursor /\ w = cursor
  <2>1. ~(k > cursor) => k = cursor
    BY <1>3, <1>4
  <2> QED
    BY <1>4, <1>6, <2>1
<1>4c. cursor + 1 < l /\ l <= Limit => l \in cursor + 2..Limit
  BY <1>3, <1>5
<1>10. CASE Start
  <2>1. file[cursor] = "k" /\ m.end = k + 1 /\ k \in cursor + 1..Limit
    BY <1>4a, <1>10
  <2>2. w = k
    <3>1. k > cursor
      BY <1>3, <2>1
    <3>2. w \in k..Limit + 1 /\ \A i \in k..w - 1 : file[i] = " "
      BY <1>6, <3>1
    <3>3. w # k => k \in k..w - 1
      <4>1. w \in k..Limit + 1 /\ k \in Int
        <5>1. k \in Int
          BY <1>3, <2>1
        <5> QED
          BY <3>2, <5>1
      <4> QED
        BY <1>3, <4>1
    <3> QED
      BY <1>10, <3>2, <3>3
  <2>3. Looked(cursor) = {cursor, k}
    BY <1>2, <2>1, <2>2 DEF z
  <2>4. Limit \in Looked(cursor) => k = Limit
    BY <1>3, <2>1, <2>3
  <2>5. LeavesBlanks(m)
    <3>1. k + 1 \in cursor + 1..Limit + 1 /\ (k + 1 = Limit + 1 => k = Limit)
      BY <1>3, <2>1
    <3> QED
      BY <1>3, <1>10, <2>3, <2>4, <3>1, LeavesBlanksIf
  <2>6. m.end >= cursor + 2
    BY <1>3, <2>1
  <2> QED
    BY <1>10, <2>5, <2>6
<1>11. CASE Named
  <2>1. file[cursor] = "k" /\ m.end = k /\ k \in cursor + 1..Limit
    BY <1>4a, <1>11
  <2>2. Looked(cursor) = {cursor, k, w}
    BY <1>2, <2>1 DEF z
  <2>3. Limit \in Looked(cursor) /\ file[Limit] = "newline" => w = Limit
    BY <1>3, <1>11, <2>1, <2>2
  <2>4. w = Limit => \A i \in k..Limit : i \in k..w - 1 \/ i = Limit
    BY <1>3, <2>1
  <2>5. LeavesBlanks(m)
    <3>1. k \in cursor + 1..Limit + 1 /\ k # Limit + 1
      BY <1>3, <2>1
    <3>2. k > cursor
      BY <1>3, <2>1
    <3>3. w = Limit /\ file[Limit] = "newline" =>
            \A i \in k..Limit : file[i] \in {" ", "newline"}
      BY <1>6, <2>4, <3>2
    <3> QED
      BY <1>3, <2>1, <2>3, <3>1, <3>3, LeavesBlanksIf
  <2> QED
    BY <1>11, <2>5
<1>12. CASE End
  <2>1. k = cursor /\ w = cursor /\ z = l
    BY <1>3, <1>4b, <1>12 DEF z
  <2>2. m.end = l + 1 /\ l \in cursor + 2..Limit
    BY <1>4c, <1>12
  <2>3. Limit \in Looked(cursor) <=> l = Limit
    BY <1>2, <1>3, <2>1, <2>2
  <2>4. LeavesBlanks(m)
    <3>1. l + 1 \in cursor + 1..Limit + 1 /\ (l + 1 = Limit + 1 => l = Limit)
      BY <1>3, <2>2
    <3> QED
      BY <1>3, <1>12, <2>3, <3>1, LeavesBlanksIf
  <2>5. m.end >= cursor + 3
    BY <1>3, <2>2
  <2> QED
    BY <1>12, <2>4, <2>5
<1>13. CASE Newl
  <2>1. k = cursor /\ w = cursor /\ z = cursor
    BY <1>4b, <1>13 DEF z
  <2>2. Limit \in Looked(cursor) <=> cursor = Limit
    BY <1>2, <2>1
  <2>3. LeavesBlanks(m)
    <3>1. /\ cursor + 1 \in cursor + 1..Limit + 1
          /\ cursor + 1 = Limit + 1 => cursor = Limit
      BY <1>3 DEF AtRules
    <3>2. cursor = Limit => \A i \in cursor + 1..Limit : FALSE
      BY <1>3
    <3> QED
      BY <1>3, <1>13, <2>2, <3>1, <3>2, LeavesBlanksIf
  <2> QED
    BY <1>13, <2>3
<1> QED
  BY <1>9, <1>10, <1>11, <1>12, <1>13

LEMMA SectionNameMatch ==
  ASSUME AtRules, label = "SECTION_NAME", NEW m \in Matches
  PROVE  /\ LeavesBlanks(m)
         /\ m.name \in {"skip", "SECTION_NAME", "newline"}
         /\ m.name = "SECTION_NAME" => m.end >= cursor + 2
<1> DEFINE b == While(cursor, Blank)
           k == While(cursor, KeyChars)
           n == Closed(cursor, k, ">")
           o == One(cursor, "newline")
<1>1. Rules(cursor) =
        <<Rule("skip", b), Rule("SECTION_NAME", n), Rule("newline", o)>>
  BY label = "SECTION_NAME" DEF Rules
<1>2. Looked(cursor) = {cursor, b, k}
  BY label = "SECTION_NAME" DEF Looked
<1>3. Limit \in Nat /\ cursor \in Nat
      /\ cursor \in 1..Limit + 1 /\ cursor \in 1..Limit
  BY DEF AtRules, Limit
<1>4. /\ b \in cursor..Limit + 1
      /\ b # cursor => file[cursor] = " "
  BY <1>3, WhileEnds, WhileBegins DEF Blank
<1>5. /\ k \in cursor..Limit + 1
      /\ k # cursor => file[cursor] = "k"
  BY <1>3, WhileEnds, WhileBegins DEF KeyChars
<1> HIDE DEF b, k
<1>6. b \in cursor..Limit /\ k \in cursor..Limit
  <2>1. ~(b > Limit) /\ ~(k > Limit)
    BY <1>2, MatchIsBest DEF Overrun
  <2> QED
    BY <1>3, <1>4, <1>5, <2>1, Within
<1>7. n # cursor => n = k + 1 /\ cursor < k /\ file[k] = ">"
  BY DEF Closed
<1>8. o # cursor => o = cursor + 1 /\ file[cursor] = "newline"
  BY DEF One
<1> HIDE DEF n, o
<1>9. m.end # cursor
  BY <1>3, MatchIsBest
<1>10. m \in {Rule("skip", b), Rule("SECTION_NAME", n), Rule("newline", o)}
  BY <1>1, MatchIsBest, OneOfThree
<1>11. CASE m = Rule("skip", b)
  <2>1. m.name = "skip" /\ m.end = b /\ b # cursor
    BY <1>9, <1>11, RuleFields
  <2>2. k = cursor
    BY <1>4, <1>5, <2>1
  <2>3. b \in cursor + 1..Limit + 1 /\ b # Limit + 1
    BY <1>3, <1>6, <2>1
  <2>4. Limit \in {cursor, b, k} => b = Limit
    BY <1>3, <1>6, <2>1, <2>2
  <2>5. b = Limit => b >= Limit
    BY <1>3
  <2> QED
    BY <1>2, <1>3, <2>1, <2>3, <2>4, <2>5, ReachesLimit
<1>12. CASE m = Rule("SECTION_NAME", n)
  <2>1. /\ m.name = "SECTION_NAME" /\ m.end = k + 1
        /\ cursor < k /\ file[k] = ">"
    BY <1>7, <1>9, <1>12, RuleFields
  <2>2. k \in cursor + 1..Limit
    BY <1>3, <1>6, <2>1
  <2>3. b = cursor
    <3>1. k # cursor
      BY <1>3, <2>2
    <3> QED
      BY <1>4, <1>5, <3>1
  <2>4. /\ k + 1 \in cursor + 1..Limit + 1 /\ k + 1 >= cursor + 2
        /\ k + 1 = Limit + 1 => k = Limit
    BY <1>3, <2>2
  <2>5. Limit \in {cursor, b, k} => k = Limit
    BY <1>3, <2>2, <2>3
  <2> QED
    BY <1>2, <1>3, <2>1, <2>4, <2>5, ReachesLimit
<1>13. CASE m = Rule("newline", o)
  <2>1. m.name = "newline" /\ m.end = cursor + 1 /\ file[cursor] = "newline"
    BY <1>8, <1>9, <1>13, RuleFields
  <2>2. b = cursor /\ k = cursor
    BY <1>4, <1>5, <2>1
  <2>3. /\ cursor + 1 \in cursor + 1..Limit + 1
        /\ cursor + 1 = Limit + 1 => cursor = Limit
        /\ cursor = Limit => cursor + 1 >= Limit
    BY <1>3
  <2> QED
    BY <1>2, <1>3, <2>1, <2>2, <2>3, ReachesLimit
<1> QED
  BY <1>10, <1>11, <1>12, <1>13
LEMMA ValueMatch ==
  ASSUME AtRules, label = "VALUE", NEW m \in Matches
  PROVE  /\ LeavesBlanks(m)
         /\ m.name \in {"skip", "string", "VALUE", "newline"}
<1> DEFINE b == While(cursor, Blank)
           c == Comment(cursor)
           v == While(cursor, Chars \ {" ", "newline", "quote"})
           o(x) == One(cursor, x)
<1>1. Rules(cursor) = <<Rule("skip", b), Rule("skip", c),
                        Rule("string", o("quote")), Rule("VALUE", v),
                        Rule("newline", o("newline"))>>
  BY label = "VALUE" DEF Rules
<1>2. Looked(cursor) = {cursor, b, c, v}
  BY label = "VALUE" DEF Looked
<1>3. Limit \in Nat /\ cursor \in Nat /\ cursor \in 1..Limit + 1
  BY DEF AtRules, Limit
<1>4. {b, c, v} \subseteq cursor..Limit + 1
  <2>1. b \in cursor..Limit + 1 /\ v \in cursor..Limit + 1
    BY <1>3, WhileEnds
  <2>2. c \in cursor..Limit + 1
    BY CommentEnds DEF AtRules
  <2> QED
    BY <2>1, <2>2
<1>5. \A x : o(x) \in {cursor, cursor + 1}
  BY DEF One
<1> HIDE DEF b, c, v, o
<1>6. /\ m.end \in {b, c, v, o("quote"), o("newline")}
      /\ m.name \in {"skip", "string", "VALUE", "newline"}
      /\ m.end >= b /\ m.end >= c /\ m.end >= v
      /\ m.end > cursor
  BY <1>1, MatchIsBest DEF Rule
<1>7. \A q \in {cursor, b, c, v} : q <= Limit
  BY <1>2, <1>3, <1>4, MatchIsBest DEF Overrun
<1>8. m.end \in cursor + 1..Limit + 1
  BY <1>3, <1>4, <1>5, <1>6, <1>7
<1>9. m.end = Limit + 1 => Limit \in Looked(cursor)
  BY <1>2, <1>3, <1>4, <1>5, <1>6, <1>7
<1>10. Limit \in Looked(cursor) => m.end >= Limit
  BY <1>2, <1>3, <1>4, <1>6, <1>8
<1> QED
  BY <1>3, <1>6, <1>8, <1>9, <1>10, ReachesLimit

LEMMA StringMatch ==
  ASSUME AtRules, label = "STRING_VALUE", NEW m \in Matches
  PROVE  /\ LeavesBlanks(m)
         /\ m.name \in {"skip", "quoted VALUE", "newline"}
         /\ m.name = "quoted VALUE" => m.end >= cursor + 2
<1> DEFINE c == Comment(cursor)
           s == While(cursor, Chars \ {"quote"})
           q == Closed(cursor, s, "quote")
           o == One(cursor, "newline")
<1>1. Rules(cursor) =
        <<Rule("skip", c), Rule("quoted VALUE", q), Rule("newline", o)>>
  BY label = "STRING_VALUE" DEF Rules
<1>2. Looked(cursor) = {cursor, c, s}
  BY label = "STRING_VALUE" DEF Looked
<1>3. Limit \in Nat /\ cursor \in Nat
      /\ cursor \in 1..Limit + 1 /\ cursor \in 1..Limit
  BY DEF AtRules, Limit
<1>4. c \in cursor..Limit + 1
  BY <1>3, CommentEnds DEF AtRules
<1>5. s \in cursor..Limit + 1
  BY <1>3, WhileEnds
<1>6. s <= Limit => file[s] = "quote"
  <2>1. s <= Limit => file[s] \notin Chars \ {"quote"}
    BY <1>3, WhileEnds
  <2>2. s <= Limit => s \in 1..Len(file)
    <3> HIDE DEF s
    <3> QED
      BY <1>3, <1>5 DEF Limit
  <2> HIDE DEF s
  <2> QED
    BY <2>1, <2>2 DEF AtRules
<1> HIDE DEF c, s
<1>7. c \in cursor..Limit /\ s \in cursor..Limit
  <2>1. ~(c > Limit) /\ ~(s > Limit)
    BY <1>2, MatchIsBest DEF Overrun
  <2> QED
    BY <1>3, <1>4, <1>5, <2>1, Within
<1>8. q # cursor => q = s + 1 /\ cursor < s
  BY DEF Closed
<1>9. o # cursor => o = cursor + 1
  BY DEF One
<1> HIDE DEF q, o
<1>10. PICK i \in DOMAIN Rules(cursor) : m = Rules(cursor)[i]
  BY MatchIsBest
<1>11. m \in {Rule("skip", c), Rule("quoted VALUE", q), Rule("newline", o)}
  BY <1>1, <1>10, OneOfThree
<1>11a. m.end > cursor /\ c <= m.end
  <2>1. Rules(cursor)[1] = Rule("skip", c) /\ 1 \in DOMAIN Rules(cursor)
    BY <1>1, FirstOfThree
  <2>2. Rules(cursor)[1].end = c
    BY <2>1, RuleFields
  <2>3. Rules(cursor)[1].end <= m.end /\ m.end > cursor
    BY <2>1, MatchIsBest
  <2> QED
    BY <2>2, <2>3
<1>12. \/ m.name = "skip" /\ m.end = c
       \/ m.name = "quoted VALUE" /\ m.end = s + 1 /\ cursor < s
       \/ m.name = "newline" /\ m.end = cursor + 1
  <2>1. m.end # cursor
    BY <1>3, <1>11a
  <2>2. CASE m = Rule("skip", c)
    BY <2>2, RuleFields
  <2>3. CASE m = Rule("quoted VALUE", q)
    <3>1. m.name = "quoted VALUE" /\ m.end = q
      BY <2>3, RuleFields
    <3> QED
      BY <1>8, <2>1, <3>1
  <2>4. CASE m = Rule("newline", o)
    <3>1. m.name = "newline" /\ m.end = o
      BY <2>4, RuleFields
    <3> QED
      BY <1>9, <2>1, <3>1
  <2> QED
    BY <1>11, <2>2, <2>3, <2>4
<1>13. m.end \in {c, s + 1, cursor + 1}
  BY <1>12
<1>14. m.end \in cursor + 1..Limit + 1
  BY <1>3, <1>7, <1>11a, <1>13
<1>15. m.end = Limit + 1 => Limit \in Looked(cursor)
  BY <1>2, <1>3, <1>7, <1>13
<1>16. Limit \in Looked(cursor) /\ file[Limit] = "newline" => m.end >= Limit
  <2>1. file[Limit] = "newline" => s # Limit
    BY <1>3, <1>6
  <2>2. Limit = cursor => m.end >= Limit
    BY <1>3, <1>11a, <1>14
  <2> QED
    BY <1>2, <1>11a, <2>1, <2>2
<1>17. m.name = "quoted VALUE" => m.end >= cursor + 2
  <2>1. cursor < s => s + 1 >= cursor + 2
    BY <1>3, <1>7
  <2> QED
    BY <1>12, <2>1
<1> QED
  BY <1>3, <1>12, <1>14, <1>15, <1>16, <1>17, ReachesLimit
(***************************************************************************)
(* The inductive invariant.  What is left of the file once its end has     *)
(* been noticed is the last conjunct; the two before it tie eoi to the     *)
(* cursor and to where the scan is.                                        *)
(***************************************************************************)
Token == [kind : TokenKinds, line : Nat, from : Nat, to : Nat]

LexInv ==
  /\ LexTypeOK
  /\ Limit >= 1
  /\ tokens \in Seq(Token)
  /\ lineNumber <= cursor
  /\ status = "scanning" => ~eoi
  /\ status = "end" => eoi
  /\ ~eoi => cursor <= Limit
  /\ eoi /\ file[Limit] = "newline" =>
       \A i \in cursor..Limit : file[i] \in {" ", "newline"}

LEMMA LexInit == Init => LexInv
<1> SUFFICES ASSUME Init
             PROVE  LexInv
  OBVIOUS
<1>1. file \in Seq(Chars) /\ file # <<>>
  BY FilesAssumption DEF Init
<1>2. Limit \in Nat /\ Limit >= 1
  BY <1>1 DEF Limit
<1>3. tokens = <<>> /\ cursor = 1 /\ lineNumber = 1 /\ eoi = FALSE
      /\ status = "ready" /\ condition = "INITIAL" /\ label = "INITIAL"
  BY DEF Init
<1>4. /\ DOMAIN tokens = {} /\ tokens \in Seq(Token)
      /\ cursor \in 1..Limit + 1 /\ lineNumber \in 1..Limit + 1
      /\ cursor <= Limit /\ lineNumber <= cursor
  <2>1. DOMAIN tokens = {} /\ tokens \in Seq(Token)
    BY <1>3
  <2>2. 1 \in 1..Limit + 1
    BY <1>2
  <2> QED
    BY <1>2, <1>3, <2>1, <2>2
<1>5. LexTypeOK
  BY <1>1, <1>3, <1>4 DEF LexTypeOK, Conditions
<1>6. ~eoi /\ status # "end"
  BY <1>3
<1> QED
  BY <1>2, <1>4, <1>5, <1>6 DEF LexInv

LEMMA Counters ==
  ASSUME LexInv
  PROVE  /\ file \in Seq(Chars)
         /\ Limit \in Nat
         /\ cursor \in 1..Limit + 1 /\ cursor \in Nat
         /\ ~eoi => cursor \in 1..Limit
         /\ lineNumber \in 1..Limit + 1 /\ lineNumber \in Nat
         /\ lineNumber \in 1..lineNumber
         /\ lineNumber <= cursor
<1>1. file \in Seq(Chars)
  BY DEF LexInv, LexTypeOK
<1>2. Limit \in Nat
  BY <1>1 DEF Limit
<1>3. /\ cursor \in 1..Limit + 1 /\ lineNumber \in 1..Limit + 1
      /\ lineNumber <= cursor /\ (~eoi => cursor <= Limit)
  BY DEF LexInv, LexTypeOK
<1>4. /\ cursor \in Nat /\ lineNumber \in Nat
      /\ lineNumber \in 1..lineNumber
      /\ cursor <= Limit => cursor \in 1..Limit
  BY <1>2, <1>3
<1> QED
  BY <1>1, <1>2, <1>3, <1>4

LEMMA AppendToken ==
  ASSUME NEW T, NEW s \in Seq(T), NEW t \in T, NEW r, r = Append(s, t)
  PROVE  /\ r \in Seq(T)
         /\ \A i \in DOMAIN r : (i \in DOMAIN s /\ r[i] = s[i]) \/ r[i] = t
  OBVIOUS

LEMMA BlockMatch ==
  ASSUME LexInv, NEW m \in Matches
  PROVE  /\ LeavesBlanks(m)
         /\ m.name \in {"SECTION_START", "SECTION_NAME", "quoted VALUE"} =>
              m.end >= cursor + 2
         /\ m.name = "SECTION_END" => m.end >= cursor + 3
<1>1. AtRules
  <2>1. ~eoi
    BY MatchIsBest DEF LexInv
  <2> QED
    BY <2>1, Counters DEF AtRules
<1>2. label \in Conditions
  BY DEF LexInv, LexTypeOK
<1>3. CASE label = "INITIAL"
  BY <1>1, <1>3, InitialMatch
<1>4. CASE label = "SECTION"
  BY <1>1, <1>4, SectionMatch
<1>5. CASE label = "SECTION_NAME"
  BY <1>1, <1>5, SectionNameMatch
<1>6. CASE label = "VALUE"
  BY <1>1, <1>6, ValueMatch
<1>7. CASE label = "STRING_VALUE"
  BY <1>1, <1>7, StringMatch
<1> QED
  BY <1>2, <1>3, <1>4, <1>5, <1>6, <1>7 DEF Conditions

(***************************************************************************)
(* What every rule does to the buffer.                                     *)
(***************************************************************************)
LEMMA TakeKeeps ==
  ASSUME LexInv, NEW m \in Matches, NEW rule, Take(m, rule)
  PROVE  /\ file' = file /\ Limit' = Limit /\ Limit \in Nat
         /\ cursor \in 1..Limit /\ cursor' = m.end
         /\ cursor' \in cursor + 1..Limit + 1
         /\ eoi' \in BOOLEAN
         /\ ~eoi' => cursor' <= Limit
         /\ eoi' /\ file[Limit] = "newline" =>
              \A i \in cursor'..Limit : file[i] \in {" ", "newline"}
<1>1. LeavesBlanks(m)
  BY BlockMatch
<1>2. ~eoi
  BY MatchIsBest DEF LexInv
<1>3. /\ file' = file /\ cursor' = m.end
      /\ eoi' = (eoi \/ Limit \in Looked(cursor))
  BY DEF Take, Fill
<1>4. Limit \in Nat /\ Limit' = Limit
  BY <1>3, Counters DEF Limit
<1>5. cursor \in 1..Limit
  BY <1>2, Counters
<1>6. eoi' = (Limit \in Looked(cursor))
  BY <1>2, <1>3
<1> QED
  BY <1>1, <1>3, <1>4, <1>5, <1>6 DEF LeavesBlanks

LEMMA LineKept ==
  ASSUME NEW l \in Nat, NEW c \in Nat, NEW n \in 1..l + 1, n <= c,
         NEW d \in c + 1..l + 1, NEW k \in {n, n + 1}
  PROVE  k \in 1..l + 1 /\ k <= d /\ 1..n \subseteq 1..k /\ d \in 1..l + 1
  OBVIOUS

(***************************************************************************)
(* The rules that return no token.                                         *)
(***************************************************************************)
LEMMA SkipKeeps ==
  ASSUME LexInv, NEW m \in Matches, NEW rule, Take(m, rule),
         NEW cond \in Conditions, Skip(cond),
         lineNumber' \in {lineNumber, lineNumber + 1}
  PROVE  LexInv'
<1>1. /\ file' = file /\ Limit' = Limit /\ Limit \in Nat
      /\ cursor \in 1..Limit /\ cursor' \in cursor + 1..Limit + 1
      /\ eoi' \in BOOLEAN
      /\ ~eoi' => cursor' <= Limit
      /\ eoi' /\ file[Limit] = "newline" =>
           \A i \in cursor'..Limit : file[i] \in {" ", "newline"}
  BY TakeKeeps
<1>2. /\ tokens' = tokens /\ condition' = condition
      /\ IF eoi' THEN status' = "end" /\ label' = label
                 ELSE status' = status /\ label' = cond
      /\ status = "scanning"
  BY MatchIsBest DEF Skip
<1>3. /\ lineNumber' \in 1..Limit + 1 /\ lineNumber' <= cursor'
      /\ 1..lineNumber \subseteq 1..lineNumber' /\ cursor' \in 1..Limit + 1
  <2>1. /\ Limit \in Nat /\ cursor \in Nat /\ lineNumber <= cursor
        /\ lineNumber \in 1..Limit + 1 /\ cursor' \in cursor + 1..Limit + 1
    BY <1>1, Counters
  <2>2. lineNumber' \in {lineNumber, lineNumber + 1}
    OBVIOUS
  <2> QED
    BY <2>1, <2>2, LineKept
<1>4. LexTypeOK'
  BY <1>1, <1>2, <1>3 DEF LexInv, LexTypeOK
<1> QED
  BY <1>1, <1>2, <1>3, <1>4 DEF LexInv

(***************************************************************************)
(* The rules that return a token, of which the first and the last bytes    *)
(* that are dropped leave at least one.                                    *)
(***************************************************************************)
LEMMA Extent ==
  ASSUME NEW l \in Nat, NEW c \in 1..l, NEW e \in c + 1..l + 1,
         NEW first \in Nat, NEW last \in Nat, e >= c + first + last + 1
  PROVE  /\ c + first \in 1..e - 1 - last
         /\ e - 1 - last \in 1..l
         /\ c + first \in Nat /\ e - 1 - last \in Nat
  OBVIOUS

LEMMA ReturnKeeps ==
  ASSUME LexInv, NEW m \in Matches, NEW rule, Take(m, rule),
         NEW kind \in TokenKinds, NEW first \in Nat, NEW last \in Nat,
         NEW cond \in Conditions, Return(m, kind, first, last, cond),
         m.end >= cursor + first + last + 1
  PROVE  LexInv'
<1> DEFINE t == [kind |-> kind, line |-> lineNumber,
                 from |-> cursor + first, to |-> m.end - 1 - last]
<1>1. /\ file' = file /\ Limit' = Limit /\ Limit \in Nat
      /\ cursor \in 1..Limit /\ cursor' \in cursor + 1..Limit + 1
      /\ cursor' = m.end
      /\ eoi' \in BOOLEAN
      /\ ~eoi' => cursor' <= Limit
      /\ eoi' /\ file[Limit] = "newline" =>
           \A i \in cursor'..Limit : file[i] \in {" ", "newline"}
  BY TakeKeeps
<1>2. /\ tokens' = Append(tokens, t) /\ condition' = cond
      /\ status' = "ready" /\ label' = label /\ lineNumber' = lineNumber
  BY DEF Return
<1>3. /\ lineNumber' \in 1..Limit + 1 /\ lineNumber' <= cursor'
      /\ cursor' \in 1..Limit + 1
  BY <1>1, <1>2, Counters, LineKept
<1>4. /\ t.kind \in TokenKinds /\ t.line \in 1..lineNumber
      /\ t.from \in 1..t.to /\ t.to \in 1..Limit
      /\ t \in Token
  <2>1. /\ cursor + first \in 1..m.end - 1 - last
        /\ m.end - 1 - last \in 1..Limit
        /\ cursor + first \in Nat /\ m.end - 1 - last \in Nat
    BY <1>1, Extent
  <2>2. lineNumber \in 1..lineNumber /\ lineNumber \in Nat
    BY Counters
  <2> QED
    BY <2>1, <2>2 DEF Token
<1> HIDE DEF t
<1>5. tokens \in Seq(Token)
  BY DEF LexInv
<1>6. /\ tokens' \in Seq(Token)
      /\ \A i \in DOMAIN tokens' :
           (i \in DOMAIN tokens /\ tokens'[i] = tokens[i]) \/ tokens'[i] = t
  BY <1>2, <1>4, <1>5, AppendToken
<1>7. \A i \in DOMAIN tokens' :
        /\ tokens'[i].kind \in TokenKinds
        /\ tokens'[i].line \in 1..lineNumber
        /\ tokens'[i].from \in 1..tokens'[i].to
        /\ tokens'[i].to \in 1..Limit
  <2> TAKE i \in DOMAIN tokens'
  <2>1. CASE i \in DOMAIN tokens /\ tokens'[i] = tokens[i]
    BY <2>1 DEF LexInv, LexTypeOK
  <2>2. CASE tokens'[i] = t
    BY <1>4, <2>2
  <2> QED
    BY <1>6, <2>1, <2>2
<1>8. LexTypeOK'
  BY <1>1, <1>2, <1>3, <1>7 DEF LexInv, LexTypeOK
<1> QED
  BY <1>1, <1>2, <1>3, <1>6, <1>8 DEF LexInv
LEMMA LexStep == LexInv /\ [Next]_vars => LexInv'
<1> SUFFICES ASSUME LexInv, [Next]_vars
             PROVE  LexInv'
  OBVIOUS
<1>1. CASE Scan
  <2>1. /\ UNCHANGED <<file, cursor, eoi, condition, lineNumber, tokens>>
        /\ IF eoi THEN status' = "end" /\ label' = label
                  ELSE status' = "scanning" /\ label' = condition
    BY <1>1 DEF Scan
  <2>2. Limit' = Limit
    BY <2>1 DEF Limit
  <2>3. LexTypeOK'
    BY <2>1, <2>2 DEF LexInv, LexTypeOK
  <2> QED
    BY <2>1, <2>2, <2>3 DEF LexInv
<1>2. ASSUME NEW m \in Matches,
             \/ SkipBlanksAndComments(m) \/ EnterSection(m) \/ EnterString(m)
             \/ Newline(m) \/ Key(m) \/ SectionStart(m) \/ SectionName(m)
             \/ EndSection(m) \/ Value(m) \/ UnknownCharacter(m)
      PROVE  LexInv'
  <2>0. /\ {condition, label} \subseteq Conditions
        /\ {"INITIAL", "SECTION", "SECTION_NAME", "VALUE", "STRING_VALUE"}
             = Conditions
        /\ TokenKinds =
             {"KEY", "VALUE", "SECTION_START", "SECTION_NAME", "SECTION_END"}
    BY DEF LexInv, LexTypeOK, Conditions, TokenKinds
  <2>1. CASE SkipBlanksAndComments(m)
    BY <2>0, <2>1, SkipKeeps DEF SkipBlanksAndComments
  <2>2. CASE EnterSection(m)
    BY <2>0, <2>2, SkipKeeps DEF EnterSection
  <2>3. CASE EnterString(m)
    BY <2>0, <2>3, SkipKeeps DEF EnterString
  <2>4. CASE Newline(m)
    BY <2>0, <2>4, SkipKeeps DEF Newline
  <2>5. /\ m.end >= cursor + 0 + 0 + 1
        /\ m.end >= cursor + 2 => m.end >= cursor + 0 + 1 + 1
        /\ m.end >= cursor + 3 => m.end >= cursor + 1 + 1 + 1
    <3>1. m.end \in cursor + 1..Limit + 1 /\ cursor \in Nat /\ Limit \in Nat
      BY BlockMatch, Counters DEF LeavesBlanks
    <3> QED
      BY <3>1
  <2>6. CASE Key(m)
    BY <2>0, <2>5, <2>6, ReturnKeeps DEF Key
  <2>7. CASE SectionStart(m)
    <3>1. CASE /\ Take(m, "SECTION_START")
               /\ Return(m, "SECTION_START", 0, 1, condition)
      <4>1. m.end >= cursor + 0 + 1 + 1
        BY <2>5, <3>1, BlockMatch DEF Take
      <4> QED
        BY <2>0, <3>1, <4>1, ReturnKeeps
    <3>2. CASE /\ Take(m, "SECTION_START named")
               /\ Return(m, "SECTION_START", 0, 0, "SECTION_NAME")
      BY <2>0, <2>5, <3>2, ReturnKeeps
    <3> QED
      BY <2>7, <3>1, <3>2 DEF SectionStart
  <2>8. CASE SectionName(m)
    <3>1. m.end >= cursor + 0 + 1 + 1
      BY <2>5, <2>8, BlockMatch DEF SectionName, Take
    <3> QED
      BY <2>0, <2>8, <3>1, ReturnKeeps DEF SectionName
  <2>9. CASE EndSection(m)
    <3>1. m.end >= cursor + 1 + 1 + 1
      BY <2>5, <2>9, BlockMatch DEF EndSection, Take
    <3> QED
      BY <2>0, <2>9, <3>1, ReturnKeeps DEF EndSection
  <2>10. CASE Value(m)
    <3>1. CASE Take(m, "VALUE") /\ Return(m, "VALUE", 0, 0, condition)
      BY <2>0, <2>5, <3>1, ReturnKeeps
    <3>2. CASE Take(m, "quoted VALUE") /\ Return(m, "VALUE", 0, 1, condition)
      <4>1. m.end >= cursor + 0 + 1 + 1
        BY <2>5, <3>2, BlockMatch DEF Take
      <4> QED
        BY <2>0, <3>2, <4>1, ReturnKeeps
    <3> QED
      BY <2>10, <3>1, <3>2 DEF Value
  <2>11. CASE UnknownCharacter(m)
    <3>1. /\ Take(m, "unknown") /\ status' = "unknown"
          /\ UNCHANGED <<condition, label, lineNumber, tokens>>
      BY <2>11 DEF UnknownCharacter
    <3>2. /\ file' = file /\ Limit' = Limit /\ Limit \in Nat
          /\ cursor' \in cursor + 1..Limit + 1
          /\ eoi' \in BOOLEAN
          /\ ~eoi' => cursor' <= Limit
          /\ eoi' /\ file[Limit] = "newline" =>
               \A i \in cursor'..Limit : file[i] \in {" ", "newline"}
      BY <3>1, TakeKeeps
    <3>3. lineNumber <= cursor' /\ cursor' \in 1..Limit + 1
      BY <3>2, Counters, LineKept
    <3>4. LexTypeOK'
      BY <3>1, <3>2, <3>3 DEF LexInv, LexTypeOK
    <3> QED
      BY <3>1, <3>2, <3>3, <3>4 DEF LexInv
  <2> QED
    BY <1>2, <2>1, <2>2, <2>3, <2>4, <2>6, <2>7, <2>8, <2>9, <2>10, <2>11
<1>3. CASE Fails
  <2>1. /\ UNCHANGED <<file, cursor, eoi, condition, label, lineNumber, tokens>>
        /\ status' \in {"assert", "no rule"}
    BY <1>3 DEF Fails
  <2>2. Limit' = Limit
    BY <2>1 DEF Limit
  <2>3. LexTypeOK'
    BY <2>1, <2>2 DEF LexInv, LexTypeOK
  <2> QED
    BY <2>1, <2>2, <2>3 DEF LexInv
<1>4. CASE UNCHANGED vars
  <2>1. Limit' = Limit
    BY <1>4 DEF vars, Limit
  <2> QED
    BY <1>4, <2>1 DEF vars, LexInv, LexTypeOK
<1> QED
  BY <1>1, <1>2, <1>3, <1>4 DEF Next, Ended

LEMMA LexInvariant == Spec => []LexInv
<1> QED
  BY LexInit, LexStep, PTL DEF Spec

(***************************************************************************)
(* LexTypeOK: cursor and lineNumber stay within the file, and every token  *)
(* is a non-empty part of it, for every file scanned.                      *)
(***************************************************************************)
THEOREM LexTypeCorrect == Spec => []LexTypeOK
<1>1. LexInv => LexTypeOK
  BY DEF LexInv
<1> QED
  BY <1>1, LexInvariant, PTL

(***************************************************************************)
(* NothingDropped: however long the file and whatever its bytes, the end   *)
(* of a file that ends with a newline is reported with nothing but blanks  *)
(* and newlines unread.                                                    *)
(***************************************************************************)
THEOREM NothingLost == Spec => []NothingDropped
<1>1. LexInv => NothingDropped
  BY DEF LexInv, NothingDropped
<1> QED
  BY <1>1, LexInvariant, PTL

(***************************************************************************)
(* What is at the cursor decides the match.                                *)
(***************************************************************************)
Bare == Chars \ {" ", "newline", "quote"}
NamedRule == "SECTION_START named"
QuotedRule == "quoted VALUE"
Unquoted == Chars \ {"quote"}
NamedEnd(p, k) == IF BlankFollows(k) THEN k ELSE p
BlanksEnd(p, k) == IF k > p THEN While(k, Blank) ELSE p
SlashEnd(p) ==
  IF file[p] = "/" /\ While(p + 1, KeyChars) > p + 1 THEN While(p + 1, KeyChars) ELSE p

(* The only match is that of rule name, it ends before e, and byte q is the *)
(* last one that is looked at.                                              *)
Reads(name, e, q) ==
  /\ Matches = {Rule(name, e)}
  /\ q \in Looked(cursor)
  /\ \A x \in Looked(cursor) : x \in Int /\ x <= q

LEMMA WhileIs ==
  ASSUME NEW C, Limit \in Nat, NEW p \in 1..Limit + 1, NEW q \in p..Limit,
         \A i \in p..q - 1 : file[i] \in C, file[q] \notin C
  PROVE  While(p, C) = q
<1> DEFINE w == While(p, C)
<1>1. /\ w \in p..Limit + 1 /\ \A i \in p..w - 1 : file[i] \in C
      /\ w <= Limit => file[w] \notin C
  BY WhileEnds
<1> HIDE DEF w
<1>2. CASE w < q
  <2>1. w \in p..q - 1 /\ w <= Limit
    BY <1>1, <1>2
  <2> QED
    BY <1>1, <2>1
<1>3. CASE w > q
  <2>1. q \in p..w - 1
    BY <1>1, <1>3
  <2> QED
    BY <1>1, <2>1
<1>4. w < q \/ w > q \/ w = q
  BY <1>1
<1> QED
  BY <1>2, <1>3, <1>4 DEF w

LEMMA WhileNone ==
  ASSUME NEW C, Limit \in Nat, NEW p \in 1..Limit, file[p] \notin C
  PROVE  While(p, C) = p
<1>1. p \in p..Limit /\ p \in 1..Limit + 1 /\ \A i \in p..p - 1 : FALSE
  OBVIOUS
<1> QED
  BY <1>1, WhileIs

Ends(r) == \A j \in DOMAIN r : r[j].end \in Nat

LEMMA TheMatch ==
  ASSUME status = "scanning", Limit \in Nat, cursor \in Nat,
         NEW q \in Looked(cursor), q <= Limit,
         \A x \in Looked(cursor) : x \in Int /\ x <= q,
         NEW r, r = Rules(cursor), Ends(r), NEW n \in Nat, DOMAIN r = 1..n,
         NEW i \in 1..n, NEW name, NEW e, r[i] = Rule(name, e), e > cursor,
         \A j \in 1..n : r[j].end <= e,
         \A j \in 1..i - 1 : r[j].end < e
  PROVE  Reads(name, e, q)
<1>1. ~Overrun
  BY DEF Overrun
<1> DEFINE Best(j) == /\ r[j].end > cursor
                      /\ \A k \in DOMAIN r : r[k].end <= r[j].end
                      /\ \A k \in 1..j - 1 : r[k].end < r[j].end
<1>2. Matches = {r[j] : j \in {j \in DOMAIN r : Best(j)}}
  BY <1>1 DEF Matches
<1>3. r[i].end = e /\ e \in Nat
  BY RuleFields DEF Ends
<1>4. Best(i)
  BY <1>3
<1>5. ASSUME NEW j \in DOMAIN r, Best(j)
      PROVE  j = i
  <2>1. r[j].end = e
    <3>1. r[j].end <= e /\ e <= r[j].end /\ r[j].end \in Nat
      BY <1>3, <1>5 DEF Ends
    <3> QED
      BY <1>3, <3>1
  <2>2. ~(j < i)
    <3> SUFFICES ASSUME j < i
                 PROVE  FALSE
      OBVIOUS
    <3>1. j \in 1..i - 1
      BY <1>5
    <3> QED
      BY <1>3, <2>1, <3>1
  <2>3. ~(i < j)
    <3> SUFFICES ASSUME i < j
                 PROVE  FALSE
      OBVIOUS
    <3>1. i \in 1..j - 1
      BY <1>5
    <3>2. r[i].end < r[j].end
      BY <1>5, <3>1
    <3> QED
      BY <1>3, <2>1, <3>2
  <2> QED
    BY <1>5, <2>2, <2>3
<1>6. {j \in DOMAIN r : Best(j)} = {i}
  BY <1>4, <1>5
<1> HIDE DEF Best
<1>7. Matches = {Rule(name, e)}
  BY <1>2, <1>6
<1> QED
  BY <1>7 DEF Reads

LEMMA Tuple3 ==
  ASSUME NEW a, NEW b, NEW c, NEW s, s = <<a, b, c>>
  PROVE  DOMAIN s = 1..3 /\ s[1] = a /\ s[2] = b /\ s[3] = c
  OBVIOUS

LEMMA Tuple4 ==
  ASSUME NEW a, NEW b, NEW c, NEW d, NEW s, s = <<a, b, c, d>>
  PROVE  DOMAIN s = 1..4 /\ s[1] = a /\ s[2] = b /\ s[3] = c /\ s[4] = d
  OBVIOUS

LEMMA Tuple5 ==
  ASSUME NEW a, NEW b, NEW c, NEW d, NEW e, NEW s, s = <<a, b, c, d, e>>
  PROVE  /\ DOMAIN s = 1..5 /\ s[1] = a /\ s[2] = b /\ s[3] = c /\ s[4] = d
         /\ s[5] = e
  OBVIOUS

LEMMA Tuple6 ==
  ASSUME NEW a, NEW b, NEW c, NEW d, NEW e, NEW f, NEW s, s = <<a, b, c, d, e, f>>
  PROVE  /\ DOMAIN s = 1..6 /\ s[1] = a /\ s[2] = b /\ s[3] = c /\ s[4] = d
         /\ s[5] = e /\ s[6] = f
  OBVIOUS

(* What the rules of a block match, from where each of them ends *)
LEMMA InitialReads ==
  ASSUME AtRules, status = "scanning", label = "INITIAL",
         NEW b \in Nat, b = While(cursor, Blank), NEW c \in Nat, c = Comment(cursor),
         NEW k \in Nat, k = While(cursor, KeyChars),
         NEW o \in Nat, o = One(cursor, "<"), NEW l \in Nat, l = One(cursor, "newline"),
         NEW q \in {cursor, b, c, k}, q <= Limit,
         cursor <= q, b <= q, c <= q, k <= q
  PROVE  /\ b > cursor /\ c <= b /\ k <= b /\ o <= b /\ l <= b
              => Reads("skip", b, q)
         /\ c > cursor /\ b < c /\ k <= c /\ o <= c /\ l <= c
              => Reads("skip", c, q)
         /\ k > cursor /\ b < k /\ c < k /\ o <= k /\ l <= k
              => Reads("KEY", k, q)
         /\ o > cursor /\ b < o /\ c < o /\ k < o /\ l <= o
              => Reads("section", o, q)
         /\ l > cursor /\ b < l /\ c < l /\ k < l /\ o < l
              => Reads("newline", l, q)
<1>1. Limit \in Nat /\ cursor \in Nat
  BY DEF AtRules, Limit
<1>2. PICK r : r = Rules(cursor)
  OBVIOUS
<1> DEFINE u == cursor + 1
<1>3. r = <<Rule("skip", b), Rule("skip", c), Rule("KEY", k), Rule("section", o),
            Rule("newline", l), Rule("unknown", u)>>
  BY <1>2, label = "INITIAL" DEF Rules
<1>4. Looked(cursor) = {cursor, b, c, k}
  BY label = "INITIAL" DEF Looked
<1>5. u \in Nat /\ \A x \in Nat : x > cursor => u <= x
  BY <1>1
<1> HIDE DEF u
<1>6. /\ DOMAIN r = 1..6 /\ r[1] = Rule("skip", b) /\ r[2] = Rule("skip", c)
      /\ r[3] = Rule("KEY", k) /\ r[4] = Rule("section", o)
      /\ r[5] = Rule("newline", l) /\ r[6] = Rule("unknown", u)
  BY <1>3, Tuple6
<1>7. /\ r[1].end = b /\ r[2].end = c /\ r[3].end = k /\ r[4].end = o
      /\ r[5].end = l /\ r[6].end = u
  BY <1>6, RuleFields
<1>8. Ends(r)
  BY <1>5, <1>6, <1>7 DEF Ends
<1>9. \A x \in Looked(cursor) : x \in Int /\ x <= q
  BY <1>1, <1>4
<1>10. q \in Looked(cursor) /\ 6 \in Nat /\ {1, 2, 3, 4, 5} \subseteq 1..6
  BY <1>4
<1>11. ASSUME b > cursor, c <= b, k <= b, o <= b, l <= b
       PROVE  Reads("skip", b, q)
  <2>1. \A j \in 1..6 : r[j].end <= b
    BY <1>5, <1>7, <1>11
  <2>2. \A j \in 1..1 - 1 : FALSE
    OBVIOUS
  <2> QED
    BY <1>1, <1>2, <1>6, <1>8, <1>9, <1>10, <1>11, <2>1, <2>2, TheMatch
<1>12. ASSUME c > cursor, b < c, k <= c, o <= c, l <= c
       PROVE  Reads("skip", c, q)
  <2>1. \A j \in 1..6 : r[j].end <= c
    BY <1>5, <1>7, <1>12
  <2>2. \A j \in 1..2 - 1 : r[j].end < c
    BY <1>7, <1>12
  <2> QED
    BY <1>1, <1>2, <1>6, <1>8, <1>9, <1>10, <1>12, <2>1, <2>2, TheMatch
<1>13. ASSUME k > cursor, b < k, c < k, o <= k, l <= k
       PROVE  Reads("KEY", k, q)
  <2>1. \A j \in 1..6 : r[j].end <= k
    BY <1>5, <1>7, <1>13
  <2>2. \A j \in 1..3 - 1 : r[j].end < k
    BY <1>7, <1>13
  <2> QED
    BY <1>1, <1>2, <1>6, <1>8, <1>9, <1>10, <1>13, <2>1, <2>2, TheMatch
<1>14. ASSUME o > cursor, b < o, c < o, k < o, l <= o
       PROVE  Reads("section", o, q)
  <2>1. \A j \in 1..6 : r[j].end <= o
    BY <1>5, <1>7, <1>14
  <2>2. \A j \in 1..4 - 1 : r[j].end < o
    BY <1>7, <1>14
  <2> QED
    BY <1>1, <1>2, <1>6, <1>8, <1>9, <1>10, <1>14, <2>1, <2>2, TheMatch
<1>15. ASSUME l > cursor, b < l, c < l, k < l, o < l
       PROVE  Reads("newline", l, q)
  <2>1. \A j \in 1..6 : r[j].end <= l
    BY <1>5, <1>7, <1>15
  <2>2. \A j \in 1..5 - 1 : r[j].end < l
    BY <1>7, <1>15
  <2> QED
    BY <1>1, <1>2, <1>6, <1>8, <1>9, <1>10, <1>15, <2>1, <2>2, TheMatch
<1> QED
  BY <1>11, <1>12, <1>13, <1>14, <1>15

LEMMA SectionRules ==
  ASSUME label = "SECTION"
  PROVE  Rules(cursor) =
           <<Rule("SECTION_START", Closed(cursor, While(cursor, KeyChars), ">")),
             Rule(NamedRule, NamedEnd(cursor, While(cursor, KeyChars))),
             Rule("SECTION_END", SectionEnd(cursor)),
             Rule("newline", One(cursor, "newline"))>>
<1> DEFINE k == While(cursor, KeyChars)
           newline == Rule("newline", One(cursor, "newline"))
<1>1. Rules(cursor) =
        <<Rule("SECTION_START", Closed(cursor, k, ">")),
          Rule("SECTION_START named", IF BlankFollows(k) THEN k ELSE cursor),
          Rule("SECTION_END", SectionEnd(cursor)), newline>>
  BY label = "SECTION" DEF Rules
<1> QED
  BY <1>1 DEF NamedEnd, NamedRule

LEMMA ValueRules ==
  ASSUME label = "VALUE"
  PROVE  /\ Rules(cursor) =
              <<Rule("skip", While(cursor, Blank)), Rule("skip", Comment(cursor)),
                Rule("string", One(cursor, "quote")),
                Rule("VALUE", While(cursor, Bare)),
                Rule("newline", One(cursor, "newline"))>>
         /\ Looked(cursor) =
              {cursor, While(cursor, Blank), Comment(cursor), While(cursor, Bare)}
<1> DEFINE v == While(cursor, Chars \ {" ", "newline", "quote"})
<1>1. Rules(cursor) =
        <<Rule("skip", While(cursor, Blank)), Rule("skip", Comment(cursor)),
          Rule("string", One(cursor, "quote")), Rule("VALUE", v),
          Rule("newline", One(cursor, "newline"))>>
  BY label = "VALUE" DEF Rules
<1>2. Looked(cursor) = {cursor, While(cursor, Blank), Comment(cursor), v}
  BY label = "VALUE" DEF Looked
<1> QED
  BY <1>1, <1>2 DEF Bare

LEMMA StringRules ==
  ASSUME label = "STRING_VALUE"
  PROVE  Rules(cursor) =
           <<Rule("skip", Comment(cursor)),
             Rule(QuotedRule, Closed(cursor, While(cursor, Unquoted), "quote")),
             Rule("newline", One(cursor, "newline"))>>
<1> DEFINE v == While(cursor, Chars \ {"quote"})
<1>1. Rules(cursor) =
        <<Rule("skip", Comment(cursor)),
          Rule("quoted VALUE", Closed(cursor, v, "quote")),
          Rule("newline", One(cursor, "newline"))>>
  BY label = "STRING_VALUE" DEF Rules
<1> QED
  BY <1>1 DEF Unquoted, QuotedRule

LEMMA SectionReads ==
  ASSUME AtRules, status = "scanning", label = "SECTION",
         NEW k \in Nat, k = While(cursor, KeyChars),
         NEW a \in Nat, a = Closed(cursor, k, ">"),
         NEW d \in Nat, d = NamedEnd(cursor, k),
         NEW e \in Nat, e = SectionEnd(cursor),
         NEW l \in Nat, l = One(cursor, "newline"),
         NEW w \in Nat, w = BlanksEnd(cursor, k),
         NEW z \in Nat, z = SlashEnd(cursor),
         NEW q \in {cursor, k, w, z}, q <= Limit,
         cursor <= q, k <= q, w <= q, z <= q
  PROVE  /\ a > cursor /\ d <= a /\ e <= a /\ l <= a => Reads("SECTION_START", a, q)
         /\ d > cursor /\ a < d /\ e <= d /\ l <= d
              => Reads(NamedRule, d, q)
         /\ e > cursor /\ a < e /\ d < e /\ l <= e => Reads("SECTION_END", e, q)
<1>1. Limit \in Nat /\ cursor \in Nat
  BY DEF AtRules, Limit
<1>2. PICK r : r = Rules(cursor)
  OBVIOUS
<1>3. r = <<Rule("SECTION_START", a), Rule(NamedRule, d),
            Rule("SECTION_END", e), Rule("newline", l)>>
  BY <1>2, SectionRules
<1>4. Looked(cursor) = {cursor, k, w, z}
  BY label = "SECTION" DEF Looked, BlanksEnd, SlashEnd
<1>6. /\ DOMAIN r = 1..4 /\ r[1] = Rule("SECTION_START", a)
      /\ r[2] = Rule(NamedRule, d)
      /\ r[3] = Rule("SECTION_END", e) /\ r[4] = Rule("newline", l)
  BY <1>3, Tuple4
<1>7. r[1].end = a /\ r[2].end = d /\ r[3].end = e /\ r[4].end = l
  BY <1>6, RuleFields
<1>8. Ends(r)
  BY <1>6, <1>7 DEF Ends
<1>9. \A x \in Looked(cursor) : x \in Int /\ x <= q
  BY <1>1, <1>4
<1>10. q \in Looked(cursor) /\ 4 \in Nat /\ {1, 2, 3} \subseteq 1..4
  BY <1>4
<1>11. ASSUME a > cursor, d <= a, e <= a, l <= a
       PROVE  Reads("SECTION_START", a, q)
  <2>1. \A j \in 1..4 : r[j].end <= a
    BY <1>7, <1>11
  <2>2. \A j \in 1..1 - 1 : FALSE
    OBVIOUS
  <2> QED
    BY <1>1, <1>2, <1>6, <1>8, <1>9, <1>10, <1>11, <2>1, <2>2, TheMatch
<1>12. ASSUME d > cursor, a < d, e <= d, l <= d
       PROVE  Reads(NamedRule, d, q)
  <2>1. \A j \in 1..4 : r[j].end <= d
    BY <1>7, <1>12
  <2>2. \A j \in 1..2 - 1 : r[j].end < d
    BY <1>7, <1>12
  <2> QED
    BY <1>1, <1>2, <1>6, <1>8, <1>9, <1>10, <1>12, <2>1, <2>2, TheMatch
<1>13. ASSUME e > cursor, a < e, d < e, l <= e
       PROVE  Reads("SECTION_END", e, q)
  <2>1. \A j \in 1..4 : r[j].end <= e
    BY <1>7, <1>13
  <2>2. \A j \in 1..3 - 1 : r[j].end < e
    BY <1>7, <1>13
  <2> QED
    BY <1>1, <1>2, <1>6, <1>8, <1>9, <1>10, <1>13, <2>1, <2>2, TheMatch
<1> QED
  BY <1>11, <1>12, <1>13

LEMMA SectionNameReads ==
  ASSUME AtRules, status = "scanning", label = "SECTION_NAME",
         NEW b \in Nat, b = While(cursor, Blank),
         NEW k \in Nat, k = While(cursor, KeyChars),
         NEW a \in Nat, a = Closed(cursor, k, ">"),
         NEW l \in Nat, l = One(cursor, "newline"),
         NEW q \in {cursor, b, k}, q <= Limit, cursor <= q, b <= q, k <= q
  PROVE  /\ b > cursor /\ a <= b /\ l <= b => Reads("skip", b, q)
         /\ a > cursor /\ b < a /\ l <= a => Reads("SECTION_NAME", a, q)
<1>1. Limit \in Nat /\ cursor \in Nat
  BY DEF AtRules, Limit
<1>2. PICK r : r = Rules(cursor)
  OBVIOUS
<1>3. r = <<Rule("skip", b), Rule("SECTION_NAME", a), Rule("newline", l)>>
  BY <1>2, label = "SECTION_NAME" DEF Rules
<1>4. Looked(cursor) = {cursor, b, k}
  BY label = "SECTION_NAME" DEF Looked
<1>6. /\ DOMAIN r = 1..3 /\ r[1] = Rule("skip", b)
      /\ r[2] = Rule("SECTION_NAME", a) /\ r[3] = Rule("newline", l)
  BY <1>3, Tuple3
<1>7. r[1].end = b /\ r[2].end = a /\ r[3].end = l
  BY <1>6, RuleFields
<1>8. Ends(r)
  BY <1>6, <1>7 DEF Ends
<1>9. \A x \in Looked(cursor) : x \in Int /\ x <= q
  BY <1>1, <1>4
<1>10. q \in Looked(cursor) /\ 3 \in Nat /\ {1, 2} \subseteq 1..3
  BY <1>4
<1>11. ASSUME b > cursor, a <= b, l <= b
       PROVE  Reads("skip", b, q)
  <2>1. \A j \in 1..3 : r[j].end <= b
    BY <1>7, <1>11
  <2>2. \A j \in 1..1 - 1 : FALSE
    OBVIOUS
  <2> QED
    BY <1>1, <1>2, <1>6, <1>8, <1>9, <1>10, <1>11, <2>1, <2>2, TheMatch
<1>12. ASSUME a > cursor, b < a, l <= a
       PROVE  Reads("SECTION_NAME", a, q)
  <2>1. \A j \in 1..3 : r[j].end <= a
    BY <1>7, <1>12
  <2>2. \A j \in 1..2 - 1 : r[j].end < a
    BY <1>7, <1>12
  <2> QED
    BY <1>1, <1>2, <1>6, <1>8, <1>9, <1>10, <1>12, <2>1, <2>2, TheMatch
<1> QED
  BY <1>11, <1>12

LEMMA ValueReads ==
  ASSUME AtRules, status = "scanning", label = "VALUE",
         NEW b \in Nat, b = While(cursor, Blank), NEW c \in Nat, c = Comment(cursor),
         NEW o \in Nat, o = One(cursor, "quote"),
         NEW v \in Nat, v = While(cursor, Bare),
         NEW l \in Nat, l = One(cursor, "newline"),
         NEW q \in {cursor, b, c, v}, q <= Limit,
         cursor <= q, b <= q, c <= q, v <= q
  PROVE  /\ b > cursor /\ c <= b /\ o <= b /\ v <= b /\ l <= b
              => Reads("skip", b, q)
         /\ c > cursor /\ b < c /\ o <= c /\ v <= c /\ l <= c
              => Reads("skip", c, q)
         /\ o > cursor /\ b < o /\ c < o /\ v <= o /\ l <= o
              => Reads("string", o, q)
         /\ v > cursor /\ b < v /\ c < v /\ o < v /\ l <= v
              => Reads("VALUE", v, q)
         /\ l > cursor /\ b < l /\ c < l /\ o < l /\ v < l
              => Reads("newline", l, q)
<1>1. Limit \in Nat /\ cursor \in Nat
  BY DEF AtRules, Limit
<1>2. PICK r : r = Rules(cursor)
  OBVIOUS
<1>3. r = <<Rule("skip", b), Rule("skip", c), Rule("string", o), Rule("VALUE", v),
            Rule("newline", l)>>
  BY <1>2, ValueRules
<1>4. Looked(cursor) = {cursor, b, c, v}
  BY ValueRules
<1>6. /\ DOMAIN r = 1..5 /\ r[1] = Rule("skip", b) /\ r[2] = Rule("skip", c)
      /\ r[3] = Rule("string", o) /\ r[4] = Rule("VALUE", v)
      /\ r[5] = Rule("newline", l)
  BY <1>3, Tuple5
<1>7. /\ r[1].end = b /\ r[2].end = c /\ r[3].end = o /\ r[4].end = v
      /\ r[5].end = l
  BY <1>6, RuleFields
<1>8. Ends(r)
  BY <1>6, <1>7 DEF Ends
<1>9. \A x \in Looked(cursor) : x \in Int /\ x <= q
  BY <1>1, <1>4
<1>10. q \in Looked(cursor) /\ 5 \in Nat /\ {1, 2, 3, 4, 5} \subseteq 1..5
  BY <1>4
<1>11. ASSUME b > cursor, c <= b, o <= b, v <= b, l <= b
       PROVE  Reads("skip", b, q)
  <2>1. \A j \in 1..5 : r[j].end <= b
    BY <1>7, <1>11
  <2>2. \A j \in 1..1 - 1 : FALSE
    OBVIOUS
  <2> QED
    BY <1>1, <1>2, <1>6, <1>8, <1>9, <1>10, <1>11, <2>1, <2>2, TheMatch
<1>12. ASSUME c > cursor, b < c, o <= c, v <= c, l <= c
       PROVE  Reads("skip", c, q)
  <2>1. \A j \in 1..5 : r[j].end <= c
    BY <1>7, <1>12
  <2>2. \A j \in 1..2 - 1 : r[j].end < c
    BY <1>7, <1>12
  <2> QED
    BY <1>1, <1>2, <1>6, <1>8, <1>9, <1>10, <1>12, <2>1, <2>2, TheMatch
<1>13. ASSUME o > cursor, b < o, c < o, v <= o, l <= o
       PROVE  Reads("string", o, q)
  <2>1. \A j \in 1..5 : r[j].end <= o
    BY <1>7, <1>13
  <2>2. \A j \in 1..3 - 1 : r[j].end < o
    BY <1>7, <1>13
  <2> QED
    BY <1>1, <1>2, <1>6, <1>8, <1>9, <1>10, <1>13, <2>1, <2>2, TheMatch
<1>14. ASSUME v > cursor, b < v, c < v, o < v, l <= v
       PROVE  Reads("VALUE", v, q)
  <2>1. \A j \in 1..5 : r[j].end <= v
    BY <1>7, <1>14
  <2>2. \A j \in 1..4 - 1 : r[j].end < v
    BY <1>7, <1>14
  <2> QED
    BY <1>1, <1>2, <1>6, <1>8, <1>9, <1>10, <1>14, <2>1, <2>2, TheMatch
<1>15. ASSUME l > cursor, b < l, c < l, o < l, v < l
       PROVE  Reads("newline", l, q)
  <2>1. \A j \in 1..5 : r[j].end <= l
    BY <1>7, <1>15
  <2>2. \A j \in 1..5 - 1 : r[j].end < l
    BY <1>7, <1>15
  <2> QED
    BY <1>1, <1>2, <1>6, <1>8, <1>9, <1>10, <1>15, <2>1, <2>2, TheMatch
<1> QED
  BY <1>11, <1>12, <1>13, <1>14, <1>15

LEMMA StringReads ==
  ASSUME AtRules, status = "scanning", label = "STRING_VALUE",
         NEW c \in Nat, c = Comment(cursor),
         NEW s \in Nat, s = While(cursor, Unquoted),
         NEW a \in Nat, a = Closed(cursor, s, "quote"),
         NEW l \in Nat, l = One(cursor, "newline"),
         NEW q \in {cursor, c, s}, q <= Limit, cursor <= q, c <= q, s <= q
  PROVE  a > cursor /\ c < a /\ l <= a => Reads(QuotedRule, a, q)
<1>1. Limit \in Nat /\ cursor \in Nat
  BY DEF AtRules, Limit
<1>2. PICK r : r = Rules(cursor)
  OBVIOUS
<1>3. r = <<Rule("skip", c), Rule(QuotedRule, a), Rule("newline", l)>>
  BY <1>2, StringRules
<1>4. Looked(cursor) = {cursor, c, s}
  BY label = "STRING_VALUE" DEF Looked, Unquoted
<1>6. /\ DOMAIN r = 1..3 /\ r[1] = Rule("skip", c)
      /\ r[2] = Rule(QuotedRule, a) /\ r[3] = Rule("newline", l)
  BY <1>3, Tuple3
<1>7. r[1].end = c /\ r[2].end = a /\ r[3].end = l
  BY <1>6, RuleFields
<1>8. Ends(r)
  BY <1>6, <1>7 DEF Ends
<1>9. \A x \in Looked(cursor) : x \in Int /\ x <= q
  BY <1>1, <1>4
<1>10. q \in Looked(cursor) /\ 3 \in Nat /\ {1, 2} \subseteq 1..3
  BY <1>4
<1>12. ASSUME a > cursor, c < a, l <= a
       PROVE  Reads(QuotedRule, a, q)
  <2>1. \A j \in 1..3 : r[j].end <= a
    BY <1>7, <1>12
  <2>2. \A j \in 1..2 - 1 : r[j].end < a
    BY <1>7, <1>12
  <2> QED
    BY <1>1, <1>2, <1>6, <1>8, <1>9, <1>10, <1>12, <2>1, <2>2, TheMatch
<1> QED
  BY <1>12

(***************************************************************************)
(* The twelve situations the lexer meets in a well-formed line.            *)
(***************************************************************************)
LEMMA ClassOfBlank ==
  ASSUME NEW x \in Blank
  PROVE  /\ x \notin KeyChars /\ x \notin Bare
         /\ x # "#" /\ x # "<" /\ x # ">" /\ x # "newline" /\ x # "quote"
<1>1. x = " "
  BY DEF Blank
<1> QED
  BY <1>1 DEF KeyChars, Bare

LEMMA ClassOfKey ==
  ASSUME NEW x \in KeyChars
  PROVE  /\ x \notin Blank /\ x \in Bare
         /\ x # "#" /\ x # "<" /\ x # ">" /\ x # "/" /\ x # "newline" /\ x # "quote"
<1>1. x = "k"
  BY DEF KeyChars
<1>2. x \in Chars /\ x \notin {" ", "newline", "quote"}
  BY <1>1, Zenon DEF Chars
<1>3. x \in Bare
  BY <1>2, Zenon DEF Bare
<1>4. x # "#" /\ x # "<" /\ x # ">" /\ x # "/" /\ x # "newline" /\ x # "quote"
  BY <1>1
<1>5. x \notin Blank
  BY <1>1, Zenon DEF Blank
<1> QED
  BY <1>3, <1>4, <1>5

LEMMA ClassOfBare ==
  ASSUME NEW x \in Bare
  PROVE  x \notin Blank /\ x # "newline" /\ x # "quote"
BY Zenon DEF Bare, Blank

LEMMA ClassOfMark ==
  /\ \A x \in {"#", "<", ">", "/", "newline", "quote"} :
       x \notin Blank /\ x \notin KeyChars
  /\ "newline" \notin Bare /\ "quote" \notin Bare
<1>1. ASSUME NEW x \in {"#", "<", ">", "/", "newline", "quote"}
      PROVE  x \notin Blank /\ x \notin KeyChars
  <2>1. x # " "
    BY <1>1, Zenon
  <2>2. x # "k"
    BY <1>1
  <2> QED
    BY <2>1, <2>2, Zenon DEF Blank, KeyChars
<1>2. "newline" \notin Bare /\ "quote" \notin Bare
  BY Zenon DEF Bare
<1> QED
  BY <1>1, <1>2

LEMMA AtCursor ==
  ASSUME AtRules
  PROVE  /\ Limit \in Nat /\ cursor \in Nat /\ cursor \in 1..Limit
         /\ cursor \in 1..Limit + 1 /\ cursor + 1 \in Nat
         /\ cursor + 1 \in 1..Limit + 1
         /\ cursor <= Limit /\ cursor < cursor + 1 /\ cursor + 1 > cursor
         /\ cursor <= cursor
         /\ \A C : file[cursor] \notin C => While(cursor, C) = cursor
         /\ \A x : One(cursor, x) = IF file[cursor] = x THEN cursor + 1 ELSE cursor
         /\ file[cursor] # "#" => Comment(cursor) = cursor
<1>1. Limit \in Nat /\ cursor \in 1..Limit
  BY DEF AtRules, Limit
<1> QED
  BY <1>1, WhileNone DEF One, Comment

LEMMA ReadBlanks ==
  ASSUME AtRules, status = "scanning", label \in {"INITIAL", "SECTION_NAME", "VALUE"},
         NEW q \in cursor + 1..Limit,
         \A i \in cursor..q - 1 : file[i] \in Blank, file[q] \notin Blank
  PROVE  Reads("skip", q, q)
<1>1. /\ q \in Nat /\ q > cursor /\ cursor <= q /\ q <= q /\ q <= Limit
      /\ cursor \in cursor..q - 1 /\ q \in cursor..Limit
  BY AtCursor
<1>2. file[cursor] \in Blank
  BY <1>1
<1>3. /\ file[cursor] \notin KeyChars /\ file[cursor] \notin Bare
      /\ file[cursor] # "#" /\ file[cursor] # "<" /\ file[cursor] # ">"
      /\ file[cursor] # "newline" /\ file[cursor] # "quote"
  <2> PICK x : x = file[cursor]
    OBVIOUS
  <2> QED
    BY <1>2, ClassOfBlank
<1>4. While(cursor, Blank) = q
  BY <1>1, AtCursor, WhileIs
<1>5. /\ Comment(cursor) = cursor /\ While(cursor, KeyChars) = cursor
      /\ While(cursor, Bare) = cursor /\ One(cursor, "<") = cursor
      /\ One(cursor, "newline") = cursor /\ One(cursor, "quote") = cursor
  BY <1>3, AtCursor
<1>6. Closed(cursor, cursor, ">") = cursor
  BY AtCursor DEF Closed
<1>7. cursor \in Nat /\ cursor <= cursor /\ cursor < q
  BY <1>1, AtCursor
<1>8. CASE label = "INITIAL"
  BY <1>1, <1>4, <1>5, <1>7, <1>8, InitialReads
<1>9. CASE label = "SECTION_NAME"
  BY <1>1, <1>4, <1>5, <1>6, <1>7, <1>9, SectionNameReads
<1>10. CASE label = "VALUE"
  BY <1>1, <1>4, <1>5, <1>7, <1>10, ValueReads
<1> QED
  BY <1>8, <1>9, <1>10

LEMMA ReadComment ==
  ASSUME AtRules, status = "scanning", label \in {"INITIAL", "VALUE"},
         NEW q \in cursor + 1..Limit,
         \A i \in cursor..q - 1 : file[i] \in Chars \ {"newline"},
         file[q] = "newline", file[cursor] = "#"
  PROVE  Reads("skip", q, q)
<1>1. /\ q \in Nat /\ q > cursor /\ cursor <= q /\ q <= q /\ q <= Limit
      /\ q \in cursor..Limit
  BY AtCursor
<1>2. Comment(cursor) = q
  <2>1. file[q] \notin Chars \ {"newline"}
    OBVIOUS
  <2>2. While(cursor, Chars \ {"newline"}) = q
    BY <1>1, <2>1, AtCursor, WhileIs
  <2> QED
    BY <2>2 DEF Comment
<1>3. /\ While(cursor, Blank) = cursor /\ While(cursor, KeyChars) = cursor
      /\ One(cursor, "<") = cursor /\ One(cursor, "newline") = cursor
      /\ One(cursor, "quote") = cursor
  BY AtCursor, ClassOfMark
<1>4. cursor \in Nat /\ cursor <= cursor /\ cursor < q
  BY <1>1, AtCursor
<1>5. CASE label = "INITIAL"
  BY <1>1, <1>2, <1>3, <1>4, <1>5, InitialReads
<1>6. CASE label = "VALUE"
  <2> DEFINE v == While(cursor, Bare)
  <2>1. /\ v \in cursor..Limit + 1
        /\ \A i \in cursor..v - 1 : file[i] \in Bare
    BY AtCursor, WhileEnds
  <2> HIDE DEF v
  <2>2. ~ (q < v)
    <3> SUFFICES ASSUME q < v
                 PROVE  FALSE
      OBVIOUS
    <3>1. q \in cursor..v - 1
      BY <1>1, <2>1, AtCursor
    <3>2. file[q] \in Bare
      BY <2>1, <3>1
    <3> QED
      BY <3>2, ClassOfMark
  <2>3. v \in Nat /\ v <= q
    BY <1>1, <2>1, <2>2, AtCursor
  <2>4. v = While(cursor, Bare)
    BY DEF v
  <2> QED
    BY <1>1, <1>2, <1>3, <1>4, <1>6, <2>3, <2>4, ValueReads
<1> QED
  BY <1>5, <1>6

LEMMA ReadNewline ==
  ASSUME AtRules, status = "scanning", label \in {"INITIAL", "VALUE"},
         file[cursor] = "newline"
  PROVE  Reads("newline", cursor + 1, cursor)
<1>1. /\ While(cursor, Blank) = cursor /\ While(cursor, KeyChars) = cursor
      /\ While(cursor, Bare) = cursor /\ Comment(cursor) = cursor
      /\ One(cursor, "<") = cursor /\ One(cursor, "quote") = cursor
      /\ One(cursor, "newline") = cursor + 1
  BY AtCursor, ClassOfMark
<1>2. CASE label = "INITIAL"
  BY <1>1, <1>2, AtCursor, InitialReads
<1>3. CASE label = "VALUE"
  BY <1>1, <1>3, AtCursor, ValueReads
<1> QED
  BY <1>2, <1>3

LEMMA ReadKey ==
  ASSUME AtRules, status = "scanning", label = "INITIAL", NEW q \in cursor + 1..Limit,
         \A i \in cursor..q - 1 : file[i] \in KeyChars, file[q] \notin KeyChars
  PROVE  Reads("KEY", q, q)
<1>1. /\ q \in Nat /\ q > cursor /\ cursor <= q /\ q <= q /\ q <= Limit
      /\ cursor \in cursor..q - 1 /\ q \in cursor..Limit
  BY AtCursor
<1>2. While(cursor, KeyChars) = q
  BY <1>1, AtCursor, WhileIs
<1>3. /\ file[cursor] \notin Blank /\ file[cursor] # "#" /\ file[cursor] # "<"
      /\ file[cursor] # "newline"
  <2> PICK x : x = file[cursor]
    OBVIOUS
  <2> QED
    BY <1>1, ClassOfKey
<1>4. /\ While(cursor, Blank) = cursor /\ Comment(cursor) = cursor
      /\ One(cursor, "<") = cursor /\ One(cursor, "newline") = cursor
  BY <1>3, AtCursor
<1>5. cursor \in Nat /\ cursor <= cursor /\ cursor < q
  BY <1>1, AtCursor
<1> QED
  BY <1>1, <1>2, <1>4, <1>5, InitialReads

LEMMA ReadSection ==
  ASSUME AtRules, status = "scanning", label = "INITIAL", file[cursor] = "<"
  PROVE  Reads("section", cursor + 1, cursor)
<1>1. /\ While(cursor, Blank) = cursor /\ While(cursor, KeyChars) = cursor
      /\ Comment(cursor) = cursor /\ One(cursor, "newline") = cursor
      /\ One(cursor, "<") = cursor + 1
  BY AtCursor, ClassOfMark
<1> QED
  BY <1>1, AtCursor, InitialReads

LEMMA ReadString ==
  ASSUME AtRules, status = "scanning", label = "VALUE", file[cursor] = "quote"
  PROVE  Reads("string", cursor + 1, cursor)
<1>1. /\ While(cursor, Blank) = cursor /\ While(cursor, Bare) = cursor
      /\ Comment(cursor) = cursor /\ One(cursor, "newline") = cursor
      /\ One(cursor, "quote") = cursor + 1
  BY AtCursor, ClassOfMark
<1> QED
  BY <1>1, AtCursor, ValueReads

LEMMA ReadValue ==
  ASSUME AtRules, status = "scanning", label = "VALUE", NEW q \in cursor + 1..Limit,
         \A i \in cursor..q - 1 : file[i] \in Bare, file[q] \notin Bare,
         file[cursor] # "#"
  PROVE  Reads("VALUE", q, q)
<1>1. /\ q \in Nat /\ q > cursor /\ cursor <= q /\ q <= q /\ q <= Limit
      /\ cursor \in cursor..q - 1 /\ q \in cursor..Limit
  BY AtCursor
<1>2. While(cursor, Bare) = q
  BY <1>1, AtCursor, WhileIs
<1>3. file[cursor] \notin Blank /\ file[cursor] # "quote" /\ file[cursor] # "newline"
  <2> PICK x : x = file[cursor]
    OBVIOUS
  <2> QED
    BY <1>1, ClassOfBare
<1>4. /\ While(cursor, Blank) = cursor /\ Comment(cursor) = cursor
      /\ One(cursor, "quote") = cursor /\ One(cursor, "newline") = cursor
  BY <1>3, AtCursor
<1>5. cursor \in Nat /\ cursor <= cursor /\ cursor < q
  BY <1>1, AtCursor
<1> QED
  BY <1>1, <1>2, <1>4, <1>5, ValueReads

LEMMA ReadName ==
  ASSUME AtRules, status = "scanning", label = "SECTION_NAME",
         NEW q \in cursor + 1..Limit,
         \A i \in cursor..q - 1 : file[i] \in KeyChars, file[q] = ">"
  PROVE  Reads("SECTION_NAME", q + 1, q)
<1>1. /\ q \in Nat /\ q > cursor /\ cursor <= q /\ q <= q /\ q <= Limit
      /\ cursor \in cursor..q - 1 /\ q \in cursor..Limit
      /\ q + 1 \in Nat /\ q + 1 > cursor /\ cursor < q + 1 /\ cursor <= q + 1
  BY AtCursor
<1>2. While(cursor, KeyChars) = q
  BY <1>1, AtCursor, ClassOfMark, WhileIs
<1>3. file[cursor] \notin Blank /\ file[cursor] # "newline"
  <2> PICK x : x = file[cursor]
    OBVIOUS
  <2> QED
    BY <1>1, ClassOfKey
<1>4. While(cursor, Blank) = cursor /\ One(cursor, "newline") = cursor
  BY <1>3, AtCursor
<1>5. Closed(cursor, q, ">") = q + 1
  BY <1>1 DEF Closed
<1> QED
  BY <1>1, <1>2, <1>4, <1>5, AtCursor, SectionNameReads

LEMMA ReadQuoted ==
  ASSUME AtRules, status = "scanning", label = "STRING_VALUE",
         NEW q \in cursor + 1..Limit,
         \A i \in cursor..q - 1 : file[i] \in Unquoted, file[q] = "quote",
         file[cursor] # "#", file[cursor] # "newline"
  PROVE  Reads(QuotedRule, q + 1, q)
<1>1. /\ q \in Nat /\ q > cursor /\ cursor <= q /\ q <= q /\ q <= Limit
      /\ q \in cursor..Limit
      /\ q + 1 \in Nat /\ q + 1 > cursor /\ cursor < q + 1 /\ cursor <= q + 1
  BY AtCursor
<1>2. While(cursor, Unquoted) = q
  BY <1>1, AtCursor, WhileIs DEF Unquoted
<1>3. Comment(cursor) = cursor /\ One(cursor, "newline") = cursor
  BY AtCursor
<1>4. Closed(cursor, q, "quote") = q + 1
  BY <1>1 DEF Closed
<1> QED
  BY <1>1, <1>2, <1>3, <1>4, AtCursor, StringReads

LEMMA ReadStart ==
  ASSUME AtRules, status = "scanning", label = "SECTION",
         NEW q \in cursor + 1..Limit,
         \A i \in cursor..q - 1 : file[i] \in KeyChars, file[q] = ">"
  PROVE  Reads("SECTION_START", q + 1, q)
<1>1. /\ q \in Nat /\ q > cursor /\ cursor < q /\ cursor <= q /\ q <= q /\ q <= Limit
      /\ cursor \in cursor..q - 1 /\ q \in cursor..Limit /\ q \in 1..Limit
      /\ q + 1 \in Nat /\ q + 1 > cursor /\ cursor <= q + 1
  BY AtCursor
<1>2. While(cursor, KeyChars) = q
  BY <1>1, AtCursor, ClassOfMark, WhileIs
<1>3. file[cursor] # "/" /\ file[cursor] # "newline"
  <2> PICK x : x = file[cursor]
    OBVIOUS
  <2> QED
    BY <1>1, ClassOfKey
<1>4. Closed(cursor, q, ">") = q + 1
  BY <1>1 DEF Closed
<1>5. NamedEnd(cursor, q) = cursor
  BY ClassOfMark DEF NamedEnd, BlankFollows
<1>6. SectionEnd(cursor) = cursor /\ SlashEnd(cursor) = cursor
  BY <1>3 DEF SectionEnd, SlashEnd
<1>7. BlanksEnd(cursor, q) = q
  BY <1>1, AtCursor, ClassOfMark, WhileNone DEF BlanksEnd
<1>8. One(cursor, "newline") = cursor
  BY <1>3, AtCursor
<1> QED
  BY <1>1, <1>2, <1>4, <1>5, <1>6, <1>7, <1>8, AtCursor, SectionReads

LEMMA ReadNamed ==
  ASSUME AtRules, status = "scanning", label = "SECTION",
         NEW q \in cursor + 1..Limit, NEW w \in q + 1..Limit,
         \A i \in cursor..q - 1 : file[i] \in KeyChars,
         \A i \in q..w - 1 : file[i] \in Blank, file[w] \notin Blank
  PROVE  Reads(NamedRule, q, w)
<1>1. /\ q \in Nat /\ q > cursor /\ cursor < q /\ cursor <= q /\ q <= q /\ q <= Limit
      /\ cursor \in cursor..q - 1 /\ q \in cursor..Limit /\ q \in 1..Limit + 1
      /\ w \in Nat /\ q <= w /\ cursor <= w /\ w <= w /\ w <= Limit /\ w \in q..Limit
      /\ q \in q..w - 1
  BY AtCursor
<1>2. file[q] \notin KeyChars /\ file[q] # ">" /\ file[q] \in Blank
  <2> PICK x : x = file[q]
    OBVIOUS
  <2> QED
    BY <1>1, ClassOfBlank
<1>3. While(cursor, KeyChars) = q
  BY <1>1, <1>2, AtCursor, WhileIs
<1>4. file[cursor] # "/" /\ file[cursor] # "newline"
  <2> PICK x : x = file[cursor]
    OBVIOUS
  <2> QED
    BY <1>1, ClassOfKey
<1>5. Closed(cursor, q, ">") = cursor
  BY <1>2 DEF Closed
<1>6. NamedEnd(cursor, q) = q
  BY <1>1, <1>2 DEF NamedEnd, BlankFollows
<1>7. SectionEnd(cursor) = cursor /\ SlashEnd(cursor) = cursor
  BY <1>4 DEF SectionEnd, SlashEnd
<1>8. BlanksEnd(cursor, q) = w
  <2>1. While(q, Blank) = w
    BY <1>1, AtCursor, WhileIs
  <2> QED
    BY <1>1, <2>1 DEF BlanksEnd
<1>9. One(cursor, "newline") = cursor
  BY <1>4, AtCursor
<1> QED
  BY <1>1, <1>3, <1>5, <1>6, <1>7, <1>8, <1>9, AtCursor, SectionReads

LEMMA ReadEnd ==
  ASSUME AtRules, status = "scanning", label = "SECTION", file[cursor] = "/",
         NEW q \in cursor + 2..Limit,
         \A i \in cursor + 1..q - 1 : file[i] \in KeyChars, file[q] = ">"
  PROVE  Reads("SECTION_END", q + 1, q)
<1>1. /\ q \in Nat /\ q > cursor /\ cursor < q /\ cursor <= q /\ q <= q /\ q <= Limit
      /\ q \in cursor + 1..Limit /\ cursor + 1 < q /\ q > cursor + 1
      /\ q + 1 \in Nat /\ q + 1 > cursor /\ cursor <= q + 1 /\ cursor < q + 1
      /\ q + 1 # cursor + 1
  BY AtCursor
<1>2. While(cursor + 1, KeyChars) = q
  BY <1>1, AtCursor, ClassOfMark, WhileIs
<1>3. Closed(cursor + 1, q, ">") = q + 1
  BY <1>1 DEF Closed
<1>4. SectionEnd(cursor) = q + 1
  BY <1>1, <1>2, <1>3 DEF SectionEnd
<1>5. SlashEnd(cursor) = q
  BY <1>1, <1>2 DEF SlashEnd
<1>6. While(cursor, KeyChars) = cursor /\ One(cursor, "newline") = cursor
  BY AtCursor, ClassOfMark
<1>7. Closed(cursor, cursor, ">") = cursor
  BY AtCursor DEF Closed
<1>8. NamedEnd(cursor, cursor) = cursor /\ BlanksEnd(cursor, cursor) = cursor
  BY AtCursor DEF NamedEnd, BlanksEnd
<1> QED
  BY <1>1, <1>4, <1>5, <1>6, <1>7, <1>8, AtCursor, SectionReads

(***************************************************************************)
(* The lines of the file.                                                  *)
(***************************************************************************)
Before(s) == UNION {Placed(r) : r \in {r \in Starts : r < s}}

LEMMA FileKept ==
  ASSUME file' = file
  PROVE  /\ Limit' = Limit /\ Starts' = Starts /\ (WellFormed <=> WellFormed')
         /\ \A s : /\ LineEnd(s)' = LineEnd(s) /\ Number(s)' = Number(s)
                   /\ Placed(s)' = Placed(s) /\ Before(s)' = Before(s)
<1>1. Limit' = Limit
  BY DEF Limit
<1>2. Starts' = Starts
  BY <1>1 DEF Starts
<1>3. \A s : LineEnd(s)' = LineEnd(s)
  BY <1>1 DEF LineEnd
<1>4. \A s : LineText(s)' = LineText(s)
  BY <1>3 DEF LineText
<1>5. \A s : Unended(s)' = Unended(s)
  BY <1>1, <1>3 DEF Unended
<1>6. \A s : Number(s)' = Number(s)
  BY <1>2 DEF Number
<1>7. \A s : Placed(s)' = Placed(s)
  BY <1>4, <1>6 DEF Placed
<1>8. \A s : Before(s)' = Before(s)
  BY <1>2, <1>7 DEF Before
<1>9. WellFormed <=> WellFormed'
  BY <1>2, <1>4, <1>5 DEF WellFormed
<1> QED
  BY <1>1, <1>2, <1>3, <1>6, <1>7, <1>8, <1>9

LEMMA LineBounds ==
  ASSUME file \in Seq(Chars), NEW s \in Starts
  PROVE  /\ Limit \in Nat /\ s \in 1..Limit + 1 /\ s \in Nat
         /\ LineEnd(s) \in s..Limit + 1 /\ LineEnd(s) \in Nat
         /\ \A k \in s..LineEnd(s) - 1 : file[k] \in Chars \ {"newline"}
         /\ LineEnd(s) <= Limit =>
              file[LineEnd(s)] = "newline" /\ LineEnd(s) + 1 \in Starts
<1>1. Limit \in Nat /\ Limit = Len(file)
  BY DEF Limit
<1>2. s \in 1..Limit + 1 /\ s \in Nat
  BY <1>1 DEF Starts
<1> DEFINE T == {j \in s..Limit : file[j] = "newline"} \cup {Limit + 1}
<1>3. T \subseteq Nat /\ T # {}
  BY <1>1, <1>2
<1>4. \E x \in T : \A y \in T : x <= y
  <2> HIDE DEF T
  <2> QED
    BY <1>3, LeastNat
<1> DEFINE e == LineEnd(s)
<1>5. e \in T /\ \A y \in T : e <= y
  <2>1. e = Min(T)
    BY DEF LineEnd
  <2> HIDE DEF T, e
  <2> QED
    BY <1>4, <2>1 DEF Min
<1> HIDE DEF e
<1>6. e \in s..Limit + 1 /\ e \in Nat /\ (e <= Limit => file[e] = "newline")
  BY <1>1, <1>2, <1>5
<1>7. ASSUME NEW k \in s..e - 1
      PROVE  file[k] \in Chars \ {"newline"}
  <2>1. k \in s..Limit /\ k \in 1..Len(file) /\ ~(e <= k)
    BY <1>1, <1>2, <1>6
  <2>2. file[k] \in Chars
    BY <2>1
  <2>3. file[k] # "newline"
    BY <1>5, <2>1
  <2> QED
    BY <2>2, <2>3
<1>8. e <= Limit => e + 1 \in Starts
  <2>1. e <= Limit => e \in 1..Limit
    BY <1>1, <1>2, <1>6
  <2> QED
    BY <1>6, <2>1 DEF Starts
<1> QED
  BY <1>1, <1>2, <1>6, <1>7, <1>8 DEF e

LEMMA LineBytes ==
  ASSUME file \in Seq(Chars), NEW s \in Starts
  PROVE  /\ LineText(s) \in Seq(Chars)
         /\ Len(LineText(s)) = LineEnd(s) - s
         /\ \A k \in 1..LineEnd(s) - s : LineText(s)[k] = file[s + k - 1]
<1> DEFINE e == LineEnd(s)
<1>1. /\ Limit \in Nat /\ s \in 1..Limit + 1 /\ s \in Nat
      /\ e \in s..Limit + 1 /\ e \in Nat
  BY LineBounds
<1> HIDE DEF e
<1>2. Limit = Len(file) /\ s \in 1..Len(file) + 1 /\ e - 1 \in s - 1..Len(file)
  BY <1>1 DEF Limit
<1>3. PICK t : t = SubSeq(file, s, e - 1)
  OBVIOUS
<1>4. /\ t \in Seq(Chars) /\ Len(t) = e - 1 - s + 1
      /\ \A k \in 1..e - 1 - s + 1 : t[k] = file[s + k - 1]
  BY <1>1, <1>2, <1>3, SubSeqProperties
<1>5. e - 1 - s + 1 = e - s
  BY <1>1
<1> QED
  BY <1>3, <1>4, <1>5 DEF LineText, e

(* The starts of the other lines are before this one or after its newline. *)
LEMMA OtherStarts ==
  ASSUME file \in Seq(Chars), NEW s \in Starts, NEW r \in Starts, r # s
  PROVE  r < s \/ (r > LineEnd(s) /\ r <= Limit + 1 /\ LineEnd(s) <= Limit)
<1> DEFINE e == LineEnd(s)
<1>1. /\ Limit \in Nat /\ s \in 1..Limit + 1 /\ s \in Nat
      /\ e \in s..Limit + 1 /\ e \in Nat
      /\ \A k \in s..e - 1 : file[k] \in Chars \ {"newline"}
      /\ r \in 1..Limit + 1 /\ r \in Nat
  BY LineBounds
<1> HIDE DEF e
<1>2. SUFFICES ASSUME ~ (r < s), r <= e
               PROVE  FALSE
  BY <1>1 DEF e
<1>3. r - 1 \in s..e - 1 /\ r # 1
  BY <1>1, <1>2
<1>4. file[r - 1] = "newline"
  BY <1>1, <1>3 DEF Starts
<1> QED
  BY <1>1, <1>3, <1>4

LEMMA FirstLine ==
  ASSUME file \in Seq(Chars)
  PROVE  1 \in Starts /\ Number(1) = 1 /\ Before(1) = {}
<1>1. \A r \in Starts : r \in Nat /\ ~(r < 1)
  BY LineBounds
<1>2. 1 \in Starts
  BY DEF Starts
<1>3. {r \in Starts : r <= 1} = {1}
  BY <1>1, <1>2, LineBounds
<1>4. Number(1) = 1
  BY <1>3, FS_Singleton DEF Number
<1>5. Before(1) = {}
  BY <1>1 DEF Before
<1> QED
  BY <1>2, <1>4, <1>5

LEMMA NextLine ==
  ASSUME file \in Seq(Chars), NEW s \in Starts, LineEnd(s) <= Limit
  PROVE  /\ Number(LineEnd(s) + 1) = Number(s) + 1
         /\ Before(LineEnd(s) + 1) = Before(s) \cup Placed(s)
<1> DEFINE e == LineEnd(s)
<1>1. /\ Limit \in Nat /\ s \in Nat /\ e \in Nat /\ s <= e
      /\ e + 1 \in Starts /\ e <= Limit
  BY LineBounds
<1>2. \A r \in Starts : r \in Nat /\ (r = s \/ r < s \/ r > e)
  BY LineBounds, OtherStarts
<1> HIDE DEF e
<1>3. \A r \in Starts : r < e + 1 <=> r < s \/ r = s
  BY <1>1, <1>2
<1>4. {r \in Starts : r < e + 1} = {r \in Starts : r < s} \cup {s}
  BY <1>3
<1>5. Before(e + 1) = Before(s) \cup Placed(s)
  BY <1>4 DEF Before
<1> DEFINE N == {r \in Starts : r <= s}
<1>6. {r \in Starts : r <= e + 1} = N \cup {e + 1}
  <2>1. \A r \in Starts : r <= e + 1 <=> (r <= s \/ r = e + 1)
    BY <1>1, <1>2
  <2> QED
    BY <1>1, <2>1
<1>7. e + 1 \notin N
  BY <1>1
<1>8. IsFiniteSet(N)
  <2>1. IsFiniteSet(1..Limit + 1)
    BY <1>1, FS_Interval
  <2>2. N \in SUBSET (1..Limit + 1)
    BY LineBounds
  <2> HIDE DEF N
  <2> QED
    BY <2>1, <2>2, FS_Subset
<1>9. Number(s) = Cardinality(N)
  BY DEF Number
<1>10. Number(e + 1) = Cardinality(N \cup {e + 1})
  BY <1>6 DEF Number
<1> HIDE DEF N
<1>11. Number(e + 1) = Number(s) + 1
  BY <1>7, <1>8, <1>9, <1>10, FS_AddElement
<1> QED
  BY <1>5, <1>11 DEF e

(***************************************************************************)
(* How a well-formed line is laid out in the file: its tokens, the first   *)
(* and the last byte of each, with what encloses it, and where the rest    *)
(* begins that holds none.                                                 *)
(***************************************************************************)
Holds(t, C) == \A k \in t.from..t.to : file[k] \in C

IsKey(t, a, b) ==
  /\ t.kind = "KEY" /\ a = t.from /\ b = t.to
  /\ Holds(t, KeyChars) /\ file[t.to + 1] \notin KeyChars
IsBare(t, a, b) ==
  /\ t.kind = "VALUE" /\ a = t.from /\ b = t.to /\ file[a] # "#"
  /\ Holds(t, Bare) /\ file[t.to + 1] \notin Bare
IsQuoted(t, a, b) ==
  /\ t.kind = "VALUE" /\ a = t.from - 1 /\ b = t.to + 1
  /\ file[a] = "quote" /\ file[t.from] # "#" /\ file[t.from] # "newline"
  /\ Holds(t, Unquoted) /\ file[b] = "quote"
IsStart(t, a, b) ==
  /\ t.kind = "SECTION_START" /\ a = t.from - 1 /\ b = t.to + 1
  /\ file[a] = "<" /\ Holds(t, KeyChars) /\ file[b] = ">"
IsNamed(t, a, b) ==
  /\ t.kind = "SECTION_START" /\ a = t.from - 1 /\ b = t.to
  /\ file[a] = "<" /\ Holds(t, KeyChars) /\ file[b + 1] \in Blank
IsName(t, a, b) ==
  /\ t.kind = "SECTION_NAME" /\ a = t.from /\ b = t.to + 1
  /\ Holds(t, KeyChars) /\ file[b] = ">"
IsEnd(t, a, b) ==
  /\ t.kind = "SECTION_END" /\ a = t.from - 2 /\ b = t.to + 1
  /\ file[a] = "<" /\ file[a + 1] = "/" /\ Holds(t, KeyChars) /\ file[b] = ">"

Shape(t, a, b) ==
  \/ IsKey(t, a, b) \/ IsBare(t, a, b) \/ IsQuoted(t, a, b) \/ IsStart(t, a, b)
  \/ IsNamed(t, a, b) \/ IsName(t, a, b) \/ IsEnd(t, a, b)

LEMMA ClassOfValue ==
  ASSUME NEW x \in Chars \ {"newline"}
  PROVE  /\ x \in Chars \ (Blank \cup {"quote"}) => x \in Bare
         /\ x \in Blank \cup {"quote"} => x \notin Bare
  BY Zenon DEF Bare, Blank

(* A part of the line is the same part of the file. *)
SameBytes(text, len, s) == \A k \in 1..len : text[k] = file[s + k - 1]

LEMMA Moved ==
  ASSUME NEW s \in Nat, NEW len \in Nat, NEW text, SameBytes(text, len, s)
  PROVE  \A x, y \in Nat : 1 <= x /\ y <= len =>
           \A C : (\A k \in x..y : text[k] \in C)
                  => \A k \in s + x - 1..s + y - 1 : file[k] \in C
<1> SUFFICES ASSUME NEW x \in Nat, NEW y \in Nat, NEW C, 1 <= x, y <= len,
                    \A k \in x..y : text[k] \in C, NEW k \in s + x - 1..s + y - 1
             PROVE  file[k] \in C
  OBVIOUS
<1>1. PICK j : j = k - s + 1
  OBVIOUS
<1>2. j \in x..y /\ j \in 1..len /\ s + j - 1 = k
  BY <1>1
<1> QED
  BY <1>2 DEF SameBytes

LineIs(text, len) == text \in Seq(Chars \ {"newline"}) /\ Len(text) = len

LEMMA BytesAt ==
  ASSUME NEW len \in Nat, NEW text, LineIs(text, len), NEW k \in 1..len
  PROVE  text[k] \in Chars \ {"newline"}
  BY DEF LineIs

SameToken(t, p, q, u, f, l) ==
  /\ t.from = p /\ t.to = q
  /\ u.kind = t.kind /\ u.from = f /\ u.to = l

LEMMA TokenShape ==
  ASSUME NEW s \in Nat, s >= 1, NEW len \in Nat, NEW text, LineIs(text, len),
         SameBytes(text, len, s),
         NEW p \in Nat, NEW q \in Nat, NEW x \in Nat, x <= 2, NEW y \in Nat, y <= 1,
         NEW t, Written(text, t, x, y),
         q = len => file[s + len] = "newline",
         NEW f \in Nat, f = s + p - 1, NEW l \in Nat, l = s + q - 1,
         NEW u, SameToken(t, p, q, u, f, l),
         NEW a \in Nat, a = s + (p - x) - 1, NEW b \in Nat, b = s + (q + y) - 1,
         1 <= p - x, p <= q, q + y <= len
  PROVE  /\ Shape(u, a, b)
         /\ y = 1 => ~IsNamed(u, a, b)
         /\ y = 0 => ~IsStart(u, a, b)
<1>2. /\ s <= a /\ a <= f /\ f <= l /\ l <= b /\ b < s + len
      /\ b = l + y /\ a = f - x /\ 1 <= p /\ q <= len
      /\ y = 0 => b = l
      /\ y = 1 => b = l + 1
      /\ q + y = len => b + 1 = s + len
  OBVIOUS
<1>4. ASSUME NEW C, \A k \in p..q : text[k] \in C
      PROVE  Holds(u, C)
  <2>2. \A k \in f..l : file[k] \in C
    <3>1. 1 <= p /\ q <= len /\ f = s + p - 1 /\ l = s + q - 1
      BY <1>2
    <3> QED
      BY <1>4, <3>1, Moved
  <2> QED
    BY <2>2 DEF Holds, SameToken
<1>5. /\ file[a] = text[p - x]
      /\ file[b] = text[q + y]
      /\ x = 2 => file[a + 1] = text[p - x + 1]
      /\ file[f] = text[p] /\ text[p] \in Chars \ {"newline"}
      /\ q + y < len => /\ file[b + 1] = text[q + y + 1]
                        /\ text[q + y + 1] \in Chars \ {"newline"}
  <2>1. /\ p - x \in 1..len /\ q + y \in 1..len /\ p \in 1..len
        /\ x = 2 => p - x + 1 \in 1..len
        /\ q + y < len => q + y + 1 \in 1..len
        /\ s + (p - x + 1) - 1 = a + 1 /\ s + (q + y + 1) - 1 = b + 1
    OBVIOUS
  <2>2. \A k \in 1..len : text[k] \in Chars \ {"newline"}
    BY BytesAt
  <2>3. /\ text[p - x] = file[a] /\ text[q + y] = file[b] /\ text[p] = file[f]
        /\ x = 2 => text[p - x + 1] = file[a + 1]
        /\ q + y < len => text[q + y + 1] = file[b + 1]
    BY <2>1 DEF SameBytes
  <2> QED
    BY <2>1, <2>2, <2>3
<1>6. q + y = len => file[b + 1] = "newline" \/ y = 1
  BY <1>2
<1>7. \A k \in p..q : text[k] \in Chars \ {"newline"}
  <2> TAKE k \in p..q
  <2>1. k \in 1..len
    BY <1>2
  <2> QED
    BY <2>1, BytesAt
<1> DEFINE Only(C) == \A k \in p..q : text[k] \in C
           Follows(C) == q + y < len => text[q + y + 1] \in C
           Plain == Chars \ (Blank \cup {"quote"})
<1>8. \/ /\ t.kind = "KEY" /\ x = 0 /\ y = 0
         /\ Only(KeyChars) /\ Follows(Chars \ KeyChars)
      \/ /\ t.kind = "VALUE" /\ x = 0 /\ y = 0 /\ text[p - x] # "#"
         /\ Only(Plain) /\ Follows(Blank \cup {"quote"})
      \/ /\ t.kind = "VALUE" /\ x = 1 /\ y = 1 /\ text[p - x + 1] # "#"
         /\ text[p - x] = "quote" /\ Only(Unquoted) /\ text[q + y] = "quote"
      \/ /\ t.kind = "SECTION_START" /\ x = 1 /\ text[p - x] = "<" /\ Only(KeyChars)
         /\ IF y = 1 THEN text[q + y] = ">"
                     ELSE q + y < len /\ text[q + y + 1] \in Blank
      \/ /\ t.kind = "SECTION_NAME" /\ x = 0 /\ y = 1
         /\ Only(KeyChars) /\ text[q + y] = ">"
      \/ /\ t.kind = "SECTION_END" /\ x = 2 /\ y = 1
         /\ text[p - x] = "<" /\ text[p - x + 1] = "/"
         /\ Only(KeyChars) /\ text[q + y] = ">"
  BY Zenon DEF Written, SameToken, LineIs, Unquoted
<1>9. u.kind = t.kind /\ u.from = f /\ u.to = l
  BY DEF SameToken
<1>11. CASE t.kind = "KEY" /\ x = 0 /\ y = 0 /\ Only(KeyChars) /\ Follows(Chars \ KeyChars)
  <2>1. a = u.from /\ b = u.to
    BY <1>2, <1>9, <1>11
  <2>2. Holds(u, KeyChars)
    BY <1>4, <1>11
  <2>3. file[u.to + 1] \notin KeyChars
    <3>1. CASE q + y < len
      BY <1>5, <1>11, <2>1, <3>1
    <3>2. CASE q + y = len
      BY <1>6, <1>11, <2>1, <3>2, ClassOfMark
    <3> QED
      BY <3>1, <3>2
  <2>4. IsKey(u, a, b)
    BY <1>9, <1>11, <2>1, <2>2, <2>3 DEF IsKey
  <2> QED
    BY <1>9, <1>11, <2>4 DEF Shape, IsNamed, IsStart
<1>12. CASE /\ t.kind = "VALUE" /\ x = 0 /\ y = 0 /\ text[p - x] # "#"
            /\ Only(Plain) /\ Follows(Blank \cup {"quote"})
  <2>1. a = u.from /\ b = u.to
    BY <1>2, <1>9, <1>12
  <2>2. Holds(u, Bare)
    <3>1. \A k \in p..q : text[k] \in Bare
      BY <1>7, <1>12, ClassOfValue
    <3> QED
      BY <1>4, <3>1
  <2>3. file[u.to + 1] \notin Bare
    <3>1. CASE q + y < len
      <4>1. PICK c : c = text[q + y + 1]
        OBVIOUS
      <4>2. c \in Chars \ {"newline"} /\ c \in Blank \cup {"quote"}
        BY <1>5, <1>12, <3>1, <4>1
      <4>3. c \notin Bare
        BY <4>2, ClassOfValue
      <4> QED
        BY <1>5, <2>1, <3>1, <4>1, <4>3
    <3>2. CASE q + y = len
      BY <1>6, <1>12, <2>1, <3>2, ClassOfMark
    <3> QED
      BY <3>1, <3>2
  <2>4. IsBare(u, a, b)
    BY <1>5, <1>9, <1>12, <2>1, <2>2, <2>3 DEF IsBare
  <2> QED
    BY <1>9, <1>12, <2>4 DEF Shape, IsNamed, IsStart
<1>13. CASE /\ t.kind = "VALUE" /\ x = 1 /\ y = 1 /\ text[p - x + 1] # "#"
            /\ text[p - x] = "quote" /\ Only(Unquoted) /\ text[q + y] = "quote"
  <2>1. a = u.from - 1 /\ b = u.to + 1
    BY <1>2, <1>9, <1>13
  <2>2. Holds(u, Unquoted)
    BY <1>4, <1>13
  <2>3. p - x + 1 = p
    BY <1>13
  <2>4. file[u.from] = text[p] /\ text[p] # "#" /\ text[p] # "newline"
    BY <1>5, <1>9, <1>13, <2>3
  <2>5. IsQuoted(u, a, b)
    BY <1>5, <1>9, <1>13, <2>1, <2>2, <2>4 DEF IsQuoted
  <2> QED
    BY <1>9, <1>13, <2>5 DEF Shape, IsNamed, IsStart
<1>14. CASE /\ t.kind = "SECTION_START" /\ x = 1 /\ text[p - x] = "<" /\ Only(KeyChars)
            /\ IF y = 1 THEN text[q + y] = ">"
                        ELSE q + y < len /\ text[q + y + 1] \in Blank
  <2>1. a = u.from - 1 /\ Holds(u, KeyChars)
    BY <1>2, <1>4, <1>9, <1>14
  <2>2. CASE y = 1
    <3>1. b = u.to + 1 /\ b # u.to
      BY <1>2, <1>9, <2>2
    <3>2. IsStart(u, a, b)
      BY <1>5, <1>9, <1>14, <2>1, <2>2, <3>1 DEF IsStart
    <3> QED
      BY <2>2, <3>1, <3>2 DEF Shape, IsNamed
  <2>3. CASE y = 0
    <3>1. b = u.to /\ b # u.to + 1
      BY <1>2, <1>9, <2>3
    <3>2. IsNamed(u, a, b)
      BY <1>5, <1>9, <1>14, <2>1, <2>3, <3>1 DEF IsNamed
    <3> QED
      BY <2>3, <3>1, <3>2 DEF Shape, IsStart
  <2>4. y = 0 \/ y = 1
    OBVIOUS
  <2> QED
    BY <2>2, <2>3, <2>4
<1>15. CASE /\ t.kind = "SECTION_NAME" /\ x = 0 /\ y = 1
            /\ Only(KeyChars) /\ text[q + y] = ">"
  <2>1. a = u.from /\ b = u.to + 1 /\ Holds(u, KeyChars)
    BY <1>2, <1>4, <1>9, <1>15
  <2>2. IsName(u, a, b)
    BY <1>5, <1>9, <1>15, <2>1 DEF IsName
  <2> QED
    BY <1>9, <1>15, <2>2 DEF Shape, IsNamed, IsStart
<1>16. CASE /\ t.kind = "SECTION_END" /\ x = 2 /\ y = 1
            /\ text[p - x] = "<" /\ text[p - x + 1] = "/"
            /\ Only(KeyChars) /\ text[q + y] = ">"
  <2>1. a = u.from - 2 /\ b = u.to + 1 /\ Holds(u, KeyChars)
    BY <1>2, <1>4, <1>9, <1>16
  <2>2. IsEnd(u, a, b)
    BY <1>5, <1>9, <1>16, <2>1 DEF IsEnd
  <2> QED
    BY <1>9, <1>16, <2>2 DEF Shape, IsNamed, IsStart
<1> QED
  BY <1>8, <1>11, <1>12, <1>13, <1>14, <1>15, <1>16

TokenFits(s, len, text, t, u, p, q, x, y, f, l, a, b) ==
  /\ s \in Nat /\ s >= 1 /\ len \in Nat /\ LineIs(text, len) /\ SameBytes(text, len, s)
  /\ p \in Nat /\ q \in Nat /\ x \in Nat /\ x <= 2 /\ y \in Nat /\ y <= 1
  /\ f \in Nat /\ l \in Nat /\ a \in Nat /\ b \in Nat
  /\ Written(text, t, x, y) /\ SameToken(t, p, q, u, f, l)
  /\ f = s + p - 1 /\ l = s + q - 1 /\ a = s + (p - x) - 1 /\ b = s + (q + y) - 1
  /\ 1 <= p - x /\ p <= q /\ q + y <= len
  /\ q = len => file[s + len] = "newline"

LEMMA FittingShape ==
  ASSUME NEW s, NEW len, NEW text, NEW t, NEW u, NEW p, NEW q, NEW x, NEW y,
         NEW f, NEW l, NEW a, NEW b, TokenFits(s, len, text, t, u, p, q, x, y, f, l, a, b)
  PROVE  /\ Shape(u, a, b)
         /\ y = 1 => ~IsNamed(u, a, b)
         /\ y = 0 => ~IsStart(u, a, b)
  BY TokenShape DEF TokenFits

TokenAt(s, t, a, b) ==
  /\ t.line = Number(s) /\ Shape(t, a, b)
  /\ s <= a /\ a <= t.from /\ t.from <= t.to /\ t.to <= b /\ b < LineEnd(s)
  /\ t.to + 1 <= Limit

Gap(a, b) == a <= b /\ \A k \in a..b - 1 : file[k] \in Blank

(* A key is followed by values, and the start of a section by its name if it*)
(* is not closed.                                                           *)
InOrder(n, tok, first, last, i) ==
  /\ i = 1 => tok[i].kind \notin {"VALUE", "SECTION_NAME"}
  /\ i > 1 => tok[i].kind \in {"VALUE", "SECTION_NAME"}
  /\ i < n => \/ tok[i].kind \in {"KEY", "VALUE"} /\ tok[i + 1].kind = "VALUE"
              \/ /\ IsNamed(tok[i], first[i], last[i])
                 /\ tok[i + 1].kind = "SECTION_NAME"
  /\ i = n => ~IsNamed(tok[i], first[i], last[i])

Layout(s, n, tok, first, last) ==
  /\ s \in Starts /\ n \in Nat
  /\ tok \in [1..n -> Token]
  /\ first \in [1..n + 1 -> Nat] /\ last \in [0..n -> Nat]
  /\ Placed(s) = {tok[i] : i \in 1..n}
  /\ last[0] = s - 1
  /\ \A i \in 1..n : /\ TokenAt(s, tok[i], first[i], last[i])
                     /\ InOrder(n, tok, first, last, i)
  /\ \A i \in 0..n : Gap(last[i] + 1, first[i + 1])
  /\ first[n + 1] <= LineEnd(s)
  /\ first[n + 1] < LineEnd(s) => file[first[n + 1]] = "#"
  /\ LineEnd(s) = Limit + 1 /\ s <= Limit => n > 0 /\ tok[n].to + 1 = Limit

(***************************************************************************)
(* Every line of a well-formed file has a layout.                          *)
(***************************************************************************)
BlanksIn(text, x, y) == x <= y /\ \A k \in x..y - 1 : text[k] \in Blank
BeginsAt(ts, before, i) == ts[i].from - before[i]
EndsAt(ts, after, i) == IF i = 0 THEN 0 ELSE ts[i].to + after[i]

Made(text, ts, before, after, rest) ==
  /\ Kinds(ts, after)
  /\ \A i \in DOMAIN ts :
       /\ Written(text, ts[i], before[i], after[i])
       /\ BlanksIn(text, EndsAt(ts, after, i - 1) + 1, BeginsAt(ts, before, i))
  /\ BlanksIn(text, EndsAt(ts, after, Len(ts)) + 1, rest)
  /\ rest <= Len(text) => text[rest] = "#"

LEMMA MadeFrom ==
  ASSUME NEW text, NEW ts, MadeOf(text, ts)
  PROVE  \E before \in [DOMAIN ts -> 0..2], after \in [DOMAIN ts -> 0..1],
            rest \in 1..Len(text) + 1 : Made(text, ts, before, after, rest)
  BY Zenon DEF MadeOf, Made, BlanksIn, BeginsAt, EndsAt

WrittenToken == [kind : TokenKinds, from : Nat, to : Nat]

(* What is written of a line, as numbers *)
Numbers(text, ts, n, len, from, to, before, after) ==
  \A i \in 1..n :
    /\ ts[i].from = from[i] /\ ts[i].to = to[i] /\ ts[i].kind \in TokenKinds
    /\ 1 <= from[i] - before[i] /\ from[i] <= to[i] /\ to[i] + after[i] <= len
    /\ Written(text, ts[i], before[i], after[i])

LEMMA WrittenWithin ==
  ASSUME NEW text, NEW t, NEW x, NEW y, Written(text, t, x, y)
  PROVE  1 <= t.from - x /\ t.from <= t.to /\ t.to + y <= Len(text)
  BY Zenon DEF Written

LEMMA LineNumbers ==
  ASSUME NEW text, NEW ts \in Seq(WrittenToken), NEW n \in Nat, n = Len(ts),
         NEW len \in Nat, Len(text) = len,
         NEW before \in [1..n -> 0..2], NEW after \in [1..n -> 0..1], NEW rest,
         Made(text, ts, before, after, rest)
  PROVE  \E from, to \in [1..n -> Nat] :
           Numbers(text, ts, n, len, from, to, before, after)
<1> DEFINE from == [i \in 1..n |-> ts[i].from]
           to == [i \in 1..n |-> ts[i].to]
<1>1. \A i \in 1..n : ts[i] \in WrittenToken
  OBVIOUS
<1>2. \A i \in 1..n : ts[i].from \in Nat /\ ts[i].to \in Nat /\ ts[i].kind \in TokenKinds
  BY <1>1 DEF WrittenToken
<1>3. from \in [1..n -> Nat] /\ to \in [1..n -> Nat]
  BY <1>2
<1>4. Numbers(text, ts, n, len, from, to, before, after)
  <2> SUFFICES ASSUME NEW i \in 1..n
               PROVE  /\ ts[i].from = from[i] /\ ts[i].to = to[i]
                      /\ ts[i].kind \in TokenKinds
                      /\ 1 <= from[i] - before[i] /\ from[i] <= to[i]
                      /\ to[i] + after[i] <= len
                      /\ Written(text, ts[i], before[i], after[i])
    BY DEF Numbers
  <2>1. i \in DOMAIN ts
    OBVIOUS
  <2>2. Written(text, ts[i], before[i], after[i])
    BY <2>1 DEF Made
  <2>3. from[i] = ts[i].from /\ to[i] = ts[i].to
    OBVIOUS
  <2> QED
    BY <1>2, <2>2, <2>3, WrittenWithin
<1> HIDE DEF from, to
<1> QED
  BY <1>3, <1>4

Sizes(s, e, len, n, before, after, rest, from, to) ==
  /\ s \in Nat /\ s >= 1 /\ e \in Nat /\ s <= e /\ Limit \in Nat /\ e <= Limit + 1
  /\ len \in Nat /\ len = e - s /\ n \in Nat
  /\ before \in [1..n -> 0..2] /\ after \in [1..n -> 0..1] /\ rest \in 1..len + 1
  /\ from \in [1..n -> Nat] /\ to \in [1..n -> Nat]
  /\ \A i \in 1..n : /\ 1 <= from[i] - before[i] /\ from[i] <= to[i]
                     /\ to[i] + after[i] <= len
  /\ \A i \in 1..n - 1 : to[i] + after[i] + 1 <= from[i + 1] - before[i + 1]
  /\ e = Limit + 1 /\ s <= Limit => n > 0 /\ to[n] = len - 1

LEMMA SizesTypes ==
  ASSUME NEW s, NEW e, NEW len, NEW n, NEW before, NEW after, NEW rest, NEW from, NEW to,
         Sizes(s, e, len, n, before, after, rest, from, to), NEW i \in 1..n
  PROVE  /\ from[i] \in Nat /\ to[i] \in Nat
         /\ before[i] \in Nat /\ before[i] <= 2 /\ after[i] \in Nat /\ after[i] <= 1
<1>1. /\ before \in [1..n -> 0..2] /\ after \in [1..n -> 0..1]
      /\ from \in [1..n -> Nat] /\ to \in [1..n -> Nat]
  BY DEF Sizes
<1>2. before[i] \in 0..2 /\ after[i] \in 0..1 /\ from[i] \in Nat /\ to[i] \in Nat
  BY <1>1
<1>3. \A k \in 0..2 : k \in Nat /\ k <= 2
  OBVIOUS
<1>4. \A k \in 0..1 : k \in Nat /\ k <= 1
  OBVIOUS
<1> QED
  BY <1>2, <1>3, <1>4

SizeFacts(s, e, len, p, q, x, y) ==
  /\ 1 <= p - x /\ p <= q /\ q + y <= len
  /\ s + (p - x) - 1 \in Nat /\ s + (q + y) - 1 \in Nat
  /\ s + p - 1 \in Nat /\ s + q - 1 \in Nat
  /\ s <= s + (p - x) - 1 /\ s + (p - x) - 1 <= s + p - 1
  /\ s + p - 1 <= s + q - 1 /\ s + q - 1 <= s + (q + y) - 1
  /\ s + (q + y) - 1 < e /\ (s + q - 1) + 1 <= Limit
  /\ q = len => e <= Limit /\ s + len = e

LEMMA SizesAt ==
  ASSUME NEW s, NEW e, NEW len, NEW n, NEW before, NEW after, NEW rest, NEW from, NEW to,
         Sizes(s, e, len, n, before, after, rest, from, to), NEW i \in 1..n
  PROVE  SizeFacts(s, e, len, from[i], to[i], before[i], after[i])
<1>1. /\ s \in Nat /\ s >= 1 /\ e \in Nat /\ s <= e /\ Limit \in Nat /\ e <= Limit + 1
      /\ len \in Nat /\ len = e - s /\ n \in Nat
      /\ e = Limit + 1 /\ s <= Limit => n > 0 /\ to[n] = len - 1
  BY DEF Sizes
<1>2. /\ from[i] \in Nat /\ to[i] \in Nat
      /\ before[i] \in Nat /\ before[i] <= 2 /\ after[i] \in Nat /\ after[i] <= 1
  BY SizesTypes
<1>3. 1 <= from[i] - before[i] /\ from[i] <= to[i] /\ to[i] + after[i] <= len
  BY DEF Sizes
<1>4. e = Limit + 1 => to[i] <= len - 1
  <2> SUFFICES ASSUME e = Limit + 1
               PROVE  to[i] <= len - 1
    OBVIOUS
  <2>1. s <= Limit
    BY <1>1, <1>2, <1>3
  <2>2. CASE i = n
    BY <1>1, <2>1, <2>2
  <2>3. CASE i # n
    <3>1. i \in 1..n - 1 /\ i + 1 \in 1..n
      BY <1>1, <2>3
    <3>2. /\ from[i + 1] \in Nat /\ to[i + 1] \in Nat
          /\ before[i + 1] \in Nat /\ after[i + 1] \in Nat
          /\ from[i + 1] <= to[i + 1] /\ to[i + 1] + after[i + 1] <= len
          /\ to[i] + after[i] + 1 <= from[i + 1] - before[i + 1]
      <4>1. /\ from[i + 1] \in Nat /\ to[i + 1] \in Nat
            /\ before[i + 1] \in Nat /\ after[i + 1] \in Nat
        BY <3>1, SizesTypes
      <4>2. /\ from[i + 1] <= to[i + 1] /\ to[i + 1] + after[i + 1] <= len
            /\ to[i] + after[i] + 1 <= from[i + 1] - before[i + 1]
        BY <3>1 DEF Sizes
      <4> QED
        BY <4>1, <4>2
    <3> QED
      BY <1>1, <1>2, <3>2
  <2> QED
    BY <2>2, <2>3
<1> QED
  BY <1>1, <1>2, <1>3, <1>4 DEF SizeFacts

Placing(s, n, ts, before, after, rest, from, to, tok, first, last) ==
  /\ tok = [i \in 1..n |-> [kind |-> ts[i].kind, line |-> Number(s),
                            from |-> s + from[i] - 1, to |-> s + to[i] - 1]]
  /\ first = [i \in 1..n + 1 |-> IF i = n + 1 THEN s + rest - 1
                                ELSE s + (from[i] - before[i]) - 1]
  /\ last = [i \in 0..n |-> IF i = 0 THEN s - 1 ELSE s + (to[i] + after[i]) - 1]

LEMMA LineBegins ==
  ASSUME file \in Seq(Chars), WellFormed, NEW s \in Starts, NEW e, e = LineEnd(s),
         NEW text, text = LineText(s), NEW ts, ts = TokensOf[text]
  PROVE  /\ LineIs(text, e - s) /\ SameBytes(text, e - s, s) /\ e - s \in Nat
         /\ ts \in Seq(WrittenToken) /\ Len(ts) \in Nat /\ DOMAIN ts = 1..Len(ts)
         /\ MadeOf(text, ts) /\ Len(text) = e - s
         /\ s \in Nat /\ s >= 1 /\ e \in Nat /\ s <= e /\ Limit \in Nat /\ e <= Limit + 1
         /\ e = Limit + 1 /\ s <= Limit => ts # <<>> /\ ts[Len(ts)].to = e - s - 1
<1>1. text \in DOMAIN TokensOf
  BY DEF WellFormed
<1>2. text \in Seq(Chars \ {"newline"}) /\ ts \in Seq(WrittenToken) /\ MadeOf(text, ts)
  BY <1>1, LinesAssumption DEF WrittenToken
<1>3. /\ s \in Nat /\ s >= 1 /\ e \in Nat /\ s <= e /\ Limit \in Nat /\ e <= Limit + 1
  BY LineBounds
<1>4. e - s \in Nat
  BY <1>3
<1>5. Len(text) = e - s /\ \A k \in 1..e - s : text[k] = file[s + k - 1]
  BY LineBytes
<1>6. LineIs(text, e - s) /\ SameBytes(text, e - s, s)
  BY <1>2, <1>5 DEF LineIs, SameBytes
<1>7. e = Limit + 1 /\ s <= Limit => ts # <<>> /\ ts[Len(ts)].to = e - s - 1
  BY <1>5 DEF WellFormed, Unended
<1>8. Len(ts) \in Nat /\ DOMAIN ts = 1..Len(ts)
  BY <1>2
<1> QED
  BY <1>2, <1>3, <1>4, <1>5, <1>6, <1>7, <1>8

LEMMA NumberType ==
  ASSUME file \in Seq(Chars), NEW s \in Starts
  PROVE  Number(s) \in Nat
<1>1. Limit \in Nat /\ Starts \subseteq 1..Limit + 1
  BY LineBounds
<1>2. IsFiniteSet(1..Limit + 1)
  BY <1>1, FS_Interval
<1> DEFINE N == {r \in Starts : r <= s}
<1>3. N \in SUBSET (1..Limit + 1)
  BY <1>1
<1> HIDE DEF N
<1>4. IsFiniteSet(N)
  BY <1>2, <1>3, FS_Subset
<1>5. Cardinality(N) \in Nat
  BY <1>4, FS_CardinalityType
<1> QED
  BY <1>5 DEF Number, N

LEMMA GapMoved ==
  ASSUME NEW s \in Nat, NEW len \in Nat, NEW text, SameBytes(text, len, s),
         NEW x \in Nat, NEW y \in Nat, 1 <= x, y <= len + 1, BlanksIn(text, x, y)
  PROVE  Gap(s + x - 1, s + y - 1)
<1>1. x <= y /\ \A k \in x..y - 1 : text[k] \in Blank
  BY DEF BlanksIn
<1>2. PICK z : z = y - 1
  OBVIOUS
<1>3. z \in Nat /\ z <= len /\ s + x - 1 <= s + y - 1 /\ (s + y - 1) - 1 = s + z - 1
  BY <1>1, <1>2
<1>4. \A k \in s + x - 1..s + z - 1 : file[k] \in Blank
  BY <1>1, <1>2, <1>3, Moved
<1> QED
  BY <1>3, <1>4 DEF Gap

LEMMA LayoutExists ==
  ASSUME file \in Seq(Chars), WellFormed, NEW s \in Starts
  PROVE  \E n, tok, first, last : Layout(s, n, tok, first, last)
<1>1. PICK e, text, ts, n, len :
        e = LineEnd(s) /\ text = LineText(s) /\ ts = TokensOf[text]
        /\ n = Len(ts) /\ len = e - s
  OBVIOUS
<1>2. /\ LineIs(text, len) /\ SameBytes(text, len, s) /\ len \in Nat
      /\ ts \in Seq(WrittenToken) /\ n \in Nat /\ DOMAIN ts = 1..n
      /\ MadeOf(text, ts) /\ Len(text) = len
      /\ s \in Nat /\ s >= 1 /\ e \in Nat /\ s <= e /\ Limit \in Nat /\ e <= Limit + 1
      /\ e = Limit + 1 /\ s <= Limit => ts # <<>> /\ ts[n].to = len - 1
  BY <1>1, LineBegins
<1>3. PICK before \in [1..n -> 0..2], after \in [1..n -> 0..1], rest \in 1..len + 1 :
        Made(text, ts, before, after, rest)
  BY <1>2, MadeFrom
<1>4. PICK from \in [1..n -> Nat], to \in [1..n -> Nat] :
        Numbers(text, ts, n, len, from, to, before, after)
  <2>1. n = Len(ts) /\ Len(text) = len /\ ts \in Seq(WrittenToken) /\ n \in Nat /\ len \in Nat
    BY <1>1, <1>2
  <2>2. /\ before \in [1..n -> 0..2] /\ after \in [1..n -> 0..1]
        /\ Made(text, ts, before, after, rest)
    BY <1>3
  <2> QED
    BY ONLY <2>1, <2>2, LineNumbers
<1>5. \A i \in 1..n :
        /\ ts[i].from = from[i] /\ ts[i].to = to[i] /\ ts[i].kind \in TokenKinds
        /\ 1 <= from[i] - before[i] /\ from[i] <= to[i] /\ to[i] + after[i] <= len
        /\ Written(text, ts[i], before[i], after[i])
  BY <1>4 DEF Numbers
<1>6. \A i \in 1..n : BeginsAt(ts, before, i) = from[i] - before[i]
  BY <1>5 DEF BeginsAt
<1>7. EndsAt(ts, after, 0) = 0 /\ \A i \in 1..n : EndsAt(ts, after, i) = to[i] + after[i]
  BY <1>5 DEF EndsAt
<1>8. /\ \A i \in 1..n : BlanksIn(text, EndsAt(ts, after, i - 1) + 1, from[i] - before[i])
      /\ BlanksIn(text, EndsAt(ts, after, n) + 1, rest)
      /\ rest <= len => text[rest] = "#"
      /\ Kinds(ts, after)
  BY <1>1, <1>2, <1>3, <1>6 DEF Made
<1>9. ASSUME NEW i \in 1..n - 1
      PROVE  to[i] + after[i] + 1 <= from[i + 1] - before[i + 1]
  <2>1. i + 1 \in 1..n /\ i \in 1..n /\ (i + 1) - 1 = i
    BY <1>2
  <2>2. BlanksIn(text, EndsAt(ts, after, i) + 1, from[i + 1] - before[i + 1])
    BY <1>8, <2>1
  <2> QED
    BY <1>7, <2>1, <2>2 DEF BlanksIn
<1>10. Sizes(s, e, len, n, before, after, rest, from, to)
  <2>1. e = Limit + 1 /\ s <= Limit => n > 0 /\ to[n] = len - 1
    <3> SUFFICES ASSUME e = Limit + 1, s <= Limit
                 PROVE  n > 0 /\ to[n] = len - 1
      OBVIOUS
    <3>1. n # 0
      BY <1>1, <1>2
    <3>2. n > 0 /\ n \in 1..n
      BY <1>2, <3>1
    <3> QED
      BY <1>2, <1>5, <3>2
  <2> QED
    BY <1>1, <1>2, <1>3, <1>4, <1>5, <1>9, <2>1 DEF Sizes
<1>11. PICK tok, first, last :
         Placing(s, n, ts, before, after, rest, from, to, tok, first, last)
  BY DEF Placing
<1>12. /\ \A i \in 1..n :
            /\ tok[i].kind = ts[i].kind /\ tok[i].line = Number(s)
            /\ tok[i].from = s + from[i] - 1 /\ tok[i].to = s + to[i] - 1
            /\ first[i] = s + (from[i] - before[i]) - 1
            /\ last[i] = s + (to[i] + after[i]) - 1
       /\ first[n + 1] = s + rest - 1 /\ last[0] = s - 1
  <2>1. n + 1 \in 1..n + 1 /\ 0 \in 0..n
    BY <1>2
  <2>2. \A i \in 1..n : i \in 1..n + 1 /\ i # n + 1 /\ i \in 0..n /\ i # 0
    BY <1>2
  <2> QED
    BY <1>11, <2>1, <2>2 DEF Placing
<1>13. ASSUME NEW i \in 1..n
       PROVE  /\ tok[i] \in Token /\ first[i] \in Nat /\ last[i] \in Nat
              /\ TokenAt(s, tok[i], first[i], last[i])
              /\ after[i] = 1 => ~IsNamed(tok[i], first[i], last[i])
              /\ after[i] = 0 => ~IsStart(tok[i], first[i], last[i])
  <2>1. PICK p, q, x, y : p = from[i] /\ q = to[i] /\ x = before[i] /\ y = after[i]
    OBVIOUS
  <2>2. p \in Nat /\ q \in Nat /\ x \in Nat /\ x <= 2 /\ y \in Nat /\ y <= 1
    BY <1>10, <2>1, SizesTypes
  <2>3. SizeFacts(s, e, len, p, q, x, y)
    BY <1>10, <2>1, SizesAt
  <2>4. PICK f, l, a, b : /\ f = s + p - 1 /\ l = s + q - 1
                          /\ a = s + (p - x) - 1 /\ b = s + (q + y) - 1
    OBVIOUS
  <2>5. /\ f \in Nat /\ l \in Nat /\ a \in Nat /\ b \in Nat
        /\ s <= a /\ a <= f /\ f <= l /\ l <= b /\ b < e /\ l + 1 <= Limit
        /\ 1 <= p - x /\ p <= q /\ q + y <= len
    BY <2>3, <2>4 DEF SizeFacts
  <2>6. PICK u : u = tok[i]
    OBVIOUS
  <2>7. SameToken(ts[i], p, q, u, f, l)
    BY <1>5, <1>12, <2>1, <2>4, <2>6 DEF SameToken
  <2>8. first[i] = a /\ last[i] = b
    BY <1>12, <2>1, <2>4
  <2>9. q = len => file[s + len] = "newline"
    <3>1. q = len => e <= Limit /\ s + len = e
      BY <2>3 DEF SizeFacts
    <3> QED
      BY <1>1, <3>1, LineBounds
  <2>10. TokenFits(s, len, text, ts[i], u, p, q, x, y, f, l, a, b)
    BY <1>2, <1>5, <2>1, <2>2, <2>4, <2>5, <2>7, <2>9 DEF TokenFits
  <2>11. /\ Shape(u, a, b)
         /\ y = 1 => ~IsNamed(u, a, b)
         /\ y = 0 => ~IsStart(u, a, b)
    BY <2>10, FittingShape
  <2>12. u.line = Number(s) /\ u.kind \in TokenKinds /\ u.from = f /\ u.to = l
    BY <1>5, <1>12, <2>6, <2>7 DEF SameToken
  <2>13. TokenAt(s, u, a, b)
    BY <1>1, <2>5, <2>11, <2>12 DEF TokenAt
  <2>14. u \in Token
    BY <1>11, <2>5, <2>6, <2>12, NumberType DEF Token, Placing
  <2> QED
    BY <2>1, <2>5, <2>6, <2>8, <2>11, <2>13, <2>14
<1>14. /\ tok \in [1..n -> Token]
       /\ first \in [1..n + 1 -> Nat] /\ last \in [0..n -> Nat]
  <2>1. DOMAIN tok = 1..n /\ tok = [i \in 1..n |-> tok[i]]
    BY <1>11 DEF Placing
  <2>2. first = [i \in 1..n + 1 |-> first[i]] /\ last = [i \in 0..n |-> last[i]]
    BY <1>11 DEF Placing
  <2>3. \A i \in 1..n + 1 : first[i] \in Nat
    <3>1. first[n + 1] \in Nat
      BY <1>2, <1>12
    <3>2. \A i \in 1..n + 1 : i \in 1..n \/ i = n + 1
      BY <1>2
    <3> QED
      BY <1>13, <3>1, <3>2
  <2>4. \A i \in 0..n : last[i] \in Nat
    <3>1. last[0] \in Nat
      BY <1>2, <1>12
    <3>2. \A i \in 0..n : i \in 1..n \/ i = 0
      BY <1>2
    <3> QED
      BY <1>13, <3>1, <3>2
  <2> QED
    BY <1>13, <2>1, <2>2, <2>3, <2>4
<1>15. Placed(s) = {tok[i] : i \in 1..n}
  <2> DEFINE rec(t) == [kind |-> t.kind, line |-> Number(s),
                        from |-> s + t.from - 1, to |-> s + t.to - 1]
  <2>1. Placed(s) = {rec(t) : t \in {ts[i] : i \in 1..n}}
    BY <1>1, <1>2 DEF Placed, ToSet
  <2>2. \A i \in 1..n : tok[i] = rec(ts[i])
    BY <1>5, <1>11 DEF Placing
  <2> HIDE DEF rec
  <2>3. {rec(t) : t \in {ts[i] : i \in 1..n}} = {rec(ts[i]) : i \in 1..n}
    OBVIOUS
  <2> QED
    BY <2>1, <2>2, <2>3
<1>16. ASSUME NEW i \in 0..n
       PROVE  Gap(last[i] + 1, first[i + 1])
  <2>1. PICK x, y : x = EndsAt(ts, after, i) + 1
                    /\ y = IF i = n THEN rest ELSE from[i + 1] - before[i + 1]
    OBVIOUS
  <2>2. BlanksIn(text, x, y)
    <3>1. i # n => i + 1 \in 1..n /\ (i + 1) - 1 = i
      BY <1>2
    <3> QED
      BY <1>8, <2>1, <3>1
  <2>3. x \in Nat /\ 1 <= x /\ last[i] + 1 = s + x - 1
    <3>1. CASE i = 0
      <4>1. x = 0 + 1 /\ last[i] = s - 1
        BY <1>7, <1>12, <2>1, <3>1
      <4>2. s \in Nat
        BY <1>2
      <4> QED
        BY <4>1, <4>2
    <3>2. CASE i # 0
      <4>1. i \in 1..n
        BY <1>2, <3>2
      <4>2. PICK q, v : q = to[i] /\ v = after[i]
        OBVIOUS
      <4>3. q \in Nat /\ v \in Nat /\ s \in Nat
        BY <1>2, <1>10, <4>1, <4>2, SizesTypes
      <4>4. x = q + v + 1 /\ last[i] = s + (q + v) - 1
        BY <1>7, <1>12, <2>1, <4>1, <4>2
      <4> QED
        BY <4>3, <4>4
    <3> QED
      BY <3>1, <3>2
  <2>4. y \in Nat /\ y <= len + 1 /\ first[i + 1] = s + y - 1
    <3>1. CASE i = n
      <4>1. y = rest /\ rest \in Nat /\ rest <= len + 1
        BY <1>2, <2>1, <3>1
      <4> QED
        BY <1>12, <3>1, <4>1
    <3>2. CASE i # n
      <4>1. i + 1 \in 1..n
        BY <1>2, <3>2
      <4>2. PICK p, q, u, v : /\ p = from[i + 1] /\ q = to[i + 1]
                              /\ u = before[i + 1] /\ v = after[i + 1]
        OBVIOUS
      <4>3. p \in Nat /\ q \in Nat /\ u \in Nat /\ v \in Nat
        BY <1>10, <4>1, <4>2, SizesTypes
      <4>4. SizeFacts(s, e, len, p, q, u, v)
        BY <1>10, <4>1, <4>2, SizesAt
      <4>5. y = p - u /\ first[i + 1] = s + (p - u) - 1
        BY <1>12, <2>1, <3>2, <4>1, <4>2
      <4> QED
        BY <1>2, <4>3, <4>4, <4>5 DEF SizeFacts
    <3> QED
      BY <3>1, <3>2
  <2> QED
    BY <1>2, <2>2, <2>3, <2>4, GapMoved
<1>17. /\ first[n + 1] <= LineEnd(s)
       /\ first[n + 1] < LineEnd(s) => file[first[n + 1]] = "#"
  <2>1. rest \in Nat /\ 1 <= rest /\ rest <= len + 1
    BY <1>2
  <2>2. first[n + 1] = s + rest - 1 /\ e = s + len
    BY <1>1, <1>2, <1>12
  <2>3. first[n + 1] <= e /\ (first[n + 1] < e => rest <= len /\ rest \in 1..len)
    BY <1>2, <2>1, <2>2
  <2>4. rest \in 1..len => text[rest] = file[s + rest - 1]
    BY <1>2 DEF SameBytes
  <2> QED
    BY <1>1, <1>8, <2>2, <2>3, <2>4
<1>18. LineEnd(s) = Limit + 1 /\ s <= Limit => n > 0 /\ tok[n].to + 1 = Limit
  <2> SUFFICES ASSUME LineEnd(s) = Limit + 1, s <= Limit
               PROVE  n > 0 /\ tok[n].to + 1 = Limit
    OBVIOUS
  <2>1. n > 0 /\ to[n] = len - 1
    BY <1>1, <1>10 DEF Sizes
  <2>2. n \in 1..n
    BY <1>2, <2>1
  <2>3. tok[n].to = s + to[n] - 1
    BY <1>12, <2>2
  <2> QED
    BY <1>1, <1>2, <2>1, <2>3
<1>19. ASSUME NEW i \in 1..n
       PROVE  InOrder(n, tok, first, last, i)
  <2>1. tok[i].kind = ts[i].kind
    BY <1>12
  <2>2. i < n => i + 1 \in 1..n
    BY <1>2
  <2>3. i < n => tok[i + 1].kind = ts[i + 1].kind
    BY <1>12, <2>2
  <2>4. IsNamed(tok[i], first[i], last[i]) => tok[i].kind = "SECTION_START"
    BY DEF IsNamed
  <2>5. ts # <<>> /\ i \in Nat /\ 1 <= i /\ i <= n /\ 1 \in 1..n
    BY <1>1, <1>2
  <2>6. CASE ts[1].kind = "KEY" /\ \A k \in 2..Len(ts) : ts[k].kind = "VALUE"
    <3>1. i > 1 => ts[i].kind = "VALUE"
      BY <1>1, <1>2, <2>6
    <3>2. i < n => ts[i + 1].kind = "VALUE"
      <4>1. i < n => i + 1 \in 2..Len(ts)
        BY <1>1, <1>2
      <4> QED
        BY <2>6, <4>1
    <3>3. i = 1 => ts[i].kind = "KEY"
      BY <2>6
    <3>4. i = 1 \/ i > 1
      BY <2>5
    <3> QED
      BY <2>1, <2>3, <2>4, <3>1, <3>2, <3>3, <3>4 DEF InOrder
  <2>7. CASE Len(ts) = 1 /\ ts[1].kind = "SECTION_START" /\ after[1] = 1
    <3>1. i = 1 /\ n = 1
      BY <1>1, <2>7
    <3>2. ~IsNamed(tok[1], first[1], last[1])
      BY <1>13, <2>5, <2>7
    <3> QED
      BY <2>1, <2>7, <3>1, <3>2 DEF InOrder
  <2>8. CASE /\ Len(ts) = 2 /\ ts[1].kind = "SECTION_START" /\ after[1] = 0
             /\ ts[2].kind = "SECTION_NAME"
    <3>1. n = 2 /\ (i = 1 \/ i = 2)
      BY <1>1, <2>8
    <3>2. CASE i = 1
      <4>1. IsNamed(tok[1], first[1], last[1])
        <5>1. TokenAt(s, tok[1], first[1], last[1]) /\ ~IsStart(tok[1], first[1], last[1])
          BY <1>13, <2>5, <2>8
        <5>2. tok[1].kind = "SECTION_START"
          BY <2>1, <2>8, <3>2
        <5> QED
          BY <5>1, <5>2
          DEF TokenAt, Shape, IsKey, IsBare, IsQuoted, IsName, IsEnd
      <4> QED
        BY <2>1, <2>3, <2>8, <3>1, <3>2, <4>1 DEF InOrder
    <3>3. CASE i = 2
      BY <2>1, <2>4, <2>8, <3>1, <3>3 DEF InOrder
    <3> QED
      BY <3>1, <3>2, <3>3
  <2>9. CASE Len(ts) = 1 /\ ts[1].kind = "SECTION_END"
    <3>1. i = 1 /\ n = 1
      BY <1>1, <2>9
    <3> QED
      BY <2>1, <2>4, <2>9, <3>1 DEF InOrder
  <2> QED
    BY <1>8, <2>5, <2>6, <2>7, <2>8, <2>9 DEF Kinds
<1>20. last[0] = s - 1
  BY <1>12
<1> QED
  BY <1>2, <1>13, <1>14, <1>15, <1>16, <1>17, <1>18, <1>19, <1>20 DEF Layout

(***************************************************************************)
(* Where the lexer is in a well-formed file.                               *)
(***************************************************************************)
AllPlaced == UNION {Placed(s) : s \in Starts}

Block == IF status = "ready" THEN condition ELSE label

Open == {"INITIAL", "VALUE"}

(* The block of rules that reads a token, or the byte that opens it *)
Suits(kind, b) ==
  \/ kind \in {"KEY", "SECTION_START", "SECTION_END"} /\ b = "INITIAL"
  \/ kind = "VALUE" /\ b = "VALUE"
  \/ kind = "SECTION_NAME" /\ b = "SECTION_NAME"

(* Before token i + 1 of the line, or after the last one *)
Between(s, n, tok, first, last, i, c, b, cond) ==
  /\ last[i] + 1 <= c
  /\ i < n => c <= first[i + 1] /\ Suits(tok[i + 1].kind, b)
  /\ i = n => /\ c <= first[n + 1] \/ c = LineEnd(s)
              /\ b \in Open /\ cond \in Open
  /\ i = 0 => b = "INITIAL" /\ cond \in Open
  /\ i > 0 => b = cond

(* Behind the < of a section *)
Opened(n, tok, first, i, c, st, b, cond) ==
  /\ i = 0 /\ i < n /\ st = "scanning" /\ b = "SECTION" /\ cond \in Open
  /\ tok[1].kind \in {"SECTION_START", "SECTION_END"} /\ c = first[1] + 1

(* Behind the quote of a value *)
InString(n, tok, first, last, i, c, st, b, cond) ==
  /\ 0 < i /\ i < n /\ st = "scanning" /\ b = "STRING_VALUE" /\ cond = "VALUE"
  /\ IsQuoted(tok[i + 1], first[i + 1], last[i + 1]) /\ c = tok[i + 1].from

Stage(s, n, tok, first, last, i, c, st, b, cond) ==
  \/ Between(s, n, tok, first, last, i, c, b, cond)
  \/ Opened(n, tok, first, i, c, st, b, cond)
  \/ InString(n, tok, first, last, i, c, st, b, cond)

Position(s, n, tok, first, last, i) ==
  /\ Layout(s, n, tok, first, last) /\ i \in 0..n
  /\ lineNumber = Number(s)
  /\ ToSet(tokens) = Before(s) \cup {tok[j] : j \in 1..i}
  /\ LineEnd(s) = Limit + 1 => i < n
  /\ Stage(s, n, tok, first, last, i, cursor, status, Block, condition)

Ordered == \A i, j \in DOMAIN tokens : i < j => tokens[i].to < tokens[j].from
Passed == \A t \in ToSet(tokens) : t.to < cursor

ReadInv ==
  WellFormed =>
    /\ status \in {"ready", "scanning", "end"}
    /\ Ordered /\ Passed
    /\ IF eoi THEN ToSet(tokens) = AllPlaced
              ELSE \E s, n, tok, first, last, i : Position(s, n, tok, first, last, i)

LEMMA ShapeKept ==
  ASSUME file' = file, NEW t, NEW a, NEW b
  PROVE  /\ IsKey(t, a, b)' <=> IsKey(t, a, b)
         /\ IsBare(t, a, b)' <=> IsBare(t, a, b)
         /\ IsQuoted(t, a, b)' <=> IsQuoted(t, a, b)
         /\ IsStart(t, a, b)' <=> IsStart(t, a, b)
         /\ IsNamed(t, a, b)' <=> IsNamed(t, a, b)
         /\ IsName(t, a, b)' <=> IsName(t, a, b)
         /\ IsEnd(t, a, b)' <=> IsEnd(t, a, b)
         /\ Shape(t, a, b)' <=> Shape(t, a, b)
<1>1. \A C : Holds(t, C)' <=> Holds(t, C)
  BY DEF Holds
<1>2. IsKey(t, a, b)' <=> IsKey(t, a, b)
  BY <1>1 DEF IsKey
<1>3. IsBare(t, a, b)' <=> IsBare(t, a, b)
  BY <1>1 DEF IsBare
<1>4. IsQuoted(t, a, b)' <=> IsQuoted(t, a, b)
  BY <1>1 DEF IsQuoted
<1>5. IsStart(t, a, b)' <=> IsStart(t, a, b)
  BY <1>1 DEF IsStart
<1>6. IsNamed(t, a, b)' <=> IsNamed(t, a, b)
  BY <1>1 DEF IsNamed
<1>7. IsName(t, a, b)' <=> IsName(t, a, b)
  BY <1>1 DEF IsName
<1>8. IsEnd(t, a, b)' <=> IsEnd(t, a, b)
  BY <1>1 DEF IsEnd
<1>9. Shape(t, a, b)' <=> Shape(t, a, b)
  BY <1>2, <1>3, <1>4, <1>5, <1>6, <1>7, <1>8 DEF Shape
<1> QED
  BY <1>2, <1>3, <1>4, <1>5, <1>6, <1>7, <1>8, <1>9

LEMMA LayoutKept ==
  ASSUME file' = file, NEW s, NEW n, NEW tok, NEW first, NEW last,
         Layout(s, n, tok, first, last)
  PROVE  Layout(s, n, tok, first, last)'
<1>1. /\ Limit' = Limit /\ Starts' = Starts /\ LineEnd(s)' = LineEnd(s)
      /\ Number(s)' = Number(s) /\ Placed(s)' = Placed(s)
  BY FileKept
<1>2. \A i : TokenAt(s, tok[i], first[i], last[i])' <=> TokenAt(s, tok[i], first[i], last[i])
  BY <1>1, ShapeKept DEF TokenAt
<1>3. \A i : InOrder(n, tok, first, last, i)' <=> InOrder(n, tok, first, last, i)
  BY ShapeKept DEF InOrder
<1>4. \A i : Gap(last[i] + 1, first[i + 1])' <=> Gap(last[i] + 1, first[i + 1])
  BY DEF Gap
<1> QED
  BY <1>1, <1>2, <1>3, <1>4 DEF Layout

(* A step that keeps to the line, or goes to another. *)
LEMMA Arrives ==
  ASSUME file' = file, status' \in {"ready", "scanning"}, ~eoi', Ordered', Passed',
         NEW s, NEW n, NEW tok, NEW first, NEW last, NEW i,
         Layout(s, n, tok, first, last), i \in 0..n,
         lineNumber' = Number(s),
         ToSet(tokens') = Before(s) \cup {tok[j] : j \in 1..i},
         LineEnd(s) = Limit + 1 => i < n,
         NEW b, b = Block',
         Stage(s, n, tok, first, last, i, cursor', status', b, condition')
  PROVE  ReadInv'
<1>1. /\ Limit' = Limit /\ LineEnd(s)' = LineEnd(s)
      /\ Number(s)' = Number(s) /\ Before(s)' = Before(s)
  BY FileKept
<1>2. Layout(s, n, tok, first, last)'
  BY LayoutKept
<1>3. Stage(s, n, tok, first, last, i, cursor, status, Block, condition)'
  <2>1. /\ Between(s, n, tok, first, last, i, cursor, Block, condition)'
             <=> Between(s, n, tok, first, last, i, cursor', b, condition')
        /\ Opened(n, tok, first, i, cursor, status, Block, condition)'
             <=> Opened(n, tok, first, i, cursor', status', b, condition')
        /\ InString(n, tok, first, last, i, cursor, status, Block, condition)'
             <=> InString(n, tok, first, last, i, cursor', status', b, condition')
    BY <1>1, ShapeKept DEF Between, Opened, InString
  <2> QED
    BY <2>1 DEF Stage
<1>4. Position(s, n, tok, first, last, i)'
  BY <1>1, <1>2, <1>3 DEF Position, ToSet
<1> QED
  BY <1>4 DEF ReadInv

(* The types of a layout, and where its tokens are *)
LEMMA LaidOut ==
  ASSUME file \in Seq(Chars), NEW s, NEW n, NEW tok, NEW first, NEW last,
         Layout(s, n, tok, first, last), NEW i \in 1..n
  PROVE  /\ tok[i] \in Token /\ first[i] \in Nat /\ last[i] \in Nat
         /\ tok[i].from \in Nat /\ tok[i].to \in Nat /\ tok[i].line = Number(s)
         /\ tok[i].kind \in TokenKinds
         /\ Shape(tok[i], first[i], last[i]) /\ InOrder(n, tok, first, last, i)
         /\ s <= first[i] /\ first[i] <= tok[i].from /\ tok[i].from <= tok[i].to
         /\ tok[i].to <= last[i] /\ last[i] < LineEnd(s) /\ tok[i].to + 1 <= Limit
<1>1. /\ tok \in [1..n -> Token] /\ n \in Nat
      /\ first \in [1..n + 1 -> Nat] /\ last \in [0..n -> Nat]
      /\ TokenAt(s, tok[i], first[i], last[i]) /\ InOrder(n, tok, first, last, i)
  BY DEF Layout
<1>2. i \in 1..n + 1 /\ i \in 0..n
  BY <1>1
<1>3. tok[i] \in Token /\ first[i] \in Nat /\ last[i] \in Nat
  BY <1>1, <1>2
<1> QED
  BY <1>1, <1>3 DEF TokenAt, Token

LEMMA LineOf ==
  ASSUME file \in Seq(Chars), NEW s, NEW n, NEW tok, NEW first, NEW last,
         Layout(s, n, tok, first, last)
  PROVE  /\ s \in Starts /\ s \in Nat /\ s >= 1 /\ n \in Nat /\ Limit \in Nat
         /\ LineEnd(s) \in Nat /\ s <= LineEnd(s) /\ LineEnd(s) <= Limit + 1
         /\ LineEnd(s) <= Limit => file[LineEnd(s)] = "newline"
         /\ \A k \in s..LineEnd(s) - 1 : file[k] \in Chars \ {"newline"}
         /\ last[0] = s - 1
         /\ first[n + 1] \in Nat /\ first[n + 1] <= LineEnd(s)
         /\ first[n + 1] < LineEnd(s) => file[first[n + 1]] = "#"
         /\ Placed(s) = {tok[i] : i \in 1..n}
         /\ LineEnd(s) = Limit + 1 /\ s <= Limit => n > 0 /\ tok[n].to + 1 = Limit
<1>1. /\ s \in Starts /\ n \in Nat /\ first \in [1..n + 1 -> Nat]
      /\ last[0] = s - 1
      /\ first[n + 1] <= LineEnd(s)
      /\ first[n + 1] < LineEnd(s) => file[first[n + 1]] = "#"
      /\ Placed(s) = {tok[i] : i \in 1..n}
      /\ LineEnd(s) = Limit + 1 /\ s <= Limit => n > 0 /\ tok[n].to + 1 = Limit
  BY DEF Layout
<1>2. n + 1 \in 1..n + 1
  BY <1>1
<1>3. first[n + 1] \in Nat
  BY <1>1, <1>2
<1>4. /\ Limit \in Nat /\ s \in 1..Limit + 1 /\ s \in Nat
      /\ LineEnd(s) \in s..Limit + 1 /\ LineEnd(s) \in Nat
      /\ \A k \in s..LineEnd(s) - 1 : file[k] \in Chars \ {"newline"}
      /\ LineEnd(s) <= Limit => file[LineEnd(s)] = "newline"
  BY <1>1, LineBounds
<1>5. s <= LineEnd(s) /\ LineEnd(s) <= Limit + 1 /\ s >= 1
  BY <1>4
<1> QED
  BY <1>1, <1>3, <1>4, <1>5

(* No token is in what follows the last newline. *)
LEMMA NothingPlaced ==
  ASSUME file \in Seq(Chars), WellFormed, Limit + 1 \in Starts
  PROVE  Placed(Limit + 1) = {}
<1>1. PICK s : s = Limit + 1
  OBVIOUS
<1>2. PICK n, tok, first, last : Layout(s, n, tok, first, last)
  BY <1>1, LayoutExists
<1>3. /\ s \in Nat /\ n \in Nat /\ Limit \in Nat /\ LineEnd(s) <= Limit + 1
      /\ Placed(s) = {tok[i] : i \in 1..n}
  BY <1>2, LineOf
<1>4. \A i \in 1..n : FALSE
  <2> TAKE i \in 1..n
  <2>1. /\ first[i] \in Nat /\ last[i] \in Nat /\ tok[i].from \in Nat
        /\ tok[i].to \in Nat
        /\ s <= first[i] /\ first[i] <= tok[i].from /\ tok[i].from <= tok[i].to
        /\ tok[i].to + 1 <= Limit
    BY <1>2, LaidOut
  <2> QED
    BY <1>1, <1>3, <2>1
<1>5. Placed(s) = {}
  BY <1>3, <1>4
<1> QED
  BY <1>1, <1>5

(* The line that reaches the last byte is the last one with tokens. *)
LEMMA NoneLeft ==
  ASSUME file \in Seq(Chars), WellFormed, NEW s \in Starts, LineEnd(s) >= Limit
  PROVE  AllPlaced = Before(s) \cup Placed(s)
<1>1. ASSUME NEW r \in Starts, r # s, ~(r < s)
      PROVE  Placed(r) = {}
  <2>1. /\ r > LineEnd(s) /\ r <= Limit + 1 /\ LineEnd(s) <= Limit
        /\ r \in Nat /\ LineEnd(s) \in Nat /\ Limit \in Nat
    BY <1>1, OtherStarts, LineBounds
  <2>2. r = Limit + 1
    BY <2>1
  <2> QED
    BY <2>2, NothingPlaced
<1>2. AllPlaced \subseteq Before(s) \cup Placed(s)
  BY <1>1 DEF AllPlaced, Before
<1>3. Before(s) \cup Placed(s) \subseteq AllPlaced
  BY DEF AllPlaced, Before
<1> QED
  BY <1>2, <1>3

(***************************************************************************)
(* What the lexer does when a rule has the only match.                     *)
(***************************************************************************)
Acts(m) ==
  \/ SkipBlanksAndComments(m) \/ EnterSection(m) \/ EnterString(m)
  \/ Newline(m) \/ Key(m) \/ SectionStart(m) \/ SectionName(m)
  \/ EndSection(m) \/ Value(m) \/ UnknownCharacter(m)

RuleNames ==
  {"skip", "section", "string", "newline", "KEY", "SECTION_START", "SECTION_NAME",
   "SECTION_END", "VALUE", NamedRule, QuotedRule}

Effects(m, name) ==
  /\ name = "skip" => Skip(label) /\ lineNumber' = lineNumber
  /\ name = "section" => Skip("SECTION") /\ lineNumber' = lineNumber
  /\ name = "string" => Skip("STRING_VALUE") /\ lineNumber' = lineNumber
  /\ name = "newline" => Skip("INITIAL") /\ lineNumber' = lineNumber + 1
  /\ name = "KEY" => Return(m, "KEY", 0, 0, "VALUE")
  /\ name = "SECTION_START" => Return(m, "SECTION_START", 0, 1, condition)
  /\ name = NamedRule => Return(m, "SECTION_START", 0, 0, "SECTION_NAME")
  /\ name = "SECTION_NAME" => Return(m, "SECTION_NAME", 0, 1, "INITIAL")
  /\ name = "SECTION_END" => Return(m, "SECTION_END", 1, 1, condition)
  /\ name = "VALUE" => Return(m, "VALUE", 0, 0, condition)
  /\ name = QuotedRule => Return(m, "VALUE", 0, 1, condition)

LEMMA NamedDiffers ==
  NamedRule \notin {"skip", "section", "string", "newline", "KEY", "SECTION_START",
                    "SECTION_NAME", "SECTION_END", "VALUE", "unknown"}
  BY Zenon DEF NamedRule

LEMMA QuotedDiffers ==
  /\ QuotedRule \notin {"skip", "section", "string", "newline", "KEY", "SECTION_START",
                        "SECTION_NAME", "SECTION_END", "VALUE", "unknown"}
  /\ QuotedRule # NamedRule
  BY Zenon DEF NamedRule, QuotedRule

LEMMA ActsOf ==
  ASSUME NEW m, NEW name \in RuleNames, m.name = name, Acts(m)
  PROVE  Take(m, name) /\ Effects(m, name)
<1> DEFINE Taken(r) == Take(m, r)
           Others == {"skip", "section", "string", "newline", "KEY", "SECTION_START",
                      "SECTION_NAME", "SECTION_END", "VALUE"}
<1>1. \A r : Taken(r) => r = name
  BY DEF Take
<1>2. NamedRule \notin Others /\ QuotedRule \notin Others /\ QuotedRule # NamedRule
      /\ NamedRule # "unknown" /\ QuotedRule # "unknown"
  BY NamedDiffers, QuotedDiffers
<1>3. CASE SkipBlanksAndComments(m)
  <2>1. Taken("skip") /\ Skip(label) /\ lineNumber' = lineNumber
    BY <1>3 DEF SkipBlanksAndComments
  <2> QED
    BY <1>1, <1>2, <2>1 DEF Effects
<1>4. CASE EnterSection(m)
  <2>1. Taken("section") /\ Skip("SECTION") /\ lineNumber' = lineNumber
    BY <1>4 DEF EnterSection
  <2> QED
    BY <1>1, <1>2, <2>1 DEF Effects
<1>5. CASE EnterString(m)
  <2>1. Taken("string") /\ Skip("STRING_VALUE") /\ lineNumber' = lineNumber
    BY <1>5 DEF EnterString
  <2> QED
    BY <1>1, <1>2, <2>1 DEF Effects
<1>6. CASE Newline(m)
  <2>1. Taken("newline") /\ Skip("INITIAL") /\ lineNumber' = lineNumber + 1
    BY <1>6 DEF Newline
  <2> QED
    BY <1>1, <1>2, <2>1 DEF Effects
<1>7. CASE Key(m)
  <2>1. Taken("KEY") /\ Return(m, "KEY", 0, 0, "VALUE")
    BY <1>7 DEF Key
  <2> QED
    BY <1>1, <1>2, <2>1 DEF Effects
<1>8. CASE SectionStart(m)
  <2>1. \/ Taken("SECTION_START") /\ Return(m, "SECTION_START", 0, 1, condition)
        \/ Taken(NamedRule) /\ Return(m, "SECTION_START", 0, 0, "SECTION_NAME")
    BY <1>8, Zenon DEF SectionStart, NamedRule
  <2>2. CASE Taken("SECTION_START") /\ Return(m, "SECTION_START", 0, 1, condition)
    BY <1>1, <1>2, <2>2 DEF Effects
  <2>3. CASE Taken(NamedRule) /\ Return(m, "SECTION_START", 0, 0, "SECTION_NAME")
    BY <1>1, <1>2, <2>3 DEF Effects
  <2> QED
    BY <2>1, <2>2, <2>3
<1>9. CASE SectionName(m)
  <2>1. Taken("SECTION_NAME") /\ Return(m, "SECTION_NAME", 0, 1, "INITIAL")
    BY <1>9 DEF SectionName
  <2> QED
    BY <1>1, <1>2, <2>1 DEF Effects
<1>10. CASE EndSection(m)
  <2>1. Taken("SECTION_END") /\ Return(m, "SECTION_END", 1, 1, condition)
    BY <1>10 DEF EndSection
  <2> QED
    BY <1>1, <1>2, <2>1 DEF Effects
<1>11. CASE Value(m)
  <2>1. \/ Taken("VALUE") /\ Return(m, "VALUE", 0, 0, condition)
        \/ Taken(QuotedRule) /\ Return(m, "VALUE", 0, 1, condition)
    BY <1>11, Zenon DEF Value, QuotedRule
  <2>2. CASE Taken("VALUE") /\ Return(m, "VALUE", 0, 0, condition)
    BY <1>1, <1>2, <2>2 DEF Effects
  <2>3. CASE Taken(QuotedRule) /\ Return(m, "VALUE", 0, 1, condition)
    BY <1>1, <1>2, <2>3 DEF Effects
  <2> QED
    BY <2>1, <2>2, <2>3
<1>12. CASE UnknownCharacter(m)
  <2>1. name = "unknown"
    BY <1>1, <1>12 DEF UnknownCharacter
  <2> QED
    BY <1>2, <2>1 DEF RuleNames
<1> QED
  BY <1>3, <1>4, <1>5, <1>6, <1>7, <1>8, <1>9, <1>10, <1>11, <1>12 DEF Acts

(* A step of the scanner is the step of the rule that has the only match. *)
LEMMA Reading ==
  ASSUME LexInv, status = "scanning", Next, NEW name \in RuleNames, NEW e, NEW q,
         Reads(name, e, q), q <= Limit
  PROVE  \E m : /\ m.end = e /\ Effects(m, name)
                /\ file' = file /\ cursor' = e /\ (eoi' <=> q = Limit)
                /\ eoi' \in BOOLEAN
<1>1. /\ Matches = {Rule(name, e)} /\ q \in Looked(cursor)
      /\ \A x \in Looked(cursor) : x \in Int /\ x <= q
      /\ Limit \in Nat /\ ~eoi
  BY Counters DEF Reads, LexInv
<1>2. ~Overrun
  BY <1>1 DEF Overrun
<1>3. \E m \in Matches : Acts(m)
  BY <1>1, <1>2 DEF Next, Scan, Fails, Ended, Acts
<1>4. PICK m : m.name = name /\ m.end = e /\ Acts(m)
  BY <1>1, <1>3, RuleFields
<1>5. Take(m, name) /\ Effects(m, name)
  BY <1>4, ActsOf
<1>6. /\ file' = file /\ cursor' = e /\ eoi' = (eoi \/ Limit \in Looked(cursor))
  BY <1>4, <1>5 DEF Take, Fill
<1>7. Limit \in Looked(cursor) <=> q = Limit
  BY <1>1
<1> QED
  BY <1>1, <1>4, <1>5, <1>6, <1>7

(***************************************************************************)
(* The ways a step leaves a position.                                      *)
(***************************************************************************)
Here(s, n, tok, first, last, i) ==
  /\ LexInv /\ WellFormed /\ Ordered /\ Passed
  /\ status = "scanning" /\ Position(s, n, tok, first, last, i)

LEMMA HereFacts ==
  ASSUME NEW s, NEW n, NEW tok, NEW first, NEW last, NEW i,
         Here(s, n, tok, first, last, i)
  PROVE  /\ AtRules /\ file \in Seq(Chars) /\ ~eoi /\ WellFormed
         /\ Limit \in Nat /\ cursor \in Nat /\ cursor \in 1..Limit
         /\ Layout(s, n, tok, first, last) /\ i \in 0..n /\ i \in Nat /\ n \in Nat
         /\ s \in Starts /\ lineNumber = Number(s)
         /\ ToSet(tokens) = Before(s) \cup {tok[j] : j \in 1..i}
         /\ LineEnd(s) = Limit + 1 => i < n
         /\ Stage(s, n, tok, first, last, i, cursor, "scanning", label, condition)
<1>1. LexInv /\ status = "scanning" /\ Position(s, n, tok, first, last, i)
  BY DEF Here
<1>2. /\ Layout(s, n, tok, first, last) /\ i \in 0..n
      /\ lineNumber = Number(s)
      /\ ToSet(tokens) = Before(s) \cup {tok[j] : j \in 1..i}
      /\ LineEnd(s) = Limit + 1 => i < n
      /\ Stage(s, n, tok, first, last, i, cursor, "scanning", label, condition)
  BY <1>1 DEF Position, Block
<1>3. s \in Starts /\ n \in Nat
  BY <1>2 DEF Layout
<1>4. ~eoi
  BY <1>1 DEF LexInv
<1>5. file \in Seq(Chars) /\ Limit \in Nat /\ cursor \in Nat /\ cursor \in 1..Limit
  BY <1>1, <1>4, Counters
<1> QED
  BY <1>2, <1>3, <1>4, <1>5 DEF AtRules, Here

LEMMA TokenTypes ==
  ASSUME tokens \in Seq(Token)
  PROVE  \A t \in ToSet(tokens) : t \in Token /\ t.to \in Nat
<1>1. \A i \in DOMAIN tokens : tokens[i] \in Token
  OBVIOUS
<1>2. \A t \in Token : t.to \in Nat
  BY DEF Token
<1> QED
  BY <1>1, <1>2 DEF ToSet

LEMMA AllKept ==
  ASSUME file' = file
  PROVE  AllPlaced' = AllPlaced
  BY FileKept DEF AllPlaced

MovesTo(s, n, tok, first, last, i, name, e, q, cond) ==
  /\ e \in Nat /\ q \in Nat /\ Reads(name, e, q) /\ q < Limit /\ cursor < e
  /\ \/ name = "skip" /\ cond = label
     \/ name = "section" /\ cond = "SECTION"
     \/ name = "string" /\ cond = "STRING_VALUE"
  /\ Stage(s, n, tok, first, last, i, e, "scanning", cond, condition)

(* Nothing is returned, and the scan goes on. *)
LEMMA GoesOn ==
  ASSUME NEW s, NEW n, NEW tok, NEW first, NEW last, NEW i,
         Here(s, n, tok, first, last, i), Next,
         NEW name, NEW e, NEW q, NEW cond,
         MovesTo(s, n, tok, first, last, i, name, e, q, cond)
  PROVE  ReadInv'
<1>0. /\ name \in RuleNames /\ e \in Nat /\ q \in Nat
      /\ Reads(name, e, q) /\ q < Limit /\ cursor < e
      /\ \/ name = "skip" /\ cond = label
         \/ name = "section" /\ cond = "SECTION"
         \/ name = "string" /\ cond = "STRING_VALUE"
      /\ Stage(s, n, tok, first, last, i, e, "scanning", cond, condition)
  BY DEF MovesTo, RuleNames
<1>1. /\ file \in Seq(Chars) /\ Limit \in Nat /\ cursor \in Nat
      /\ Layout(s, n, tok, first, last) /\ i \in 0..n /\ lineNumber = Number(s)
      /\ ToSet(tokens) = Before(s) \cup {tok[j] : j \in 1..i}
      /\ LineEnd(s) = Limit + 1 => i < n
  BY HereFacts
<1>2. LexInv /\ status = "scanning" /\ Ordered /\ Passed
  BY DEF Here
<1>3. q <= Limit /\ q # Limit
  BY <1>0, <1>1
<1>4. PICK m : /\ Effects(m, name)
               /\ file' = file /\ cursor' = e /\ (eoi' <=> q = Limit)
  BY <1>0, <1>2, <1>3, Reading
<1>5. Skip(cond) /\ lineNumber' = lineNumber
  BY <1>0, <1>4 DEF Effects
<1>6. /\ ~eoi' /\ status' = "scanning" /\ label' = cond /\ condition' = condition
      /\ tokens' = tokens
  BY <1>2, <1>3, <1>4, <1>5 DEF Skip
<1>7. Ordered'
  BY <1>2, <1>6 DEF Ordered
<1>8. Passed'
  <2>1. \A t \in ToSet(tokens) : t.to \in Nat
    BY <1>2, TokenTypes DEF LexInv
  <2> QED
    BY <1>0, <1>1, <1>2, <1>4, <1>6, <2>1 DEF Passed, ToSet
<1>9. Block' = cond
  BY <1>6 DEF Block
<1> QED
  BY <1>0, <1>1, <1>4, <1>5, <1>6, <1>7, <1>8, <1>9, Arrives DEF ToSet

(* Nothing is returned, and the end is noticed. *)
LEMMA GoesToEnd ==
  ASSUME NEW s, NEW n, NEW tok, NEW first, NEW last,
         Here(s, n, tok, first, last, n), Next,
         NEW name \in {"skip", "newline"}, NEW e \in Nat, NEW q \in Nat, Reads(name, e, q),
         q = Limit, cursor < e, LineEnd(s) >= Limit
  PROVE  ReadInv'
<1>1. /\ file \in Seq(Chars) /\ WellFormed /\ Limit \in Nat /\ cursor \in Nat
      /\ Layout(s, n, tok, first, last) /\ s \in Starts
      /\ ToSet(tokens) = Before(s) \cup {tok[j] : j \in 1..n}
  BY HereFacts
<1>2. LexInv /\ status = "scanning" /\ Ordered /\ Passed
  BY DEF Here
<1>3. PICK m : /\ Effects(m, name)
               /\ file' = file /\ cursor' = e /\ (eoi' <=> q = Limit)
  <2>1. name \in RuleNames /\ q <= Limit
    BY <1>1 DEF RuleNames
  <2> QED
    BY <1>2, <2>1, Reading
<1>4. \E cond : Skip(cond)
  BY <1>3 DEF Effects
<1>5. eoi' /\ status' = "end" /\ tokens' = tokens
  BY <1>3, <1>4 DEF Skip
<1>6. Ordered'
  BY <1>2, <1>5 DEF Ordered
<1>7. Passed'
  <2>1. \A t \in ToSet(tokens) : t.to \in Nat
    BY <1>2, TokenTypes DEF LexInv
  <2> QED
    BY <1>1, <1>2, <1>3, <1>5, <2>1 DEF Passed, ToSet
<1>8. Placed(s) = {tok[j] : j \in 1..n}
  BY <1>1, LineOf
<1>9. ToSet(tokens) = AllPlaced
  BY <1>1, <1>8, NoneLeft
<1>10. ToSet(tokens)' = AllPlaced'
  BY <1>3, <1>5, <1>9, AllKept DEF ToSet
<1> QED
  BY <1>5, <1>6, <1>7, <1>10 DEF ReadInv

LEMMA OneMore ==
  ASSUME NEW r \in Seq(Token), NEW t \in Token, NEW u, u = Append(r, t),
         \A x \in ToSet(r) : x.to < t.from,
         \A i, j \in DOMAIN r : i < j => r[i].to < r[j].from
  PROVE  /\ ToSet(u) = ToSet(r) \cup {t}
         /\ \A i, j \in DOMAIN u : i < j => u[i].to < u[j].from
<1>1. /\ Len(r) \in Nat /\ DOMAIN r = 1..Len(r) /\ DOMAIN u = 1..Len(r) + 1
      /\ \A i \in 1..Len(r) : u[i] = r[i]
      /\ u[Len(r) + 1] = t
  OBVIOUS
<1>2. ToSet(u) = ToSet(r) \cup {t}
  <2>1. 1..Len(r) + 1 = 1..Len(r) \cup {Len(r) + 1}
    BY <1>1
  <2> QED
    BY <1>1, <2>1 DEF ToSet
<1>3. ASSUME NEW i \in DOMAIN u, NEW j \in DOMAIN u, i < j
      PROVE  u[i].to < u[j].from
  <2>1. i \in 1..Len(r) /\ (j \in 1..Len(r) \/ j = Len(r) + 1)
    BY <1>1, <1>3
  <2>2. CASE j \in 1..Len(r)
    BY <1>1, <1>3, <2>1, <2>2
  <2>3. CASE j = Len(r) + 1
    BY <1>1, <2>1, <2>3 DEF ToSet
  <2> QED
    BY <2>1, <2>2, <2>3
<1> QED
  BY <1>2, <1>3

Returns(n, tok, last, j, name, e, q, x, y, cond) ==
  /\ name \in RuleNames /\ e \in Nat /\ q \in Nat /\ Reads(name, e, q) /\ q <= Limit
  /\ q = tok[j].to + 1 \/ (j < n /\ q < Limit)
  /\ x \in Nat /\ y \in Nat
  /\ cursor + x = tok[j].from /\ e - 1 - y = tok[j].to /\ e = last[j] + 1
  /\ j < n => Suits(tok[j + 1].kind, cond)
  /\ j = n => cond \in Open

(* A token is returned, the next one of the line. *)
LEMMA TokenRead ==
  ASSUME NEW s, NEW n, NEW tok, NEW first, NEW last, NEW i,
         Here(s, n, tok, first, last, i), Next, NEW j, j = i + 1, i < n,
         NEW name, NEW e, NEW q, NEW x, NEW y, NEW cond,
         Returns(n, tok, last, j, name, e, q, x, y, cond),
         \A m : Effects(m, name) => Return(m, tok[j].kind, x, y, cond)
  PROVE  ReadInv'
<1>16. /\ name \in RuleNames /\ e \in Nat /\ q \in Nat /\ Reads(name, e, q)
       /\ q <= Limit /\ x \in Nat /\ y \in Nat
  BY DEF Returns
<1>17. q = tok[j].to + 1 \/ (j < n /\ q < Limit)
  BY DEF Returns
<1>18. cursor + x = tok[j].from /\ e - 1 - y = tok[j].to /\ e = last[j] + 1
  BY DEF Returns
<1>19. /\ j < n => Suits(tok[j + 1].kind, cond)
       /\ j = n => cond \in Open
  BY DEF Returns
<1>1. /\ file \in Seq(Chars) /\ WellFormed /\ Limit \in Nat /\ cursor \in Nat
      /\ Layout(s, n, tok, first, last) /\ s \in Starts /\ lineNumber = Number(s)
      /\ i \in Nat /\ n \in Nat /\ i \in 0..n
      /\ ToSet(tokens) = Before(s) \cup {tok[k] : k \in 1..i}
  BY HereFacts
<1>2. LexInv /\ status = "scanning" /\ Ordered /\ Passed
  BY DEF Here
<1>3. j \in 1..n /\ j \in 0..n /\ j \in Nat
  BY <1>1
<1>0. file \in Seq(Chars) /\ Layout(s, n, tok, first, last)
  BY <1>1
<1>4. /\ tok[j] \in Token /\ first[j] \in Nat /\ last[j] \in Nat
      /\ tok[j].from \in Nat /\ tok[j].to \in Nat /\ tok[j].line = Number(s)
      /\ s <= first[j] /\ first[j] <= tok[j].from /\ tok[j].from <= tok[j].to
      /\ tok[j].to <= last[j] /\ last[j] < LineEnd(s) /\ tok[j].to + 1 <= Limit
  BY ONLY <1>0, <1>3, LaidOut
<1>5. /\ s \in Nat /\ LineEnd(s) \in Nat /\ LineEnd(s) <= Limit + 1
      /\ first[n + 1] \in Nat /\ first[n + 1] <= LineEnd(s)
      /\ Placed(s) = {tok[k] : k \in 1..n}
      /\ LineEnd(s) = Limit + 1 /\ s <= Limit => n > 0 /\ tok[n].to + 1 = Limit
  BY ONLY <1>0, LineOf
<1>15. /\ cursor <= tok[j].from /\ tok[j].to < e /\ cursor < e
       /\ s <= Limit /\ (tok[j].to + 1 = Limit => LineEnd(s) >= Limit)
  <2>1. PICK a, f, l, b, w : /\ a = first[j] /\ f = tok[j].from /\ l = tok[j].to
                             /\ b = last[j] /\ w = LineEnd(s)
    OBVIOUS
  <2>2. /\ a \in Nat /\ f \in Nat /\ l \in Nat /\ b \in Nat /\ w \in Nat /\ s \in Nat
        /\ s <= a /\ a <= f /\ f <= l /\ l <= b /\ b < w /\ l + 1 <= Limit
        /\ cursor + x = f /\ e = b + 1 /\ x \in Nat /\ cursor \in Nat /\ Limit \in Nat
    BY <1>1, <1>4, <1>5, <1>16, <1>18, <2>1
  <2>3. /\ cursor <= f /\ l < e /\ cursor < e
        /\ s <= Limit /\ (l + 1 = Limit => w >= Limit)
    BY ONLY <2>2
  <2> QED
    BY <2>1, <2>3
<1>6. PICK m : /\ m.end = e /\ Effects(m, name)
               /\ file' = file /\ cursor' = e /\ (eoi' <=> q = Limit)
  BY <1>2, <1>16, Reading
<1>7. Return(m, tok[j].kind, x, y, cond)
  BY <1>6
<1>8. /\ tokens' = Append(tokens, tok[j]) /\ condition' = cond
      /\ status' = "ready" /\ lineNumber' = lineNumber
  <2>1. PICK t : t = tok[j]
    OBVIOUS
  <2>2. t = [kind |-> t.kind, line |-> lineNumber, from |-> cursor + x,
             to |-> e - 1 - y]
    BY <1>1, <1>4, <1>18, <2>1 DEF Token
  <2> QED
    BY <1>6, <1>7, <2>1, <2>2 DEF Return
<1>9. /\ ToSet(tokens') = ToSet(tokens) \cup {tok[j]}
      /\ Ordered'
  <2>1. tokens \in Seq(Token)
    BY <1>2 DEF LexInv
  <2>2. \A t \in ToSet(tokens) : t.to < tok[j].from
    <3>1. \A t \in ToSet(tokens) : t.to \in Nat /\ t.to < cursor
      BY <1>2, <2>1, TokenTypes DEF Passed
    <3>2. PICK f : f = tok[j].from
      OBVIOUS
    <3>3. f \in Nat /\ cursor \in Nat /\ cursor <= f
      BY <1>1, <1>4, <1>15, <3>2
    <3>4. \A t \in ToSet(tokens) : t.to < f
      BY ONLY <3>1, <3>3
    <3> QED
      BY <3>2, <3>4
  <2>3. /\ ToSet(tokens') = ToSet(tokens) \cup {tok[j]}
        /\ \A k, l \in DOMAIN tokens' : k < l => tokens'[k].to < tokens'[l].from
    <3>1. \A k, l \in DOMAIN tokens : k < l => tokens[k].to < tokens[l].from
      BY <1>2 DEF Ordered
    <3>2. PICK u : u = tokens'
      OBVIOUS
    <3>3. u = Append(tokens, tok[j])
      BY <1>8, <3>2
    <3>4. /\ ToSet(u) = ToSet(tokens) \cup {tok[j]}
          /\ \A k, l \in DOMAIN u : k < l => u[k].to < u[l].from
      BY <1>4, <2>1, <2>2, <3>1, <3>3, OneMore
    <3> QED
      BY <3>2, <3>4
  <2> QED
    BY <2>3 DEF Ordered
<1>10. Passed'
  <2>1. \A t \in ToSet(tokens) : t.to \in Nat /\ t.to < cursor
    BY <1>2, TokenTypes DEF LexInv, Passed
  <2>2. tok[j].to < e /\ cursor < e /\ cursor \in Nat /\ e \in Nat
    BY <1>1, <1>15, <1>16
  <2>3. \A t \in ToSet(tokens) : t.to < e
    BY ONLY <2>1, <2>2
  <2>5. \A t \in ToSet(tokens') : t.to < e
    BY <1>9, <2>2, <2>3
  <2>4. Passed' <=> \A t \in ToSet(tokens') : t.to < cursor'
    BY DEF Passed, ToSet
  <2> QED
    BY <1>6, <2>4, <2>5
<1>11. ToSet(tokens') = Before(s) \cup {tok[k] : k \in 1..j}
  <2>1. 1..j = 1..i \cup {j}
    BY <1>1
  <2> QED
    BY <1>1, <1>9, <2>1
<1>12. j < n => /\ first[j + 1] \in Nat /\ e <= first[j + 1]
                /\ first[j + 1] < Limit
  <2> SUFFICES ASSUME j < n
               PROVE  first[j + 1] \in Nat /\ e <= first[j + 1] /\ first[j + 1] < Limit
    OBVIOUS
  <2>1. j + 1 \in 1..n
    BY <1>1, <1>3
  <2>2. /\ first[j + 1] \in Nat /\ tok[j + 1].from \in Nat /\ tok[j + 1].to \in Nat
        /\ first[j + 1] <= tok[j + 1].from /\ tok[j + 1].from <= tok[j + 1].to
        /\ tok[j + 1].to + 1 <= Limit
    BY <1>1, <2>1, LaidOut
  <2>3. last[j] + 1 <= first[j + 1]
    BY <1>1, <1>3 DEF Layout, Gap
  <2>4. PICK a, f, l : a = first[j + 1] /\ f = tok[j + 1].from /\ l = tok[j + 1].to
    OBVIOUS
  <2>5. /\ a \in Nat /\ f \in Nat /\ l \in Nat /\ Limit \in Nat
        /\ a <= f /\ f <= l /\ l + 1 <= Limit /\ e <= a
    BY <1>1, <1>18, <2>2, <2>3, <2>4
  <2>6. a < Limit
    BY ONLY <2>5
  <2> QED
    BY <2>4, <2>5, <2>6
<1>13. CASE eoi'
  <2>1. q = Limit /\ tok[j].to + 1 = Limit
    BY <1>1, <1>6, <1>13, <1>16, <1>17
  <2>2. j = n
    <3>1. ~(j < n)
      <4> SUFFICES ASSUME j < n
                   PROVE  FALSE
        OBVIOUS
      <4>1. PICK a, l : a = first[j + 1] /\ l = tok[j].to
        OBVIOUS
      <4>2. /\ a \in Nat /\ e <= a /\ a < Limit /\ l < e /\ l + 1 = Limit
            /\ l \in Nat /\ e \in Nat /\ Limit \in Nat
        BY <1>1, <1>4, <1>12, <1>15, <1>16, <2>1, <4>1
      <4> QED
        BY ONLY <4>2
    <3> QED
      BY <1>1, <1>3, <3>1
  <2>3. LineEnd(s) >= Limit
    BY <1>15, <2>1
  <2>4. ToSet(tokens') = AllPlaced
    BY <1>1, <1>5, <1>11, <2>2, <2>3, NoneLeft
  <2>5. ToSet(tokens)' = AllPlaced'
    BY <1>6, <2>4, AllKept DEF ToSet
  <2> QED
    BY <1>8, <1>9, <1>10, <1>13, <2>5 DEF ReadInv
<1>14. CASE ~eoi'
  <2>1. LineEnd(s) = Limit + 1 => j < n
    <3> SUFFICES ASSUME LineEnd(s) = Limit + 1, j = n
                 PROVE  FALSE
      BY <1>1, <1>3
    <3>1. s <= Limit
      BY <1>15
    <3>2. tok[j].to + 1 = Limit
      BY <1>5, <3>1
    <3> QED
      BY <1>1, <1>6, <1>14, <1>16, <1>17, <3>2
  <2>2. Between(s, n, tok, first, last, j, e, cond, cond)
    <3>1. last[j] + 1 <= e /\ j # 0
      BY <1>3, <1>4, <1>18
    <3>2. j = n => e <= first[n + 1]
      <4>1. last[j] + 1 <= first[j + 1]
        BY <1>1, <1>3 DEF Layout, Gap
      <4> QED
        BY <1>18, <4>1
    <3> QED
      BY <1>12, <1>19, <3>1, <3>2 DEF Between
  <2>3. Block' = cond
    BY <1>8 DEF Block
  <2>4. Stage(s, n, tok, first, last, j, cursor', status', cond, condition')
    BY <1>6, <1>8, <2>2 DEF Stage
  <2> QED
    BY <1>1, <1>3, <1>6, <1>8, <1>9, <1>10, <1>11, <1>14, <2>1, <2>3, <2>4, Arrives
<1> QED
  BY <1>13, <1>14

(***************************************************************************)
(* From each position of a line the lexer goes to the next.                *)
(***************************************************************************)
LEMMA FirstByte ==
  ASSUME NEW t, NEW a, NEW b, t.from \in Nat, t.to \in Nat, t.from <= t.to,
         Shape(t, a, b)
  PROVE  file[a] \notin Blank
<1>1. t.from \in t.from..t.to
  OBVIOUS
<1>2. PICK x : x = file[a]
  OBVIOUS
<1>3. CASE IsKey(t, a, b) \/ IsName(t, a, b)
  <2>1. x \in KeyChars
    BY <1>1, <1>2, <1>3 DEF IsKey, IsName, Holds
  <2> QED
    BY <1>2, <2>1, ClassOfKey
<1>4. CASE IsBare(t, a, b)
  <2>1. x \in Bare
    BY <1>1, <1>2, <1>4 DEF IsBare, Holds
  <2> QED
    BY <1>2, <2>1, ClassOfBare
<1>5. CASE IsQuoted(t, a, b) \/ IsStart(t, a, b) \/ IsNamed(t, a, b) \/ IsEnd(t, a, b)
  <2>1. x \in {"quote", "<"}
    BY <1>2, <1>5 DEF IsQuoted, IsStart, IsNamed, IsEnd
  <2> QED
    BY <1>2, <2>1, ClassOfMark
<1> QED
  BY <1>3, <1>4, <1>5 DEF Shape

(* What is between token i and the one after it *)
LEMMA TokenAhead ==
  ASSUME NEW s, NEW n, NEW tok, NEW first, NEW last, NEW i, file \in Seq(Chars),
         Layout(s, n, tok, first, last), i \in 0..n, i < n, NEW j, j = i + 1
  PROVE  /\ j \in 1..n /\ first[j] \in Nat /\ last[i] \in Nat
         /\ last[i] + 1 <= first[j] /\ first[j] < Limit /\ file[first[j]] \notin Blank
         /\ \A k \in last[i] + 1..first[j] - 1 : file[k] \in Blank
<1>1. n \in Nat /\ last \in [0..n -> Nat] /\ Gap(last[i] + 1, first[j])
  BY DEF Layout
<1>2. j \in 1..n /\ last[i] \in Nat
  BY <1>1
<1>3. /\ first[j] \in Nat /\ tok[j].from \in Nat /\ tok[j].to \in Nat
      /\ first[j] <= tok[j].from /\ tok[j].from <= tok[j].to
      /\ tok[j].to + 1 <= Limit /\ Shape(tok[j], first[j], last[j])
  BY <1>2, LaidOut
<1>4. first[j] < Limit
  <2>1. PICK a, f, l : a = first[j] /\ f = tok[j].from /\ l = tok[j].to
    OBVIOUS
  <2>2. /\ a \in Nat /\ f \in Nat /\ l \in Nat /\ Limit \in Nat
        /\ a <= f /\ f <= l /\ l + 1 <= Limit
    BY <1>3, <2>1, LineOf
  <2>3. a < Limit
    BY ONLY <2>2
  <2> QED
    BY <2>1, <2>3
<1>5. file[first[j]] \notin Blank
  BY <1>3, FirstByte
<1> QED
  BY <1>1, <1>2, <1>3, <1>4, <1>5 DEF Gap

LEMMA BlanksBefore ==
  ASSUME NEW s, NEW n, NEW tok, NEW first, NEW last, NEW i,
         Here(s, n, tok, first, last, i), Next, i < n,
         Between(s, n, tok, first, last, i, cursor, label, condition),
         cursor < first[i + 1]
  PROVE  ReadInv'
<1>1. /\ AtRules /\ file \in Seq(Chars) /\ Limit \in Nat /\ cursor \in Nat
      /\ Layout(s, n, tok, first, last) /\ i \in 0..n
  BY HereFacts
<1>2. PICK j, a, b : j = i + 1 /\ a = first[j] /\ b = last[i]
  OBVIOUS
<1>3. /\ j \in 1..n /\ a \in Nat /\ b \in Nat
      /\ b + 1 <= a /\ a < Limit /\ file[a] \notin Blank
      /\ \A k \in b + 1..a - 1 : file[k] \in Blank
  BY <1>1, <1>2, TokenAhead
<1>4. /\ b + 1 <= cursor /\ cursor < a /\ Suits(tok[j].kind, label)
      /\ i = 0 => label = "INITIAL" /\ condition \in Open
      /\ i > 0 => label = condition
  BY <1>2 DEF Between
<1>5. a \in cursor + 1..Limit /\ a <= Limit /\ \A k \in cursor..a - 1 : file[k] \in Blank
  BY <1>1, <1>3, <1>4
<1>6. label \in {"INITIAL", "SECTION_NAME", "VALUE"}
  BY <1>4 DEF Suits
<1>7. status = "scanning"
  BY DEF Here
<1>8. Reads("skip", a, a)
  BY <1>1, <1>3, <1>5, <1>6, <1>7, ReadBlanks
<1>9. Between(s, n, tok, first, last, i, a, label, condition)
  BY <1>2, <1>3, <1>4 DEF Between
<1> QED
  <2>1. MovesTo(s, n, tok, first, last, i, "skip", a, a, label)
    BY <1>3, <1>4, <1>8, <1>9 DEF MovesTo, Stage
  <2> QED
    BY <2>1, GoesOn

(* The bytes of the next token, and what is appended for it *)
LEMMA TokenHere ==
  ASSUME NEW s, NEW n, NEW tok, NEW first, NEW last, NEW i, NEW j, j = i + 1,
         Here(s, n, tok, first, last, i), i < n
  PROVE  /\ AtRules /\ j \in 1..n /\ j \in Nat /\ n \in Nat
         /\ first[j] \in Nat /\ last[j] \in Nat /\ Limit \in Nat
         /\ tok[j].from \in Nat /\ tok[j].to \in Nat
         /\ Shape(tok[j], first[j], last[j]) /\ InOrder(n, tok, first, last, j)
         /\ first[j] <= tok[j].from /\ tok[j].from <= tok[j].to
         /\ tok[j].to <= last[j] /\ tok[j].to + 1 <= Limit
         /\ last[j] <= Limit
<1>1. /\ AtRules /\ file \in Seq(Chars) /\ Limit \in Nat /\ n \in Nat
      /\ Layout(s, n, tok, first, last) /\ i \in 0..n /\ i \in Nat
  BY HereFacts
<1>2. j \in 1..n /\ j \in Nat
  BY <1>1
<1>3. /\ first[j] \in Nat /\ last[j] \in Nat
      /\ tok[j].from \in Nat /\ tok[j].to \in Nat
      /\ Shape(tok[j], first[j], last[j]) /\ InOrder(n, tok, first, last, j)
      /\ first[j] <= tok[j].from /\ tok[j].from <= tok[j].to
      /\ tok[j].to <= last[j] /\ last[j] < LineEnd(s) /\ tok[j].to + 1 <= Limit
  BY <1>1, <1>2, LaidOut
<1>4. last[j] <= Limit
  <2>1. LineEnd(s) \in Nat /\ LineEnd(s) <= Limit + 1
    BY <1>1, LineOf
  <2>2. PICK b, w : b = last[j] /\ w = LineEnd(s)
    OBVIOUS
  <2>3. b \in Nat /\ w \in Nat /\ Limit \in Nat /\ b < w /\ w <= Limit + 1
    BY <1>1, <1>3, <2>1, <2>2
  <2>4. b <= Limit
    BY ONLY <2>3
  <2> QED
    BY <2>2, <2>4
<1> QED
  BY <1>1, <1>2, <1>3, <1>4

(* What the order of the tokens says of what follows token j *)
LEMMA AfterValue ==
  ASSUME NEW n, NEW tok, NEW first, NEW last, NEW j,
         InOrder(n, tok, first, last, j), tok[j].kind \in {"KEY", "VALUE"}
  PROVE  /\ j < n => Suits(tok[j + 1].kind, "VALUE")
         /\ j = n => "VALUE" \in Open
  BY DEF InOrder, IsNamed, Suits, Open

LEMMA KeyAt ==
  ASSUME NEW s, NEW n, NEW tok, NEW first, NEW last, NEW i, NEW j, j = i + 1,
         Here(s, n, tok, first, last, i), Next, i < n, cursor = first[j],
         label = "INITIAL", IsKey(tok[j], first[j], last[j])
  PROVE  ReadInv'
<1>1. /\ AtRules /\ Limit \in Nat /\ last[j] \in Nat
      /\ tok[j].from \in Nat /\ tok[j].to \in Nat
      /\ InOrder(n, tok, first, last, j)
      /\ tok[j].from <= tok[j].to /\ tok[j].to + 1 <= Limit
  BY TokenHere
<1>2. PICK f, l, q : f = tok[j].from /\ l = tok[j].to /\ q = l + 1
  OBVIOUS
<1>3. /\ tok[j].kind = "KEY" /\ cursor = f /\ last[j] = l
      /\ \A k \in f..l : file[k] \in KeyChars
      /\ file[q] \notin KeyChars
  BY <1>2 DEF IsKey, Holds
<1>4. /\ q \in Nat /\ q \in cursor + 1..Limit /\ q - 1 = l /\ q <= Limit
      /\ cursor + 0 = f /\ q - 1 - 0 = l
  BY <1>1, <1>2, <1>3
<1>5. status = "scanning"
  BY DEF Here
<1>6. Reads("KEY", q, q)
  BY <1>1, <1>3, <1>4, <1>5, ReadKey
<1>7. \A m : Effects(m, "KEY") => Return(m, tok[j].kind, 0, 0, "VALUE")
  BY <1>3 DEF Effects
<1>8. /\ j < n => Suits(tok[j + 1].kind, "VALUE")
      /\ j = n => "VALUE" \in Open
  BY <1>1, <1>3, AfterValue
<1>9. "KEY" \in RuleNames /\ q = tok[j].to + 1 /\ q = last[j] + 1
  BY <1>2, <1>3 DEF RuleNames
<1> QED
  <2>1. Returns(n, tok, last, j, "KEY", q, q, 0, 0, "VALUE")
    BY <1>2, <1>4, <1>6, <1>8, <1>9 DEF Returns
  <2> QED
    BY <1>7, <2>1, TokenRead

LEMMA BareAt ==
  ASSUME NEW s, NEW n, NEW tok, NEW first, NEW last, NEW i, NEW j, j = i + 1,
         Here(s, n, tok, first, last, i), Next, i < n, cursor = first[j],
         label = "VALUE", IsBare(tok[j], first[j], last[j])
  PROVE  ReadInv'
<1>1. /\ AtRules /\ Limit \in Nat /\ last[j] \in Nat
      /\ tok[j].from \in Nat /\ tok[j].to \in Nat
      /\ InOrder(n, tok, first, last, j)
      /\ tok[j].from <= tok[j].to /\ tok[j].to + 1 <= Limit
  BY TokenHere
<1>2. PICK f, l, q : f = tok[j].from /\ l = tok[j].to /\ q = l + 1
  OBVIOUS
<1>3. /\ tok[j].kind = "VALUE" /\ cursor = f /\ last[j] = l
      /\ \A k \in f..l : file[k] \in Bare
      /\ file[q] \notin Bare /\ file[cursor] # "#"
  BY <1>2 DEF IsBare, Holds
<1>4. /\ q \in Nat /\ q \in cursor + 1..Limit /\ q - 1 = l /\ q <= Limit
      /\ cursor + 0 = f /\ q - 1 - 0 = l
  BY <1>1, <1>2, <1>3
<1>5. status = "scanning" /\ condition = condition
  BY DEF Here
<1>6. Reads("VALUE", q, q)
  BY <1>1, <1>3, <1>4, <1>5, ReadValue
<1>7. condition = "VALUE"
  BY HereFacts DEF Stage, Between, Opened, InString, Suits, Open
<1>8. \A m : Effects(m, "VALUE") => Return(m, tok[j].kind, 0, 0, "VALUE")
  BY <1>3, <1>7 DEF Effects
<1>9. /\ j < n => Suits(tok[j + 1].kind, "VALUE")
      /\ j = n => "VALUE" \in Open
  BY <1>1, <1>3, AfterValue
<1>10. "VALUE" \in RuleNames /\ q = tok[j].to + 1 /\ q = last[j] + 1
  BY <1>2, <1>3 DEF RuleNames
<1>11. Returns(n, tok, last, j, "VALUE", q, q, 0, 0, "VALUE")
  BY <1>2, <1>4, <1>6, <1>9, <1>10 DEF Returns
<1> QED
  BY <1>8, <1>11, TokenRead

LEMMA NameAt ==
  ASSUME NEW s, NEW n, NEW tok, NEW first, NEW last, NEW i, NEW j, j = i + 1,
         Here(s, n, tok, first, last, i), Next, i < n, cursor = first[j],
         label = "SECTION_NAME", IsName(tok[j], first[j], last[j])
  PROVE  ReadInv'
<1>1. /\ AtRules /\ Limit \in Nat /\ last[j] \in Nat /\ n \in Nat /\ j \in 1..n
      /\ tok[j].from \in Nat /\ tok[j].to \in Nat
      /\ InOrder(n, tok, first, last, j)
      /\ tok[j].from <= tok[j].to /\ tok[j].to + 1 <= Limit
  BY TokenHere
<1>2. PICK f, l, q : f = tok[j].from /\ l = tok[j].to /\ q = l + 1
  OBVIOUS
<1>3. /\ tok[j].kind = "SECTION_NAME" /\ cursor = f /\ last[j] = q
      /\ \A k \in f..l : file[k] \in KeyChars
      /\ file[q] = ">"
  BY <1>2 DEF IsName, Holds
<1>4. /\ q \in Nat /\ q \in cursor + 1..Limit /\ q - 1 = l /\ q <= Limit
      /\ cursor + 0 = f /\ q + 1 - 1 - 1 = l /\ q + 1 \in Nat
  BY <1>1, <1>2, <1>3
<1>5. status = "scanning"
  BY DEF Here
<1>6. Reads("SECTION_NAME", q + 1, q)
  BY <1>1, <1>3, <1>4, <1>5, ReadName
<1>7. \A m : Effects(m, "SECTION_NAME") => Return(m, tok[j].kind, 0, 1, "INITIAL")
  BY <1>3 DEF Effects
<1>8. j = n
  <2>1. ~(j < n)
    BY <1>1, <1>3 DEF InOrder, IsNamed
  <2> QED
    BY <1>1, <2>1
<1>9. "SECTION_NAME" \in RuleNames /\ q = tok[j].to + 1 /\ q + 1 = last[j] + 1
      /\ "INITIAL" \in Open
  BY <1>2, <1>3 DEF RuleNames, Open
<1>10. Returns(n, tok, last, j, "SECTION_NAME", q + 1, q, 0, 1, "INITIAL")
  BY <1>1, <1>2, <1>4, <1>6, <1>8, <1>9 DEF Returns
<1> QED
  BY <1>7, <1>10, TokenRead

(* The quote of a value, and what it quotes *)
LEMMA QuoteAt ==
  ASSUME NEW s, NEW n, NEW tok, NEW first, NEW last, NEW i, NEW j, j = i + 1,
         Here(s, n, tok, first, last, i), Next, i < n, cursor = first[j],
         label = "VALUE", IsQuoted(tok[j], first[j], last[j])
  PROVE  ReadInv'
<1>1. /\ AtRules /\ Limit \in Nat /\ cursor \in Nat
      /\ tok[j].from \in Nat /\ tok[j].to \in Nat
      /\ tok[j].from <= tok[j].to /\ tok[j].to + 1 <= Limit
  BY TokenHere, AtCursor
<1>2. PICK f, l : f = tok[j].from /\ l = tok[j].to
  OBVIOUS
<1>3. file[cursor] = "quote" /\ cursor = f - 1
  BY <1>2 DEF IsQuoted
<1>4. f = cursor + 1 /\ cursor < Limit /\ f \in Nat /\ cursor < f
  BY <1>1, <1>2, <1>3
<1>5. status = "scanning"
  BY DEF Here
<1>6. Reads("string", f, cursor)
  BY <1>1, <1>3, <1>4, <1>5, ReadString
<1>7. condition = "VALUE" /\ 0 < i
  <2>1. i \in Nat
    BY HereFacts
  <2>2. condition = "VALUE" /\ i # 0
    BY HereFacts DEF Stage, Between, Opened, InString
  <2> QED
    BY <2>1, <2>2
<1>8. InString(n, tok, first, last, i, f, "scanning", "STRING_VALUE", condition)
  BY <1>2, <1>7 DEF InString
<1>9. MovesTo(s, n, tok, first, last, i, "string", f, cursor, "STRING_VALUE")
  BY <1>1, <1>4, <1>6, <1>8 DEF MovesTo, Stage
<1> QED
  BY <1>9, GoesOn

LEMMA QuotedAt ==
  ASSUME NEW s, NEW n, NEW tok, NEW first, NEW last, NEW i, NEW j, j = i + 1,
         Here(s, n, tok, first, last, i), Next, i < n, label = "STRING_VALUE",
         InString(n, tok, first, last, i, cursor, "scanning", label, condition)
  PROVE  ReadInv'
<1>1. /\ AtRules /\ Limit \in Nat /\ last[j] \in Nat
      /\ tok[j].from \in Nat /\ tok[j].to \in Nat
      /\ InOrder(n, tok, first, last, j)
      /\ tok[j].from <= tok[j].to /\ tok[j].to + 1 <= Limit
  BY TokenHere
<1>2. PICK f, l, q : f = tok[j].from /\ l = tok[j].to /\ q = l + 1
  OBVIOUS
<1>3. /\ tok[j].kind = "VALUE" /\ cursor = f /\ last[j] = q
      /\ \A k \in f..l : file[k] \in Unquoted
      /\ file[q] = "quote" /\ file[cursor] # "#" /\ file[cursor] # "newline"
      /\ condition = "VALUE"
  BY <1>2 DEF InString, IsQuoted, Holds
<1>4. /\ q \in Nat /\ q \in cursor + 1..Limit /\ q - 1 = l /\ q <= Limit
      /\ cursor + 0 = f /\ q + 1 - 1 - 1 = l /\ q + 1 \in Nat
  BY <1>1, <1>2, <1>3
<1>5. status = "scanning"
  BY DEF Here
<1>6. Reads(QuotedRule, q + 1, q)
  BY <1>1, <1>3, <1>4, <1>5, ReadQuoted
<1>7. \A m : Effects(m, QuotedRule) => Return(m, tok[j].kind, 0, 1, "VALUE")
  BY <1>3 DEF Effects
<1>8. /\ j < n => Suits(tok[j + 1].kind, "VALUE")
      /\ j = n => "VALUE" \in Open
  BY <1>1, <1>3, AfterValue
<1>9. QuotedRule \in RuleNames /\ q = tok[j].to + 1 /\ q + 1 = last[j] + 1
  BY <1>2, <1>3 DEF RuleNames
<1>10. Returns(n, tok, last, j, QuotedRule, q + 1, q, 0, 1, "VALUE")
  BY <1>2, <1>4, <1>6, <1>8, <1>9 DEF Returns
<1> QED
  BY <1>7, <1>10, TokenRead

(* The < of a section, and what is behind it *)
LEMMA SectionAt ==
  ASSUME NEW s, NEW n, NEW tok, NEW first, NEW last, NEW i, NEW j, j = i + 1,
         Here(s, n, tok, first, last, i), Next, i < n, cursor = first[j],
         label = "INITIAL", tok[j].kind \in {"SECTION_START", "SECTION_END"},
         Between(s, n, tok, first, last, i, cursor, label, condition)
  PROVE  ReadInv'
<1>1. /\ AtRules /\ Limit \in Nat /\ cursor \in Nat /\ first[j] \in Nat
      /\ InOrder(n, tok, first, last, j) /\ Shape(tok[j], first[j], last[j])
      /\ tok[j].from \in Nat /\ tok[j].to \in Nat /\ j \in Nat /\ j \in 1..n
      /\ first[j] <= tok[j].from
      /\ tok[j].from <= tok[j].to /\ tok[j].to + 1 <= Limit
  BY TokenHere, AtCursor
<1>2. PICK f, l : f = tok[j].from /\ l = tok[j].to
  OBVIOUS
<1>3. file[cursor] = "<"
  BY <1>1 DEF Shape, IsKey, IsBare, IsQuoted, IsStart, IsNamed, IsName, IsEnd
<1>4. cursor < Limit /\ cursor + 1 \in Nat /\ cursor < cursor + 1
  BY <1>1, <1>2
<1>5. status = "scanning"
  BY DEF Here
<1>6. Reads("section", cursor + 1, cursor)
  BY <1>1, <1>3, <1>5, ReadSection
<1>7. i = 0 /\ j = 1
  <2>1. ~(j > 1)
    BY <1>1 DEF InOrder
  <2> QED
    BY <1>1, <2>1, HereFacts
<1>8. Opened(n, tok, first, i, cursor + 1, "scanning", "SECTION", condition)
  BY <1>7 DEF Opened, Between
<1>9. MovesTo(s, n, tok, first, last, i, "section", cursor + 1, cursor, "SECTION")
  BY <1>1, <1>4, <1>6, <1>8 DEF MovesTo, Stage
<1> QED
  BY <1>9, GoesOn

LEMMA OpenedFacts ==
  ASSUME NEW s, NEW n, NEW tok, NEW first, NEW last, NEW i,
         Here(s, n, tok, first, last, i), i < n,
         Opened(n, tok, first, i, cursor, "scanning", label, condition)
  PROVE  /\ AtRules /\ Limit \in Nat /\ cursor \in Nat /\ 1 \in 1..n /\ n \in Nat /\ i = 0
         /\ first[1] \in Nat /\ last[1] \in Nat /\ last[1] <= Limit
         /\ tok[1].from \in Nat /\ tok[1].to \in Nat
         /\ tok[1].from <= tok[1].to /\ tok[1].to + 1 <= Limit
         /\ InOrder(n, tok, first, last, 1) /\ Shape(tok[1], first[1], last[1])
         /\ tok[1].kind \in {"SECTION_START", "SECTION_END"}
         /\ status = "scanning" /\ label = "SECTION" /\ condition \in Open
         /\ cursor = first[1] + 1
<1>1. /\ i = 0 /\ label = "SECTION" /\ condition \in Open
      /\ tok[1].kind \in {"SECTION_START", "SECTION_END"} /\ cursor = first[1] + 1
  BY DEF Opened
<1>2. 1 = i + 1
  BY <1>1
<1>3. status = "scanning"
  BY DEF Here
<1> QED
  BY <1>1, <1>2, <1>3, TokenHere, AtCursor

LEMMA StartAt ==
  ASSUME NEW s, NEW n, NEW tok, NEW first, NEW last, NEW i,
         Here(s, n, tok, first, last, i), Next, i < n,
         Opened(n, tok, first, i, cursor, "scanning", label, condition),
         IsStart(tok[1], first[1], last[1])
  PROVE  ReadInv'
<1>1. /\ AtRules /\ Limit \in Nat /\ cursor \in Nat /\ n \in Nat /\ i = 0 /\ 1 \in 1..n
      /\ tok[1].from \in Nat /\ tok[1].to \in Nat
      /\ tok[1].from <= tok[1].to /\ tok[1].to + 1 <= Limit
      /\ InOrder(n, tok, first, last, 1)
      /\ status = "scanning" /\ label = "SECTION" /\ condition \in Open
      /\ cursor = first[1] + 1
  BY OpenedFacts
<1>2. PICK f, l, q : f = tok[1].from /\ l = tok[1].to /\ q = l + 1
  OBVIOUS
<1>3. /\ tok[1].kind = "SECTION_START" /\ first[1] = f - 1 /\ last[1] = q
      /\ \A k \in f..l : file[k] \in KeyChars
      /\ file[q] = ">"
  BY <1>2 DEF IsStart, Holds
<1>4. /\ cursor = f /\ q \in Nat /\ q \in cursor + 1..Limit /\ q - 1 = l /\ q <= Limit
      /\ cursor + 0 = f /\ q + 1 - 1 - 1 = l /\ q + 1 \in Nat
  BY <1>1, <1>2, <1>3
<1>5. Reads("SECTION_START", q + 1, q)
  BY <1>1, <1>3, <1>4, ReadStart
<1>6. \A m : Effects(m, "SECTION_START") => Return(m, tok[1].kind, 0, 1, condition)
  BY <1>3 DEF Effects
<1>7. ~(1 < n) /\ 1 = 0 + 1
  <2>1. last[1] # tok[1].to
    BY <1>1, <1>2, <1>3
  <2> QED
    BY <1>1, <1>3, <2>1 DEF InOrder, IsNamed
<1>8. "SECTION_START" \in RuleNames /\ q = tok[1].to + 1 /\ q + 1 = last[1] + 1
  BY <1>2, <1>3 DEF RuleNames
<1>9. Returns(n, tok, last, 1, "SECTION_START", q + 1, q, 0, 1, condition)
  BY <1>1, <1>2, <1>4, <1>5, <1>7, <1>8 DEF Returns
<1> QED
  BY <1>1, <1>6, <1>7, <1>9, TokenRead

LEMMA EndAt ==
  ASSUME NEW s, NEW n, NEW tok, NEW first, NEW last, NEW i,
         Here(s, n, tok, first, last, i), Next, i < n,
         Opened(n, tok, first, i, cursor, "scanning", label, condition),
         IsEnd(tok[1], first[1], last[1])
  PROVE  ReadInv'
<1>1. /\ AtRules /\ Limit \in Nat /\ cursor \in Nat /\ n \in Nat /\ i = 0 /\ 1 \in 1..n
      /\ tok[1].from \in Nat /\ tok[1].to \in Nat
      /\ tok[1].from <= tok[1].to /\ tok[1].to + 1 <= Limit
      /\ InOrder(n, tok, first, last, 1)
      /\ status = "scanning" /\ label = "SECTION" /\ condition \in Open
      /\ cursor = first[1] + 1
  BY OpenedFacts
<1>2. PICK f, l, q : f = tok[1].from /\ l = tok[1].to /\ q = l + 1
  OBVIOUS
<1>3. /\ tok[1].kind = "SECTION_END" /\ first[1] = f - 2 /\ last[1] = q
      /\ \A k \in f..l : file[k] \in KeyChars
      /\ file[q] = ">" /\ file[cursor] = "/"
  BY <1>1, <1>2 DEF IsEnd, Holds
<1>4. /\ cursor + 1 = f /\ q \in Nat /\ q \in cursor + 2..Limit /\ q - 1 = l /\ q <= Limit
      /\ q + 1 - 1 - 1 = l /\ q + 1 \in Nat
  BY <1>1, <1>2, <1>3
<1>5. Reads("SECTION_END", q + 1, q)
  BY <1>1, <1>3, <1>4, ReadEnd
<1>6. \A m : Effects(m, "SECTION_END") => Return(m, tok[1].kind, 1, 1, condition)
  BY <1>3 DEF Effects
<1>7. ~(1 < n) /\ 1 = 0 + 1
  BY <1>1, <1>3 DEF InOrder, IsNamed
<1>8. "SECTION_END" \in RuleNames /\ q = tok[1].to + 1 /\ q + 1 = last[1] + 1
  BY <1>2, <1>3 DEF RuleNames
<1>9. Returns(n, tok, last, 1, "SECTION_END", q + 1, q, 1, 1, condition)
  BY <1>1, <1>2, <1>4, <1>5, <1>7, <1>8 DEF Returns
<1> QED
  BY <1>1, <1>6, <1>7, <1>9, TokenRead

LEMMA NamedAt ==
  ASSUME NEW s, NEW n, NEW tok, NEW first, NEW last, NEW i,
         Here(s, n, tok, first, last, i), Next, i < n,
         Opened(n, tok, first, i, cursor, "scanning", label, condition),
         IsNamed(tok[1], first[1], last[1])
  PROVE  ReadInv'
<1>1. /\ AtRules /\ Limit \in Nat /\ cursor \in Nat /\ n \in Nat /\ i = 0 /\ 1 \in 1..n
      /\ tok[1].from \in Nat /\ tok[1].to \in Nat
      /\ tok[1].from <= tok[1].to /\ tok[1].to + 1 <= Limit
      /\ InOrder(n, tok, first, last, 1)
      /\ status = "scanning" /\ label = "SECTION" /\ condition \in Open
      /\ cursor = first[1] + 1
  BY OpenedFacts
<1>2. PICK f, l, q, w : f = tok[1].from /\ l = tok[1].to /\ q = l + 1 /\ w = first[2]
  OBVIOUS
<1>3. /\ tok[1].kind = "SECTION_START" /\ first[1] = f - 1 /\ last[1] = l
      /\ \A k \in f..l : file[k] \in KeyChars
      /\ file[q] \in Blank
  BY <1>2 DEF IsNamed, Holds
<1>4. /\ cursor = f /\ q \in Nat /\ q \in cursor + 1..Limit /\ q - 1 = l /\ q <= Limit
      /\ cursor + 0 = f /\ q - 1 - 0 = l
  BY <1>1, <1>2, <1>3
<1>5. 1 < n /\ tok[2].kind = "SECTION_NAME" /\ 1 + 1 = 2
  <2>1. 1 # n
    BY <1>1 DEF InOrder
  <2> QED
    BY <1>1, <1>3, <2>1 DEF InOrder
<1>6. /\ w \in Nat /\ q <= w /\ w < Limit /\ file[w] \notin Blank
      /\ \A k \in q..w - 1 : file[k] \in Blank
  <2>1. /\ file \in Seq(Chars) /\ Layout(s, n, tok, first, last)
    BY HereFacts
  <2>2. 1 \in 0..n
    BY <1>1, <1>5
  <2> QED
    BY <1>2, <1>3, <1>5, <2>1, <2>2, TokenAhead
<1>7. w \in q + 1..Limit
  <2>1. w # q
    BY <1>3, <1>6
  <2> QED
    BY <1>1, <1>4, <1>6, <2>1
<1>8. Reads(NamedRule, q, w)
  BY <1>1, <1>3, <1>4, <1>6, <1>7, ReadNamed
<1>9. \A m : Effects(m, NamedRule) => Return(m, tok[1].kind, 0, 0, "SECTION_NAME")
  BY <1>3 DEF Effects
<1>10. NamedRule \in RuleNames /\ q = last[1] + 1 /\ w <= Limit
       /\ Suits(tok[2].kind, "SECTION_NAME")
  BY <1>1, <1>2, <1>3, <1>5, <1>6 DEF RuleNames, Suits
<1>11. Returns(n, tok, last, 1, NamedRule, q, w, 0, 0, "SECTION_NAME")
  BY <1>1, <1>2, <1>4, <1>5, <1>6, <1>8, <1>10 DEF Returns
<1> QED
  BY <1>1, <1>5, <1>9, <1>11, TokenRead

(* The rest of a line that holds no token, and the newline *)
LEMMA RestOfLine ==
  ASSUME NEW s, NEW n, NEW tok, NEW first, NEW last,
         Here(s, n, tok, first, last, n),
         Between(s, n, tok, first, last, n, cursor, label, condition)
  PROVE  /\ AtRules /\ Limit \in Nat /\ cursor \in Nat /\ n \in Nat /\ s \in Starts
         /\ first[n + 1] \in Nat /\ LineEnd(s) \in Nat /\ last[n] \in Nat
         /\ last[n] + 1 <= cursor /\ last[n] + 1 <= first[n + 1]
         /\ first[n + 1] <= LineEnd(s) /\ LineEnd(s) <= Limit
         /\ file[LineEnd(s)] = "newline" /\ s <= cursor
         /\ first[n + 1] < LineEnd(s) => file[first[n + 1]] = "#"
         /\ \A k \in last[n] + 1..first[n + 1] - 1 : file[k] \in Blank
         /\ \A k \in s..LineEnd(s) - 1 : file[k] \in Chars \ {"newline"}
         /\ cursor <= first[n + 1] \/ cursor = LineEnd(s)
         /\ status = "scanning" /\ label \in Open /\ condition \in Open
         /\ n = 0 => label = "INITIAL"
         /\ n > 0 => label = condition
<1>1. /\ AtRules /\ Limit \in Nat /\ cursor \in Nat /\ n \in Nat /\ s \in Starts
      /\ file \in Seq(Chars) /\ Layout(s, n, tok, first, last) /\ n \in 0..n
      /\ LineEnd(s) = Limit + 1 => n < n
  BY HereFacts
<1>2. /\ s \in Nat /\ LineEnd(s) \in Nat /\ LineEnd(s) <= Limit + 1
      /\ LineEnd(s) <= Limit => file[LineEnd(s)] = "newline"
      /\ \A k \in s..LineEnd(s) - 1 : file[k] \in Chars \ {"newline"}
      /\ last[0] = s - 1
      /\ first[n + 1] \in Nat /\ first[n + 1] <= LineEnd(s)
      /\ first[n + 1] < LineEnd(s) => file[first[n + 1]] = "#"
  BY <1>1, LineOf
<1>3. LineEnd(s) <= Limit
  BY <1>1, <1>2
<1>4. last[n] \in Nat
  BY <1>1 DEF Layout
<1>5. last[n] + 1 <= first[n + 1] /\ \A k \in last[n] + 1..first[n + 1] - 1 : file[k] \in Blank
  BY <1>1 DEF Layout, Gap
<1>6. /\ last[n] + 1 <= cursor /\ (cursor <= first[n + 1] \/ cursor = LineEnd(s))
      /\ label \in Open /\ condition \in Open
      /\ n = 0 => label = "INITIAL"
      /\ n > 0 => label = condition
  BY DEF Between
<1>7. s <= cursor
  <2>1. s - 1 <= last[n]
    <3>1. CASE n = 0
      BY <1>2, <1>4, <3>1
    <3>2. CASE n # 0
      <4>1. n \in 1..n
        BY <1>1, <3>2
      <4>2. /\ s <= first[n] /\ first[n] <= tok[n].from /\ tok[n].from <= tok[n].to
            /\ tok[n].to <= last[n] /\ first[n] \in Nat
            /\ tok[n].from \in Nat /\ tok[n].to \in Nat
        BY <1>1, <4>1, LaidOut
      <4>3. PICK a, f, l, b : a = first[n] /\ f = tok[n].from /\ l = tok[n].to /\ b = last[n]
        OBVIOUS
      <4>4. /\ a \in Nat /\ f \in Nat /\ l \in Nat /\ b \in Nat /\ s \in Nat
            /\ s <= a /\ a <= f /\ f <= l /\ l <= b
        BY <1>2, <1>4, <4>2, <4>3
      <4>5. s - 1 <= b
        BY ONLY <4>4
      <4> QED
        BY <4>3, <4>5
    <3> QED
      BY <3>1, <3>2
  <2> QED
    BY <1>1, <1>2, <1>4, <1>6, <2>1
<1>8. status = "scanning"
  BY DEF Here
<1> QED
  BY <1>1, <1>2, <1>3, <1>4, <1>5, <1>6, <1>7, <1>8

(* Blanks or a comment are skipped, to where the rest or the line ends. *)
LEMMA SkipTo ==
  ASSUME NEW s, NEW n, NEW tok, NEW first, NEW last,
         Here(s, n, tok, first, last, n), Next,
         Between(s, n, tok, first, last, n, cursor, label, condition),
         NEW q, q = first[n + 1] \/ q = LineEnd(s), cursor < q, Reads("skip", q, q)
  PROVE  ReadInv'
<1>1. /\ Limit \in Nat /\ cursor \in Nat /\ n \in Nat
      /\ first[n + 1] \in Nat /\ LineEnd(s) \in Nat /\ last[n] \in Nat
      /\ last[n] + 1 <= cursor
      /\ first[n + 1] <= LineEnd(s) /\ LineEnd(s) <= Limit
      /\ label \in Open /\ condition \in Open
      /\ n = 0 => label = "INITIAL"
      /\ n > 0 => label = condition
  BY RestOfLine
<1>2. q \in Nat /\ q <= LineEnd(s) /\ q <= Limit /\ last[n] + 1 <= q
  BY <1>1
<1>3. CASE q = Limit
  <2>1. LineEnd(s) >= Limit
    BY <1>1, <1>2, <1>3
  <2> QED
    BY <1>2, <1>3, <2>1, GoesToEnd
<1>4. CASE q < Limit
  <2>1. Between(s, n, tok, first, last, n, q, label, condition)
    BY <1>1, <1>2 DEF Between
  <2>2. MovesTo(s, n, tok, first, last, n, "skip", q, q, label)
    BY <1>2, <1>4, <2>1 DEF MovesTo, Stage
  <2> QED
    BY <2>2, GoesOn
<1> QED
  BY <1>1, <1>2, <1>3, <1>4

LEMMA BlanksAfter ==
  ASSUME NEW s, NEW n, NEW tok, NEW first, NEW last,
         Here(s, n, tok, first, last, n), Next,
         Between(s, n, tok, first, last, n, cursor, label, condition),
         cursor < first[n + 1]
  PROVE  ReadInv'
<1>1. /\ AtRules /\ Limit \in Nat /\ cursor \in Nat
      /\ first[n + 1] \in Nat /\ LineEnd(s) \in Nat /\ last[n] \in Nat
      /\ last[n] + 1 <= cursor
      /\ first[n + 1] <= LineEnd(s) /\ LineEnd(s) <= Limit
      /\ file[LineEnd(s)] = "newline"
      /\ first[n + 1] < LineEnd(s) => file[first[n + 1]] = "#"
      /\ \A k \in last[n] + 1..first[n + 1] - 1 : file[k] \in Blank
      /\ status = "scanning" /\ label \in Open
  BY RestOfLine
<1>2. PICK q : q = first[n + 1]
  OBVIOUS
<1>3. /\ q \in cursor + 1..Limit /\ \A k \in cursor..q - 1 : file[k] \in Blank
  BY <1>1, <1>2
<1>4. file[q] \notin Blank
  <2>1. file[q] = "#" \/ file[q] = "newline"
    BY <1>1, <1>2
  <2> QED
    BY <2>1, ClassOfMark
<1>5. Reads("skip", q, q)
  BY <1>1, <1>3, <1>4, ReadBlanks DEF Open
<1> QED
  BY <1>2, <1>5, SkipTo

LEMMA CommentAfter ==
  ASSUME NEW s, NEW n, NEW tok, NEW first, NEW last,
         Here(s, n, tok, first, last, n), Next,
         Between(s, n, tok, first, last, n, cursor, label, condition),
         cursor = first[n + 1], cursor < LineEnd(s)
  PROVE  ReadInv'
<1>1. /\ AtRules /\ Limit \in Nat /\ cursor \in Nat /\ s \in Starts
      /\ LineEnd(s) \in Nat /\ LineEnd(s) <= Limit
      /\ file[LineEnd(s)] = "newline" /\ file[cursor] = "#" /\ s <= cursor
      /\ \A k \in s..LineEnd(s) - 1 : file[k] \in Chars \ {"newline"}
      /\ status = "scanning" /\ label \in Open
  BY RestOfLine
<1>2. PICK q : q = LineEnd(s)
  OBVIOUS
<1>3. q \in cursor + 1..Limit
  BY <1>1, <1>2
<1>4. \A k \in cursor..q - 1 : file[k] \in Chars \ {"newline"}
  <2>1. s \in Nat
    BY <1>1, LineBounds DEF AtRules
  <2>2. \A k \in cursor..q - 1 : k \in s..q - 1
    BY <1>1, <1>2, <2>1
  <2> QED
    BY <1>1, <1>2, <2>2
<1>5. Reads("skip", q, q)
  BY <1>1, <1>2, <1>3, <1>4, ReadComment DEF Open
<1> QED
  BY <1>2, <1>5, SkipTo

LEMMA FirstSuits ==
  ASSUME NEW n, NEW tok, NEW first, NEW last, tok[1].kind \in TokenKinds,
         InOrder(n, tok, first, last, 1)
  PROVE  Suits(tok[1].kind, "INITIAL")
  BY DEF InOrder, Suits, TokenKinds

(* Before the first token of a line *)
LEMMA LineStarts ==
  ASSUME file \in Seq(Chars), NEW s, NEW n, NEW tok, NEW first, NEW last,
         Layout(s, n, tok, first, last), NEW cond \in Open
  PROVE  Between(s, n, tok, first, last, 0, s, "INITIAL", cond)
<1>1. /\ s \in Nat /\ n \in Nat /\ last[0] = s - 1 /\ LineEnd(s) \in Nat
  BY LineOf
<1>2. last[0] + 1 <= s /\ s <= first[1]
  <2>1. last[0] + 1 <= first[1]
    BY <1>1 DEF Layout, Gap
  <2> QED
    BY <1>1, <2>1
<1>3. 0 < n => Suits(tok[1].kind, "INITIAL")
  <2> SUFFICES ASSUME 0 < n
               PROVE  Suits(tok[1].kind, "INITIAL")
    OBVIOUS
  <2>1. 1 \in 1..n
    BY <1>1
  <2>2. tok[1].kind \in TokenKinds /\ InOrder(n, tok, first, last, 1)
    BY <2>1, LaidOut
  <2> QED
    BY <2>2, FirstSuits
<1>4. 0 + 1 = 1 /\ "INITIAL" \in Open
  BY DEF Open
<1> QED
  BY <1>1, <1>2, <1>3, <1>4 DEF Between

LEMMA NewlineAfter ==
  ASSUME NEW s, NEW n, NEW tok, NEW first, NEW last,
         Here(s, n, tok, first, last, n), Next,
         Between(s, n, tok, first, last, n, cursor, label, condition),
         cursor = LineEnd(s)
  PROVE  ReadInv'
<1>1. /\ AtRules /\ Limit \in Nat /\ cursor \in Nat /\ s \in Starts
      /\ cursor <= Limit /\ file[cursor] = "newline"
      /\ status = "scanning" /\ label \in Open /\ condition \in Open
  BY RestOfLine
<1>2. /\ file \in Seq(Chars) /\ WellFormed /\ Layout(s, n, tok, first, last)
      /\ lineNumber = Number(s)
      /\ ToSet(tokens) = Before(s) \cup {tok[j] : j \in 1..n}
  BY HereFacts
<1>3. Reads("newline", cursor + 1, cursor)
  BY <1>1, ReadNewline DEF Open
<1>4. CASE cursor = Limit
  <2>1. cursor + 1 \in Nat /\ cursor < cursor + 1 /\ LineEnd(s) >= Limit
    BY <1>1, <1>4
  <2> QED
    BY <1>1, <1>3, <1>4, <2>1, GoesToEnd
<1>5. CASE cursor # Limit
  <2>1. PICK r : r = cursor + 1
    OBVIOUS
  <2>2. /\ r \in Starts /\ Number(r) = lineNumber + 1 /\ r <= Limit /\ r \in Nat
        /\ Before(r) = ToSet(tokens)
    <3>1. Placed(s) = {tok[j] : j \in 1..n}
      BY <1>2, LineOf
    <3>2. LineEnd(s) <= Limit /\ LineEnd(s) + 1 \in Starts
      BY <1>1, <1>2, LineBounds
    <3>3. /\ Number(LineEnd(s) + 1) = Number(s) + 1
          /\ Before(LineEnd(s) + 1) = Before(s) \cup Placed(s)
      BY <1>1, <1>2, <3>2, NextLine
    <3> QED
      BY <1>1, <1>2, <1>5, <2>1, <3>1, <3>2, <3>3
  <2>3. PICK k, u, a, b : Layout(r, k, u, a, b)
    BY <1>2, <2>2, LayoutExists
  <2>4. k \in Nat /\ (LineEnd(r) = Limit + 1 => 0 < k)
    BY <1>2, <2>2, <2>3, LineOf
  <2>5. LexInv /\ Ordered /\ Passed /\ "newline" \in RuleNames
    BY DEF Here, RuleNames
  <2>6. PICK m : /\ Effects(m, "newline") /\ file' = file /\ cursor' = r
                 /\ (eoi' <=> cursor = Limit)
    BY <1>1, <1>3, <2>1, <2>5, Reading
  <2>7. Skip("INITIAL") /\ lineNumber' = lineNumber + 1
    BY <2>6 DEF Effects
  <2>8. /\ ~eoi' /\ status' = "scanning" /\ label' = "INITIAL"
        /\ condition' = condition /\ tokens' = tokens
    BY <1>1, <1>5, <2>6, <2>7 DEF Skip
  <2>9. Ordered'
    BY <2>5, <2>8 DEF Ordered
  <2>10. Passed'
    <3>1. \A t \in ToSet(tokens) : t.to \in Nat /\ t.to < cursor
      BY <2>5, TokenTypes DEF LexInv, Passed
    <3>2. \A t \in ToSet(tokens) : t.to < r
      BY ONLY <1>1, <2>1, <3>1
    <3> QED
      BY <2>6, <2>8, <3>2 DEF Passed, ToSet
  <2>11. Block' = "INITIAL"
    BY <2>8 DEF Block
  <2>12. Stage(r, k, u, a, b, 0, cursor', status', "INITIAL", condition')
    BY <1>1, <1>2, <2>3, <2>6, <2>8, LineStarts DEF Stage
  <2>13. ToSet(tokens') = Before(r) \cup {u[j] : j \in 1..0} /\ 0 \in 0..k
    BY <2>2, <2>4, <2>8
  <2> QED
    BY <2>2, <2>3, <2>4, <2>6, <2>7, <2>8, <2>9, <2>10, <2>11, <2>12, <2>13, Arrives
<1> QED
  BY <1>4, <1>5

LEMMA TokenStarts ==
  ASSUME NEW s, NEW n, NEW tok, NEW first, NEW last, NEW i, NEW j, j = i + 1,
         Here(s, n, tok, first, last, i), Next, i < n,
         Between(s, n, tok, first, last, i, cursor, label, condition)
  PROVE  ReadInv'
<1>1. /\ Shape(tok[j], first[j], last[j]) /\ first[j] \in Nat /\ cursor \in Nat
  BY TokenHere, AtCursor
<1>2. cursor <= first[j] /\ Suits(tok[j].kind, label)
  BY DEF Between
<1>3. CASE cursor < first[j]
  BY <1>3, BlanksBefore
<1>4. CASE cursor = first[j]
  <2>1. CASE IsKey(tok[j], first[j], last[j])
    <3>1. label = "INITIAL"
      BY <1>2, <2>1 DEF Suits, IsKey
    <3> QED
      BY <1>4, <2>1, <3>1, KeyAt
  <2>2. CASE IsBare(tok[j], first[j], last[j])
    <3>1. label = "VALUE"
      BY <1>2, <2>2 DEF Suits, IsBare
    <3> QED
      BY <1>4, <2>2, <3>1, BareAt
  <2>3. CASE IsQuoted(tok[j], first[j], last[j])
    <3>1. label = "VALUE"
      BY <1>2, <2>3 DEF Suits, IsQuoted
    <3> QED
      BY <1>4, <2>3, <3>1, QuoteAt
  <2>4. CASE \/ IsStart(tok[j], first[j], last[j]) \/ IsNamed(tok[j], first[j], last[j])
             \/ IsEnd(tok[j], first[j], last[j])
    <3>1. tok[j].kind \in {"SECTION_START", "SECTION_END"}
      BY <2>4 DEF IsStart, IsNamed, IsEnd
    <3>2. label = "INITIAL"
      BY <1>2, <3>1 DEF Suits
    <3> QED
      BY <1>4, <3>1, <3>2, SectionAt
  <2>5. CASE IsName(tok[j], first[j], last[j])
    <3>1. label = "SECTION_NAME"
      BY <1>2, <2>5 DEF Suits, IsName
    <3> QED
      BY <1>4, <2>5, <3>1, NameAt
  <2> QED
    BY <1>1, <2>1, <2>2, <2>3, <2>4, <2>5 DEF Shape
<1> QED
  BY <1>1, <1>2, <1>3, <1>4

LEMMA FromHere ==
  ASSUME NEW s, NEW n, NEW tok, NEW first, NEW last, NEW i,
         Here(s, n, tok, first, last, i), Next
  PROVE  ReadInv'
<1>1. /\ i \in 0..n /\ n \in Nat
      /\ Stage(s, n, tok, first, last, i, cursor, "scanning", label, condition)
  BY HereFacts
<1>2. i < n \/ i = n
  BY <1>1
<1>3. CASE Between(s, n, tok, first, last, i, cursor, label, condition) /\ i < n
  BY <1>3, TokenStarts
<1>4. CASE Between(s, n, tok, first, last, i, cursor, label, condition) /\ i = n
  <2>1. /\ cursor \in Nat /\ first[n + 1] \in Nat /\ LineEnd(s) \in Nat
        /\ first[n + 1] <= LineEnd(s)
        /\ cursor <= first[n + 1] \/ cursor = LineEnd(s)
    BY <1>4, RestOfLine
  <2>2. \/ cursor < first[n + 1]
        \/ cursor = first[n + 1] /\ cursor < LineEnd(s)
        \/ cursor = LineEnd(s)
    BY <2>1
  <2> QED
    BY <1>4, <2>2, BlanksAfter, CommentAfter, NewlineAfter
<1>5. CASE Opened(n, tok, first, i, cursor, "scanning", label, condition)
  <2>1. i < n
    BY <1>5 DEF Opened
  <2>2. /\ Shape(tok[1], first[1], last[1])
        /\ tok[1].kind \in {"SECTION_START", "SECTION_END"}
    BY <1>5, <2>1, OpenedFacts
  <2>3. \/ IsStart(tok[1], first[1], last[1]) \/ IsNamed(tok[1], first[1], last[1])
        \/ IsEnd(tok[1], first[1], last[1])
    BY <2>2 DEF Shape, IsKey, IsBare, IsQuoted, IsName
  <2> QED
    BY <1>5, <2>1, <2>3, StartAt, NamedAt, EndAt
<1>6. CASE InString(n, tok, first, last, i, cursor, "scanning", label, condition)
  <2>1. i < n /\ label = "STRING_VALUE"
    BY <1>6 DEF InString
  <2> QED
    BY <1>6, <2>1, QuotedAt
<1> QED
  BY <1>1, <1>2, <1>3, <1>4, <1>5, <1>6 DEF Stage

LEMMA NextKeepsFile ==
  ASSUME [Next]_vars
  PROVE  file' = file
<1>1. CASE Scan \/ Fails \/ Ended \/ UNCHANGED vars
  BY <1>1 DEF Scan, Fails, Ended, vars
<1>2. ASSUME NEW m \in Matches, Acts(m)
      PROVE  file' = file
  <2>1. \E rule : Take(m, rule)
    BY <1>2, Zenon DEF Acts, SkipBlanksAndComments, EnterSection, EnterString, Newline,
          Key, SectionStart, SectionName, EndSection, Value, UnknownCharacter
  <2> QED
    BY <2>1 DEF Take
<1> QED
  BY <1>1, <1>2 DEF Next, Acts

LEMMA ReadInit == Init => ReadInv
<1> SUFFICES ASSUME Init, WellFormed
             PROVE  ReadInv
  BY DEF ReadInv
<1>1. /\ file \in Seq(Chars) /\ file # <<>>
      /\ cursor = 1 /\ eoi = FALSE /\ condition = "INITIAL" /\ label = "INITIAL"
      /\ lineNumber = 1 /\ tokens = <<>> /\ status = "ready"
  BY FilesAssumption DEF Init
<1>2. 1 \in Starts /\ Number(1) = 1 /\ Before(1) = {}
  BY <1>1, FirstLine
<1>3. PICK n, tok, first, last : Layout(1, n, tok, first, last)
  BY <1>1, <1>2, LayoutExists
<1>4. n \in Nat /\ Limit \in Nat /\ (LineEnd(1) = Limit + 1 /\ 1 <= Limit => n > 0)
  BY <1>1, <1>3, LineOf
<1>5. 1 <= Limit
  BY <1>1 DEF Limit
<1>6. Between(1, n, tok, first, last, 0, 1, "INITIAL", "INITIAL")
  BY <1>1, <1>3, LineStarts DEF Open
<1>7. Block = "INITIAL"
  BY <1>1 DEF Block
<1>8. ToSet(tokens) = {} /\ DOMAIN tokens = {}
  BY <1>1 DEF ToSet
<1>9. Position(1, n, tok, first, last, 0)
  <2>1. 0 \in 0..n /\ {tok[j] : j \in 1..0} = {}
    BY <1>4
  <2> QED
    BY <1>1, <1>2, <1>3, <1>4, <1>5, <1>6, <1>7, <1>8, <2>1 DEF Position, Stage
<1>10. Ordered /\ Passed
  BY <1>8 DEF Ordered, Passed
<1> QED
  BY <1>1, <1>9, <1>10 DEF ReadInv

(* The lexer stays where it is. *)
LEMMA StaysHere ==
  ASSUME ReadInv, WellFormed, ~eoi,
         UNCHANGED <<file, cursor, eoi, condition, lineNumber, tokens>>,
         \/ UNCHANGED <<status, label>> /\ status # "end"
         \/ status = "ready" /\ status' = "scanning" /\ label' = condition
  PROVE  ReadInv'
<1>1. /\ status \in {"ready", "scanning", "end"} /\ Ordered /\ Passed
      /\ \E s, n, tok, first, last, i : Position(s, n, tok, first, last, i)
  BY DEF ReadInv
<1>2. PICK s, n, tok, first, last, i : Position(s, n, tok, first, last, i)
  BY <1>1
<1>3. /\ Layout(s, n, tok, first, last) /\ i \in 0..n
      /\ lineNumber = Number(s)
      /\ ToSet(tokens) = Before(s) \cup {tok[j] : j \in 1..i}
      /\ LineEnd(s) = Limit + 1 => i < n
      /\ Stage(s, n, tok, first, last, i, cursor, status, Block, condition)
  BY <1>2 DEF Position
<1>4. status' \in {"ready", "scanning"} /\ ~eoi'
  BY <1>1
<1>5. Ordered' /\ Passed' /\ ToSet(tokens') = ToSet(tokens)
  BY <1>1 DEF Ordered, Passed, ToSet
<1>6. Block' = Block
  BY DEF Block
<1>7. Stage(s, n, tok, first, last, i, cursor', status', Block, condition')
  BY <1>3 DEF Stage, Opened, InString
<1> QED
  BY <1>3, <1>4, <1>5, <1>6, <1>7, Arrives

LEMMA StaysAtEnd ==
  ASSUME ReadInv, WellFormed, eoi, UNCHANGED <<file, cursor, eoi, tokens>>,
         status' \in {"ready", "scanning", "end"}
  PROVE  ReadInv'
<1>1. Ordered /\ Passed /\ ToSet(tokens) = AllPlaced
  BY DEF ReadInv
<1>2. Ordered' /\ Passed' /\ ToSet(tokens)' = ToSet(tokens) /\ eoi'
  BY <1>1 DEF Ordered, Passed, ToSet
<1>3. ToSet(tokens)' = AllPlaced'
  BY <1>1, <1>2, AllKept
<1> QED
  BY <1>2, <1>3 DEF ReadInv

LEMMA ReadStep == LexInv /\ ReadInv /\ [Next]_vars => ReadInv'
<1> SUFFICES ASSUME LexInv, ReadInv, [Next]_vars, WellFormed
             PROVE  ReadInv'
  <2>1. ASSUME [Next]_vars, ~WellFormed
        PROVE  ~WellFormed'
    BY <2>1, NextKeepsFile, FileKept
  <2> QED
    BY <2>1 DEF ReadInv
<1>1. /\ status \in {"ready", "scanning", "end"}
      /\ status = "scanning" => ~eoi
      /\ status = "end" => eoi
  BY DEF ReadInv, LexInv
<1>2. CASE UNCHANGED vars
  <2>1. UNCHANGED <<file, cursor, eoi, condition, label, lineNumber, tokens, status>>
    BY <1>2 DEF vars
  <2> QED
    BY <1>1, <2>1, StaysHere, StaysAtEnd
<1>3. CASE Scan
  <2>1. /\ status = "ready"
        /\ UNCHANGED <<file, cursor, eoi, condition, lineNumber, tokens>>
        /\ IF eoi THEN status' = "end" /\ label' = label
                  ELSE status' = "scanning" /\ label' = condition
    BY <1>3 DEF Scan
  <2> QED
    BY <2>1, StaysHere, StaysAtEnd
<1>4. CASE status = "scanning" /\ Next
  <2>1. \E s, n, tok, first, last, i : Position(s, n, tok, first, last, i)
    BY <1>1, <1>4 DEF ReadInv
  <2>2. PICK s, n, tok, first, last, i : Position(s, n, tok, first, last, i)
    BY <2>1
  <2>3. Ordered /\ Passed
    BY DEF ReadInv
  <2>4. Here(s, n, tok, first, last, i)
    BY <1>4, <2>2, <2>3 DEF Here
  <2> QED
    BY <1>4, <2>4, FromHere
<1>5. CASE status # "scanning" /\ Next /\ ~Scan
  <2>1. Matches = {} /\ ~Fails
    BY <1>5 DEF Matches, Fails
  <2>2. UNCHANGED vars
    BY <1>5, <2>1 DEF Next, Ended
  <2> QED
    BY <1>2, <2>2
<1> QED
  BY <1>2, <1>3, <1>4, <1>5

(***************************************************************************)
(* TokensExact: however long the file, if its lines are well-formed the    *)
(* lexer reads it to its end and returns the tokens of each line, in order,*)
(* with their text and the number of the line; which lines there are and   *)
(* how long they may be is left to TokensOf.                               *)
(***************************************************************************)
THEOREM TokensReturned == Spec => []TokensExact
<1>1. LexInv /\ ReadInv => TokensExact
  <2> SUFFICES ASSUME LexInv, ReadInv, status \notin {"ready", "scanning"}, WellFormed
               PROVE  /\ status = "end"
                      /\ ToSet(tokens) = AllPlaced
                      /\ Ordered
    BY DEF TokensExact, AllPlaced, Ordered
  <2>1. status = "end" /\ eoi
    BY DEF ReadInv, LexInv
  <2> QED
    BY <2>1 DEF ReadInv
<1>2. Spec => []LexInv
  BY LexInvariant
<1>3. Init => ReadInv
  BY ReadInit
<1>4. LexInv /\ ReadInv /\ [Next]_vars => ReadInv'
  BY ReadStep
<1> QED
  BY <1>1, <1>2, <1>3, <1>4, PTL DEF Spec
=============================================================================
