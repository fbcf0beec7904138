---------------------------- MODULE LemparProofs ----------------------------
(***************************************************************************)
(* Proofs about the engine of lempar.c, for any sound tables, any depth of *)
(* the stack and any number of tokens: the stack keeps within its depth,   *)
(* reports of errors keep their distance, the value of each token is in    *)
(* one place, and no assertion fails on tables that configurations explain.*)
(***************************************************************************)
EXTENDS LemparProps, FiniteSetTheorems, SequenceTheorems, WellFoundedInduction, TLAPS

-----------------------------------------------------------------------------
(* Stacks, of entries of any kind. *)

IsSequence(s) == \E S : s \in Seq(S)

LEMMA LenIs ==
  ASSUME NEW s, IsSequence(s)
  PROVE  /\ Len(s) \in Nat /\ DOMAIN s = 1..Len(s)
         /\ s = <<>> <=> Len(s) = 0
<1>1. PICK S : s \in Seq(S)
  BY DEF IsSequence
<1> QED
  BY <1>1, EmptySeq

LEMMA AppendIs ==
  ASSUME NEW s, IsSequence(s), NEW e
  PROVE  /\ IsSequence(Append(s, e)) /\ Append(s, e) # <<>>
         /\ Len(Append(s, e)) = Len(s) + 1
         /\ Append(s, e)[Len(s) + 1] = e
         /\ \A j \in 1..Len(s) : Append(s, e)[j] = s[j]
<1>1. PICK S : s \in Seq(S)
  BY DEF IsSequence
<1>2. s \in Seq(S \cup {e}) /\ e \in S \cup {e}
  BY <1>1
<1>3. Append(s, e) \in Seq(S \cup {e})
  BY <1>2
<1> QED
  BY <1>2, <1>3, AppendProperties DEF IsSequence

LEMMA ConcatIs ==
  ASSUME NEW s, IsSequence(s), NEW u, IsSequence(u)
  PROVE  /\ IsSequence(s \o u)
         /\ Len(s \o u) = Len(s) + Len(u)
         /\ \A i \in 1..Len(s) : (s \o u)[i] = s[i]
         /\ \A i \in 1..Len(u) : (s \o u)[Len(s) + i] = u[i]
<1>1. PICK S : s \in Seq(S)
  BY DEF IsSequence
<1>2. PICK T : u \in Seq(T)
  BY DEF IsSequence
<1>3. s \in Seq(S \cup T) /\ u \in Seq(S \cup T)
  BY <1>1, <1>2
<1>4. /\ s \o u \in Seq(S \cup T) /\ Len(s \o u) = Len(s) + Len(u)
      /\ \A i \in 1..Len(s) + Len(u) : (s \o u)[i] = IF i <= Len(s) THEN s[i] ELSE u[i - Len(s)]
  BY <1>3, ConcatProperties
<1>5. Len(s) \in Nat /\ Len(u) \in Nat
  BY <1>3
<1>6. \A i \in 1..Len(s) : (s \o u)[i] = s[i]
  BY <1>4, <1>5
<1>7. ASSUME NEW i \in 1..Len(u)
      PROVE  (s \o u)[Len(s) + i] = u[i]
  <2>1. Len(s) + i \in 1..Len(s) + Len(u) /\ ~(Len(s) + i <= Len(s)) /\ (Len(s) + i) - Len(s) = i
    BY <1>5
  <2> QED
    BY <1>4, <2>1
<1> QED
  BY <1>4, <1>6, <1>7 DEF IsSequence

(***************************************************************************)
(* What lies below a place, and what lies above it.                        *)
(***************************************************************************)
LEMMA BelowIs ==
  ASSUME NEW s, IsSequence(s), NEW n \in Int, n <= Len(s)
  PROVE  /\ IsSequence(SubSeq(s, 1, n))
         /\ Len(SubSeq(s, 1, n)) = IF n > 0 THEN n ELSE 0
         /\ \A i \in 1..n : SubSeq(s, 1, n)[i] = s[i]
<1>1. PICK S : s \in Seq(S)
  BY DEF IsSequence
<1>2. Len(s) \in Nat
  BY <1>1
<1>3. \A i \in 1..n : s[i] \in S
  BY <1>1, <1>2, ElementOfSeq
<1>4. /\ SubSeq(s, 1, n) \in Seq(S)
      /\ Len(SubSeq(s, 1, n)) = IF 1 <= n THEN n - 1 + 1 ELSE 0
      /\ \A i \in 1..n - 1 + 1 : SubSeq(s, 1, n)[i] = s[1 + i - 1]
  BY <1>3, SubSeqProperties
<1>5. \A i \in 1..n : i \in 1..n - 1 + 1 /\ 1 + i - 1 = i
  OBVIOUS
<1> QED
  BY <1>4, <1>5 DEF IsSequence

LEMMA AboveIs ==
  ASSUME NEW s, IsSequence(s), NEW n \in Nat, n <= Len(s)
  PROVE  /\ IsSequence(SubSeq(s, n + 1, Len(s)))
         /\ Len(SubSeq(s, n + 1, Len(s))) = Len(s) - n
         /\ \A i \in 1..Len(s) - n : SubSeq(s, n + 1, Len(s))[i] = s[n + i]
<1>1. PICK S : s \in Seq(S)
  BY DEF IsSequence
<1> DEFINE m == n + 1
           l == Len(s)
<1>2. l \in Nat /\ m \in Int /\ m = n + 1
  BY <1>1
<1>3. \A i \in m..l : s[i] \in S
  BY <1>1, <1>2, ElementOfSeq
<1> HIDE DEF m, l
<1>4. /\ SubSeq(s, m, l) \in Seq(S)
      /\ Len(SubSeq(s, m, l)) = IF m <= l THEN l - m + 1 ELSE 0
      /\ \A i \in 1..l - m + 1 : SubSeq(s, m, l)[i] = s[m + i - 1]
  BY <1>2, <1>3, SubSeqProperties
<1>5. n <= l
  BY DEF l
<1>6. Len(SubSeq(s, m, l)) = l - n
  BY <1>2, <1>4, <1>5
<1>7. ASSUME NEW i \in 1..l - n
      PROVE  SubSeq(s, m, l)[i] = s[n + i]
  <2>1. i \in 1..l - m + 1 /\ m + i - 1 = n + i
    BY <1>2
  <2> QED
    BY <1>4, <2>1
<1>8. IsSequence(SubSeq(s, m, l))
  BY <1>4 DEF IsSequence
<1> QED
  BY <1>6, <1>7, <1>8 DEF m, l

LEMMA LastIs ==
  ASSUME NEW s
  PROVE  Last(s) = s[Len(s)]
  BY DEF Last

LEMMA OneEntry ==
  ASSUME NEW e
  PROVE  IsSequence(<<e>>) /\ Len(<<e>>) = 1 /\ <<e>>[1] = e
<1>1. <<e>> \in Seq({e})
  OBVIOUS
<1> QED
  BY <1>1 DEF IsSequence

LEMMA NoEntry == IsSequence(<<>>) /\ Len(<<>>) = 0
<1>1. <<>> \in Seq({})
  OBVIOUS
<1> QED
  BY <1>1 DEF IsSequence

(***************************************************************************)
(* Of the numbers up to n a set has a greatest one: it is the closest to n. *)
(***************************************************************************)
LEMMA MaxIs ==
  ASSUME NEW n \in Nat, NEW S \in SUBSET (0..n), S # {}
  PROVE  Max(S) \in S
<1> DEFINE R == OpToRel(<, Nat)
           D == {n - x : x \in S}
<1>1. D \subseteq Nat /\ D # {}
  <2>1. \A x \in S : n - x \in Nat
    OBVIOUS
  <2> QED
    BY <2>1
<1>2. IsWellFoundedOn(R, Nat)
  BY NatLessThanWellFounded
<1>3. PICK d \in D : \A e \in D : ~ (<<e, d>> \in R)
  <2> HIDE DEF R, D
  <2> QED
    BY <1>1, <1>2, WFMin
<1>4. PICK x \in S : d = n - x
  OBVIOUS
<1>5. ASSUME NEW y \in S
      PROVE  x >= y
  <2>1. n - y \in D
    OBVIOUS
  <2>2. n - y \in Nat /\ n - x \in Nat /\ x \in Int /\ y \in Int
    OBVIOUS
  <2>3. ~ (n - y < n - x)
    BY <1>3, <1>4, <2>1, <2>2 DEF OpToRel
  <2> QED
    BY <2>2, <2>3
<1> QED
  BY <1>5 DEF Max

-----------------------------------------------------------------------------
(* The stack and the errors. *)

StackInv ==
  /\ TablesOK
  /\ IsSequence(Stack) /\ Len(Stack) <= StackDepth
  /\ Looping => Stack # <<>>

\* Since a report, tokens have been shifted or the count has been set to three.
ErrorInv ==
  /\ yy.yyerrcnt \in Int
  /\ sentence \in [word : Seq(Tokens), error : Nat, calm : Nat]
  /\ Stack # <<>> => sentence.calm >= 3 \/ sentence.calm + yy.yyerrcnt >= 3

LEMMA IdleKeeps ==
  ASSUME StackInv, UNCHANGED parser, yy' = Idle, call' = NoCall
  PROVE  StackInv'
<1>1. Stack' = <<>> /\ ~Looping'
  BY DEF Stack, Idle, Looping
<1>2. TablesOK'
  BY DEF StackInv, TablesOK, AcceptAction, ErrorAction
<1> QED
  BY <1>1, <1>2, NoEntry, LemparAssumption DEF StackInv

LEMMA StackKeeps ==
  ASSUME StackInv, UNCHANGED parser,
         IsSequence(Stack'), Len(Stack') <= StackDepth, call' = NoCall \/ Stack' # <<>>
  PROVE  StackInv'
<1>1. TablesOK'
  BY DEF StackInv, TablesOK
<1> QED
  BY <1>1 DEF StackInv, Looping

LEMMA PushKeeps ==
  ASSUME StackInv, UNCHANGED parser, NEW s, IsSequence(s), ~Full(s), NEW e,
         Stack' = Append(s, e)
  PROVE  StackInv'
<1>1. /\ IsSequence(Stack') /\ Stack' # <<>> /\ Len(Stack') = Len(s) + 1
      /\ Len(s) \in Nat
  BY AppendIs, LenIs
<1>2. Len(s) + 1 <= StackDepth
  BY <1>1, LemparAssumption DEF Full
<1> QED
  BY <1>1, <1>2, StackKeeps

(***************************************************************************)
(* What is below the right-hand side of a rule.                            *)
(***************************************************************************)
LEMMA RuleIs ==
  ASSUME StackInv, IsReduce(action)
  PROVE  LET r == action - parser.YYNSTATE + 1
             rule == parser.rules[r]
         IN  /\ r \in 1..parser.YYNRULE /\ rule.nrhs \in Nat
             /\ IsSequence(SubSeq(Stack, 1, Len(Stack) - rule.nrhs))
<1> DEFINE r == action - parser.YYNSTATE + 1
           rule == parser.rules[r]
<1>1. r \in 1..parser.YYNRULE
  <2>1. parser.YYNSTATE \in Nat /\ parser.YYNRULE \in Nat
    BY DEF StackInv, TablesOK
  <2>2. action \in parser.YYNSTATE..parser.YYNSTATE + parser.YYNRULE - 1
    BY DEF IsReduce
  <2>3. ASSUME NEW a \in Nat, NEW b \in Nat, NEW x \in a..a + b - 1
        PROVE  x - a + 1 \in 1..b
    OBVIOUS
  <2> HIDE DEF action
  <2> QED
    BY <2>1, <2>2, <2>3
<1>2. rule.nrhs \in Nat
  <2> HIDE DEF r
  <2> QED
    BY <1>1 DEF StackInv, TablesOK
<1> HIDE DEF r, rule
<1>3. Len(Stack) \in Nat /\ IsSequence(Stack)
  BY LenIs DEF StackInv
<1>4. Len(Stack) - rule.nrhs \in Int /\ Len(Stack) - rule.nrhs <= Len(Stack)
  BY <1>2, <1>3
<1>5. IsSequence(SubSeq(Stack, 1, Len(Stack) - rule.nrhs))
  BY <1>3, <1>4, BelowIs
<1> QED
  BY <1>1, <1>2, <1>5 DEF r, rule

LEMMA ResumeIs ==
  ASSUME IsSequence(Stack)
  PROVE  Max(Resumable \cup {0}) \in 0..Len(Stack)
<1>1. Len(Stack) \in Nat /\ DOMAIN Stack = 1..Len(Stack)
  BY LenIs
<1>2. Resumable \subseteq 1..Len(Stack)
  BY <1>1 DEF Resumable
<1>3. Resumable \cup {0} \in SUBSET (0..Len(Stack)) /\ Resumable \cup {0} # {}
  BY <1>1, <1>2
<1> HIDE DEF Resumable
<1> QED
  BY <1>1, <1>3, MaxIs

LEMMA DiscardKeeps ==
  ASSUME StackInv, UNCHANGED parser, NEW fails \in BOOLEAN, DiscardAndFail(Stack, fails)
  PROVE  StackInv'
<1>1. call' = NoCall /\ yy' = IF fails THEN Idle ELSE [stack |-> Stack, yyerrcnt |-> 3]
  BY DEF DiscardAndFail
<1>2. CASE fails
  BY <1>1, <1>2, IdleKeeps
<1>3. CASE ~fails
  <2>1. Stack' = Stack
    BY <1>1, <1>3 DEF Stack
  <2> QED
    BY <1>1, <2>1, StackKeeps DEF StackInv
<1> QED
  BY <1>2, <1>3

LEMMA StackStep ==
  ASSUME StackInv, Engine /\ UNCHANGED parser
  PROVE  StackInv'
<1>0. IsSequence(Stack) /\ Len(Stack) <= StackDepth
  BY DEF StackInv
<1>1. CASE ParseToken
  <2>1. CASE Stack = <<>>
    <3>1. Stack' = <<Entry(0, 0, {})>>
      BY <1>1, <2>1 DEF ParseToken, Stack
    <3>2. IsSequence(Stack') /\ Len(Stack') = 1
      BY <3>1, OneEntry
    <3>3. Stack' # <<>>
      BY <3>2, LenIs
    <3> QED
      BY <3>2, <3>3, StackKeeps, LemparAssumption
  <2>2. CASE Stack # <<>>
    <3>1. Stack' = Stack
      BY <1>1, <2>2 DEF ParseToken, Stack
    <3> QED
      BY <1>0, <2>2, <3>1, StackKeeps
  <2> QED
    BY <2>1, <2>2
<1>2. CASE ShiftToken
  <2>1. CASE Full(Stack)
    BY <1>2, <2>1, IdleKeeps DEF ShiftToken
  <2>2. CASE ~Full(Stack)
    <3>1. Stack' = Append(Stack, Entry(action, call.major, call.minor))
      BY <1>2, <2>2 DEF ShiftToken, Stack
    <3> QED
      BY <1>0, <2>2, <3>1, PushKeeps
  <2> QED
    BY <2>1, <2>2
<1>3. CASE ReduceRule
  <2> DEFINE r == action - parser.YYNSTATE + 1
             rule == parser.rules[r]
             below == SubSeq(Stack, 1, Len(Stack) - rule.nrhs)
  <2>1. PICK e :
          \/ ~Full(below) /\ yy' = [yy EXCEPT !.stack = Append(below, e)]
          \/ yy' = Idle /\ call' = NoCall
    BY <1>3 DEF ReduceRule
  <2>2. IsSequence(below)
    BY <1>3, RuleIs DEF ReduceRule
  <2> HIDE DEF below
  <2>3. CASE ~Full(below) /\ yy' = [yy EXCEPT !.stack = Append(below, e)]
    <3>1. Stack' = Append(below, e)
      BY <2>3 DEF Stack
    <3> QED
      BY <2>2, <2>3, <3>1, PushKeeps
  <2> QED
    BY <2>1, <2>3, IdleKeeps
<1>4. CASE SyntaxError
  BY <1>4, DiscardKeeps DEF SyntaxError
<1>5. CASE DiscardToken
  BY <1>5, DiscardKeeps DEF DiscardToken
<1>6. CASE Recover
  <2> DEFINE i == Max(Resumable \cup {0})
             kept == SubSeq(Stack, 1, i)
  <2>1. i \in 0..Len(Stack) /\ Len(Stack) \in Nat
    BY <1>0, ResumeIs, LenIs
  <2>2. PICK e :
          \/ DiscardAndFail(Stack, TRUE)
          \/ ~Full(kept) /\ yy' = [stack |-> Append(kept, e), yyerrcnt |-> 3]
          \/ yy' = Idle /\ call' = NoCall
    BY <1>6 DEF Recover
  <2> HIDE DEF i
  <2>3. IsSequence(kept)
    BY <1>0, <2>1, BelowIs
  <2> HIDE DEF kept
  <2>4. CASE ~Full(kept) /\ yy' = [stack |-> Append(kept, e), yyerrcnt |-> 3]
    <3>1. Stack' = Append(kept, e)
      BY <2>4 DEF Stack
    <3> QED
      BY <2>3, <2>4, <3>1, PushKeeps
  <2> QED
    BY <2>2, <2>4, DiscardKeeps, IdleKeeps
<1>7. CASE ParseFree
  BY <1>7, IdleKeeps DEF ParseFree
<1> QED
  BY <1>1, <1>2, <1>3, <1>4, <1>5, <1>6, <1>7 DEF Engine, ParseLoop

LEMMA EngineInitial ==
  ASSUME EngineInit, TablesOK
  PROVE  StackInv /\ ErrorInv
<1>1. /\ Stack = <<>> /\ ~Looping /\ yy.yyerrcnt = -1
      /\ sentence \in [word : Seq(Tokens), error : Nat, calm : Nat]
  BY DEF EngineInit, Stack, Idle, Looping, NewSentence
<1> QED
  BY <1>1, NoEntry, LemparAssumption DEF StackInv, ErrorInv

(***************************************************************************)
(* Reporting, or not, makes the distance three again.                      *)
(***************************************************************************)
LEMMA ReportIs ==
  ASSUME StackInv, ErrorInv, Looping, Report
  PROVE  /\ sentence' \in [word : Seq(Tokens), error : Nat, calm : Nat]
         /\ sentence'.calm = IF Soon THEN sentence.calm ELSE 0
         /\ ~Soon => sentence.calm >= 3
<1>1. sentence.calm >= 3 \/ sentence.calm + yy.yyerrcnt >= 3
  BY DEF StackInv, ErrorInv
<1>2. /\ sentence \in [word : Seq(Tokens), error : Nat, calm : Nat]
      /\ yy.yyerrcnt \in Int /\ Len(sentence.word) \in Nat
  BY DEF ErrorInv
<1>3. ~Soon => ~(yy.yyerrcnt > 0)
  BY <1>2 DEF Soon
<1>4. /\ sentence' \in [word : Seq(Tokens), error : Nat, calm : Nat]
      /\ sentence'.calm = IF Soon THEN sentence.calm ELSE 0
  BY <1>2 DEF Report
<1> QED
  BY <1>1, <1>2, <1>3, <1>4

LEMMA ErrorKeeps ==
  ASSUME StackInv, ErrorInv, UNCHANGED parser, Looping, Report, yy' = Idle \/ yy'.yyerrcnt = 3
  PROVE  ErrorInv'
<1>1. /\ sentence' \in [word : Seq(Tokens), error : Nat, calm : Nat]
      /\ sentence'.calm = IF Soon THEN sentence.calm ELSE 0
      /\ ~Soon => sentence.calm >= 3
  BY ReportIs
<1>0. Tokens' = Tokens
  BY DEF Tokens
<1>2. CASE yy' = Idle
  BY <1>0, <1>1, <1>2 DEF ErrorInv, Idle, Stack
<1>3. CASE yy'.yyerrcnt = 3
  <2>1. sentence'.calm \in Nat
    BY <1>1
  <2> QED
    BY <1>0, <1>1, <1>3, <2>1 DEF ErrorInv
<1> QED
  BY <1>2, <1>3

LEMMA DiscardCounts ==
  ASSUME NEW fails \in BOOLEAN, DiscardAndFail(Stack, fails)
  PROVE  yy' = Idle \/ yy'.yyerrcnt = 3
  BY DEF DiscardAndFail

LEMMA SentenceGoesOn ==
  ASSUME NEW T, NEW s \in [word : Seq(T), error : Nat, calm : Nat], NEW x \in T
  PROVE  /\ [s EXCEPT !.word = Append(@, x)] \in [word : Seq(T), error : Nat, calm : Nat]
         /\ [s EXCEPT !.word = Append(@, x)].calm = s.calm
<1>1. s.word \in Seq(T) /\ s.error \in Nat /\ s.calm \in Nat
  OBVIOUS
<1>2. Append(s.word, x) \in Seq(T)
  BY <1>1
<1> QED
  BY <1>1, <1>2

LEMMA SentenceCalms ==
  ASSUME NEW T, NEW s \in [word : T, error : Nat, calm : Nat]
  PROVE  /\ [s EXCEPT !.calm = @ + 1] \in [word : T, error : Nat, calm : Nat]
         /\ [s EXCEPT !.calm = @ + 1].calm = s.calm + 1
  OBVIOUS

LEMMA ErrorStep ==
  ASSUME StackInv, ErrorInv, Engine, UNCHANGED parser
  PROVE  ErrorInv'
<1>0. /\ sentence \in [word : Seq(Tokens), error : Nat, calm : Nat] /\ yy.yyerrcnt \in Int
      /\ Tokens' = Tokens
  BY DEF ErrorInv, Tokens
<1>a. ASSUME yy' = Idle, sentence' = sentence
      PROVE  ErrorInv'
  BY <1>0, <1>a DEF ErrorInv, Idle, Stack
<1>1. CASE ParseToken
  <2>1. CASE Stack = <<>>
    <3>1. yy'.yyerrcnt = -1
      BY <1>1, <2>1 DEF ParseToken
    <3>2. PICK major \in Tokens : sentence' = [NewSentence EXCEPT !.word = <<major>>]
      BY <1>1, <2>1 DEF ParseToken
    <3>3. sentence' = [word |-> <<major>>, error |-> 0, calm |-> 3]
      BY <3>2 DEF NewSentence
    <3> QED
      BY <1>0, <3>1, <3>3 DEF ErrorInv
  <2>2. CASE Stack # <<>>
    <3>1. PICK major \in Tokens : yy' = yy /\ sentence' = [sentence EXCEPT !.word = Append(@, major)]
      BY <1>1, <2>2 DEF ParseToken
    <3>2. /\ sentence' \in [word : Seq(Tokens), error : Nat, calm : Nat]
          /\ sentence'.calm = sentence.calm
      BY <1>0, <3>1, SentenceGoesOn
    <3> QED
      BY <1>0, <3>1, <3>2 DEF ErrorInv, Stack
  <2> QED
    BY <2>1, <2>2
<1>2. CASE ShiftToken
  <2>1. CASE Full(Stack)
    BY <1>2, <2>1, <1>a DEF ShiftToken
  <2>2. CASE ~Full(Stack)
    <3>a. /\ yy'.yyerrcnt = yy.yyerrcnt - 1
          /\ sentence' = [sentence EXCEPT !.calm = @ + 1]
      BY <1>2, <2>2 DEF ShiftToken
    <3>1. /\ yy'.yyerrcnt = yy.yyerrcnt - 1
          /\ sentence' \in [word : Seq(Tokens), error : Nat, calm : Nat]
          /\ sentence'.calm = sentence.calm + 1
      BY <1>0, <3>a, SentenceCalms
    <3>2. sentence.calm >= 3 \/ sentence.calm + yy.yyerrcnt >= 3
      BY <1>2 DEF ShiftToken, StackInv, ErrorInv
    <3> QED
      BY <1>0, <3>1, <3>2 DEF ErrorInv
  <2> QED
    BY <2>1, <2>2
<1>3. CASE ReduceRule
  <2>1. PICK s : yy' = [yy EXCEPT !.stack = s] \/ yy' = Idle
    BY <1>3 DEF ReduceRule
  <2>2. sentence' = sentence
    BY <1>3 DEF ReduceRule
  <2>3. CASE yy' = [yy EXCEPT !.stack = s]
    <3>1. yy'.yyerrcnt = yy.yyerrcnt
      BY <2>3
    <3>2. sentence.calm >= 3 \/ sentence.calm + yy.yyerrcnt >= 3
      BY <1>3 DEF ReduceRule, StackInv, ErrorInv
    <3> QED
      BY <1>0, <2>2, <3>1, <3>2 DEF ErrorInv
  <2> QED
    BY <2>1, <2>2, <2>3, <1>a
<1>4. CASE SyntaxError
  BY <1>4, DiscardCounts, ErrorKeeps DEF SyntaxError
<1>5. CASE DiscardToken
  BY <1>5, DiscardCounts, ErrorKeeps DEF DiscardToken
<1>6. CASE Recover
  <2>1. PICK s :
          \/ DiscardAndFail(Stack, TRUE)
          \/ yy' = [stack |-> s, yyerrcnt |-> 3]
          \/ yy' = Idle
    BY <1>6 DEF Recover
  <2>2. Looping /\ Report
    BY <1>6 DEF Recover
  <2>3. yy' = Idle \/ yy'.yyerrcnt = 3
    <3>1. DiscardAndFail(Stack, TRUE) => yy' = Idle \/ yy'.yyerrcnt = 3
      BY DiscardCounts
    <3>2. yy' = [stack |-> s, yyerrcnt |-> 3] => yy'.yyerrcnt = 3
      OBVIOUS
    <3> QED
      BY <2>1, <3>1, <3>2
  <2> QED
    BY <2>2, <2>3, ErrorKeeps
<1>7. CASE ParseFree
  BY <1>0, <1>7 DEF ParseFree, ErrorInv, Idle, Stack
<1> QED
  BY <1>1, <1>2, <1>3, <1>4, <1>5, <1>6, <1>7 DEF Engine, ParseLoop

(***************************************************************************)
(* A step that reports comes at the right time, and any other adds no      *)
(* report.                                                                 *)
(***************************************************************************)
LEMMA ReportStep ==
  ASSUME StackInv, ErrorInv, Engine, hooks' # hooks, "error" \in hooks'
  PROVE  sentence.calm >= 3 \/ "error" \in hooks
<1>a. ASSUME Looping, Report, NEW more, hooks' = hooks \cup Reported \cup more, "error" \notin more
      PROVE  sentence.calm >= 3 \/ "error" \in hooks
  BY <1>a, ReportIs DEF Reported
<1>1. CASE ParseToken
  BY <1>1 DEF ParseToken
<1>2. CASE ShiftToken
  BY <1>2 DEF ShiftToken
<1>3. CASE ReduceRule
  <2>1. hooks' \in {hooks, hooks \cup {"overflow"}, hooks \cup {"accept"}}
    BY <1>3 DEF ReduceRule
  <2> QED
    BY <2>1
<1>4. CASE SyntaxError
  <2>1. "error" \notin Failed(call.major = 0)
    BY DEF Failed
  <2> QED
    BY <1>4, <2>1, <1>a DEF SyntaxError
<1>5. CASE DiscardToken
  <2>1. hooks' = hooks \cup Reported \cup {}
    BY <1>5 DEF DiscardToken
  <2> QED
    BY <1>5, <2>1, <1>a DEF DiscardToken
<1>6. CASE Recover
  <2>1. PICK more \in {Failed(TRUE), {}, {"overflow"}} : hooks' = hooks \cup Reported \cup more
    BY <1>6 DEF Recover
  <2>2. "error" \notin more
    BY DEF Failed
  <2> QED
    BY <1>6, <2>1, <2>2, <1>a DEF Recover
<1>7. CASE ParseFree
  BY <1>7 DEF ParseFree
<1> QED
  BY <1>1, <1>2, <1>3, <1>4, <1>5, <1>6, <1>7 DEF Engine, ParseLoop

LEMMA EngineInvariant == EngineSpec => [](StackInv /\ ErrorInv)
<1>1. StackInv /\ ErrorInv /\ [Engine /\ UNCHANGED parser]_<<engine, parser>>
        => (StackInv /\ ErrorInv)'
  <2> SUFFICES ASSUME StackInv, ErrorInv, [Engine /\ UNCHANGED parser]_<<engine, parser>>
               PROVE  (StackInv /\ ErrorInv)'
    OBVIOUS
  <2>1. CASE Engine /\ UNCHANGED parser
    BY <2>1, StackStep, ErrorStep
  <2>2. CASE UNCHANGED <<engine, parser>>
    BY <2>2 DEF engine, StackInv, ErrorInv, TablesOK, Stack, Looping, Tokens
  <2> QED
    BY <2>1, <2>2
<1> QED
  BY <1>1, EngineInitial, PTL DEF EngineSpec

(***************************************************************************)
(* The stack of a parser never holds more than its depth, whatever tables  *)
(* it runs on and whatever the host passes: no entry is written behind     *)
(* yystack (the first part of AssertsHold).                                *)
(***************************************************************************)
THEOREM StackBounded == EngineSpec => [](Len(Stack) <= StackDepth)
<1>1. StackInv => Len(Stack) <= StackDepth
  BY DEF StackInv
<1> QED
  BY <1>1, EngineInvariant, PTL

(***************************************************************************)
(* Two reports of syntax errors have three shifted tokens between them, in *)
(* every parser that lempar.c is made into.                                *)
(***************************************************************************)
THEOREM ReportsAreSpaced == EngineSpec => ErrorsSpaced
<1>1. StackInv /\ ErrorInv /\ [Engine /\ UNCHANGED parser]_<<engine, parser>>
        => [hooks' # hooks /\ "error" \in hooks'
              => sentence.calm >= 3 \/ "error" \in hooks]_engine
  BY ReportStep DEF engine
<1> QED
  BY <1>1, EngineInvariant, PTL DEF EngineSpec, ErrorsSpaced

-----------------------------------------------------------------------------
(* Where the values of the tokens are. *)

Values(entries) == UNION {entries[i].minor : i \in DOMAIN entries}

Apart(entries) ==
  \A i, j \in DOMAIN entries : i # j => entries[i].minor \cap entries[j].minor = {}

Count(P) == IF P THEN 1 ELSE 0

Gone == {l[1] : l \in lost}

\* How many places have the value of t.
Shares(t) ==
  Count(t \in Values(Stack)) + destroyed[t] + Count(t \in call.minor)
  + Count(t \in handed) + Count(t \in Gone)

TokensInv ==
  /\ passed \in 0..MaxTokens
  /\ destroyed \in [1..MaxTokens -> {0, 1}]
  /\ lost \subseteq (1..passed) \X {"leaked", "spilled"}
  /\ \A l, m \in lost : l[1] = m[1] => l = m
  /\ Apart(Stack)
  /\ Values(Stack) \cup call.minor \cup handed \subseteq 1..passed
  /\ \A t \in 1..MaxTokens : t > passed => destroyed[t] = 0
  /\ \A t \in 1..passed : Shares(t) = 1

LEMMA OneOrNone ==
  ASSUME NEW S, \A x, y \in S : x = y
  PROVE  Cardinality(S) = Count(S # {})
<1>1. CASE S = {}
  BY <1>1, FS_EmptySet DEF Count
<1>2. CASE S # {}
  <2>1. PICK x : x \in S
    BY <1>2
  <2>2. S = {x}
    BY <2>1
  <2> QED
    BY <1>2, <2>2, FS_Singleton DEF Count
<1> QED
  BY <1>1, <1>2

(***************************************************************************)
(* yy_destructor for entries whose values are apart: each value that does  *)
(* not leak is destroyed once more.                                        *)
(***************************************************************************)
LEMMA DestroyIs ==
  ASSUME NEW entries, Apart(entries), destroyed \in [1..MaxTokens -> {0, 1}], Destroy(entries)
  PROVE  destroyed' = [t \in 1..MaxTokens |->
                         destroyed[t] + Count(t \in Values(entries) \ Leaked(entries))]
<1>1. ASSUME NEW t
      PROVE  Cardinality({i \in DOMAIN entries :
                 t \in entries[i].minor /\ entries[i].major \in parser.destructible})
             = Count(t \in Values(entries) \ Leaked(entries))
  <2> DEFINE S == {i \in DOMAIN entries :
                     t \in entries[i].minor /\ entries[i].major \in parser.destructible}
  <2>1. \A x, y \in S : x = y
    BY DEF Apart
  <2>2. Cardinality(S) = Count(S # {})
    <3> HIDE DEF S
    <3> QED
      BY <2>1, OneOrNone
  <2>3. ASSUME NEW i \in S
        PROVE  t \in Values(entries) \ Leaked(entries)
    BY DEF Values, Leaked, Apart
  <2>4. ASSUME t \in Values(entries) \ Leaked(entries)
        PROVE  \E i \in S : TRUE
    BY <2>4 DEF Values, Leaked
  <2>5. S # {} <=> t \in Values(entries) \ Leaked(entries)
    <3> HIDE DEF S
    <3> QED
      BY <2>3, <2>4
  <2> QED
    BY <2>2, <2>5 DEF Count
<1>2. DOMAIN destroyed = 1..MaxTokens
  OBVIOUS
<1> QED
  BY <1>1, <1>2 DEF Destroy

LEMMA LeakedIn ==
  ASSUME NEW entries
  PROVE  Leaked(entries) \subseteq Values(entries)
  BY DEF Leaked, Values

(***************************************************************************)
(* Values of longer and shorter stacks.                                    *)
(***************************************************************************)
LEMMA AppendValues ==
  ASSUME NEW s, IsSequence(s), Apart(s), NEW e, e.minor \cap Values(s) = {}
  PROVE  /\ Values(Append(s, e)) = Values(s) \cup e.minor
         /\ Apart(Append(s, e))
<1> DEFINE a == Append(s, e)
           n == Len(s)
<1>1. /\ IsSequence(a) /\ Len(a) = n + 1 /\ a[n + 1] = e
      /\ \A j \in 1..n : a[j] = s[j]
      /\ n \in Nat /\ DOMAIN s = 1..n
  BY AppendIs, LenIs
<1> HIDE DEF a, n
<1>2. DOMAIN a = 1..n + 1
  BY <1>1, LenIs
<1>3. \A i \in 1..n + 1 : i \in 1..n \/ i = n + 1
  BY <1>1
<1>4. 1..n \subseteq 1..n + 1 /\ n + 1 \in 1..n + 1 /\ n + 1 \notin 1..n
  BY <1>1
<1>5. Values(a) = Values(s) \cup e.minor
  <2>1. ASSUME NEW x \in Values(a)
        PROVE  x \in Values(s) \cup e.minor
    <3>1. PICK i \in 1..n + 1 : x \in a[i].minor
      BY <1>2 DEF Values
    <3> QED
      BY <1>1, <1>3, <3>1 DEF Values
  <2>2. ASSUME NEW x \in Values(s)
        PROVE  x \in Values(a)
    <3>1. PICK i \in 1..n : x \in s[i].minor
      BY <1>1 DEF Values
    <3> QED
      BY <1>1, <1>2, <1>4, <3>1 DEF Values
  <2>3. ASSUME NEW x \in e.minor
        PROVE  x \in Values(a)
    BY <1>1, <1>2, <1>4, <2>3 DEF Values
  <2> QED
    BY <2>1, <2>2, <2>3
<1>6. Apart(a)
  <2>1. \A i \in 1..n : s[i].minor \cap e.minor = {}
    BY <1>1 DEF Values
  <2>2. \A i, j \in 1..n : i # j => s[i].minor \cap s[j].minor = {}
    BY <1>1 DEF Apart
  <2> SUFFICES ASSUME NEW i \in 1..n + 1, NEW j \in 1..n + 1, i # j
               PROVE  a[i].minor \cap a[j].minor = {}
    BY <1>2 DEF Apart
  <2>3. CASE i \in 1..n /\ j \in 1..n
    BY <1>1, <2>2, <2>3
  <2>4. CASE i \in 1..n /\ j = n + 1
    BY <1>1, <2>1, <2>4
  <2>5. CASE i = n + 1 /\ j \in 1..n
    BY <1>1, <2>1, <2>5
  <2> QED
    BY <1>3, <2>3, <2>4, <2>5
<1> QED
  BY <1>5, <1>6 DEF a

LEMMA ConcatValues ==
  ASSUME NEW s, IsSequence(s), Apart(s), NEW u, IsSequence(u), Apart(u),
         Values(s) \cap Values(u) = {}
  PROVE  /\ Values(s \o u) = Values(s) \cup Values(u)
         /\ Leaked(s \o u) = Leaked(s) \cup Leaked(u)
         /\ Apart(s \o u)
<1> DEFINE c == s \o u
           n == Len(s)
           m == Len(u)
<1>1. /\ n \in Nat /\ DOMAIN s = 1..n /\ m \in Nat /\ DOMAIN u = 1..m
      /\ IsSequence(c) /\ Len(c) = n + m
      /\ \A i \in 1..n : c[i] = s[i]
      /\ \A i \in 1..m : c[n + i] = u[i]
  BY LenIs, ConcatIs
<1> HIDE DEF c, n, m
<1>2. DOMAIN c = 1..n + m
  BY <1>1, LenIs
<1>3. ASSUME NEW i \in 1..n + m
      PROVE  i \in 1..n \/ \E k \in 1..m : i = n + k
  <2>1. CASE i > n
    <3>1. i - n \in 1..m /\ i = n + (i - n)
      BY <1>1, <2>1
    <3> QED
      BY <3>1
  <2>2. CASE ~(i > n)
    BY <1>1, <2>2
  <2> QED
    BY <2>1, <2>2
<1>4. /\ \A i \in 1..n : i \in 1..n + m
      /\ \A k \in 1..m : n + k \in 1..n + m /\ n + k \notin 1..n
  BY <1>1
<1>5. \A i \in DOMAIN c : \/ i \in DOMAIN s /\ c[i] = s[i]
                          \/ \E k \in DOMAIN u : i = n + k /\ c[i] = u[k]
  <2> SUFFICES ASSUME NEW i \in DOMAIN c
               PROVE  \/ i \in DOMAIN s /\ c[i] = s[i]
                      \/ \E k \in DOMAIN u : i = n + k /\ c[i] = u[k]
    OBVIOUS
  <2>1. CASE i \in 1..n
    BY <1>1, <2>1
  <2>2. ASSUME NEW k \in 1..m, i = n + k
        PROVE  k \in DOMAIN u /\ c[i] = u[k]
    BY <1>1, <2>2
  <2>3. i \in 1..n \/ \E k \in 1..m : i = n + k
    BY <1>2, <1>3
  <2>4. CASE \E k \in 1..m : i = n + k
    BY <2>2, <2>4
  <2> QED
    BY <2>1, <2>3, <2>4
<1>6. /\ \A i \in DOMAIN s : i \in DOMAIN c /\ c[i] = s[i]
      /\ \A k \in DOMAIN u : n + k \in DOMAIN c /\ c[n + k] = u[k]
  BY <1>1, <1>2, <1>4
<1>7. Values(c) = Values(s) \cup Values(u)
  BY <1>5, <1>6 DEF Values
<1>8. Leaked(c) = Leaked(s) \cup Leaked(u)
  BY <1>5, <1>6 DEF Leaked
<1>9. Apart(c)
  <2>1. \A i \in DOMAIN s, k \in DOMAIN u : s[i].minor \cap u[k].minor = {}
    BY DEF Values
  <2> SUFFICES ASSUME NEW i \in DOMAIN c, NEW j \in DOMAIN c, i # j
               PROVE  c[i].minor \cap c[j].minor = {}
    BY DEF Apart
  <2>2. CASE i \in DOMAIN s /\ c[i] = s[i] /\ j \in DOMAIN s /\ c[j] = s[j]
    BY <2>2 DEF Apart
  <2>3. ASSUME i \in DOMAIN s, c[i] = s[i], NEW k \in DOMAIN u, c[j] = u[k]
        PROVE  c[i].minor \cap c[j].minor = {}
    BY <2>1, <2>3
  <2>4. ASSUME j \in DOMAIN s, c[j] = s[j], NEW k \in DOMAIN u, c[i] = u[k]
        PROVE  c[i].minor \cap c[j].minor = {}
    BY <2>1, <2>4
  <2>5. ASSUME NEW k \in DOMAIN u, NEW l \in DOMAIN u, c[i] = u[k], c[j] = u[l],
               i = n + k, j = n + l
        PROVE  c[i].minor \cap c[j].minor = {}
    <3>1. k # l
      BY <2>5
    <3> QED
      BY <2>5, <3>1 DEF Apart
  <2> QED
    BY <1>5, <2>2, <2>3, <2>4, <2>5
<1> QED
  BY <1>7, <1>8, <1>9 DEF c

(***************************************************************************)
(* The values below a place and those above it.                            *)
(***************************************************************************)
LEMMA SplitValues ==
  ASSUME NEW s, IsSequence(s), Apart(s), NEW n \in Nat, n <= Len(s)
  PROVE  LET below == SubSeq(s, 1, n)
             above == SubSeq(s, n + 1, Len(s))
         IN  /\ Apart(below) /\ Apart(above)
             /\ Values(s) = Values(below) \cup Values(above)
             /\ Values(below) \cap Values(above) = {}
             /\ Leaked(s) = Leaked(below) \cup Leaked(above)
<1> DEFINE below == SubSeq(s, 1, n)
           above == SubSeq(s, n + 1, Len(s))
           l == Len(s)
<1>1. /\ l \in Nat /\ DOMAIN s = 1..l /\ n <= l
      /\ IsSequence(below) /\ Len(below) = n
      /\ \A i \in 1..n : below[i] = s[i]
      /\ IsSequence(above) /\ Len(above) = l - n
      /\ \A i \in 1..l - n : above[i] = s[n + i]
  <2>1. l \in Nat /\ DOMAIN s = 1..l /\ n <= l
    BY LenIs
  <2>2. /\ IsSequence(below) /\ Len(below) = IF n > 0 THEN n ELSE 0
        /\ \A i \in 1..n : below[i] = s[i]
    BY BelowIs
  <2>3. /\ IsSequence(above) /\ Len(above) = l - n
        /\ \A i \in 1..l - n : above[i] = s[n + i]
    BY AboveIs
  <2> HIDE DEF below, above, l
  <2> QED
    BY <2>1, <2>2, <2>3
<1> HIDE DEF below, above, l
<1>2. DOMAIN below = 1..n /\ DOMAIN above = 1..l - n
  BY <1>1, LenIs
<1>3. ASSUME NEW i \in 1..l
      PROVE  i \in 1..n \/ \E k \in 1..l - n : i = n + k
  <2>1. CASE i > n
    <3>1. i - n \in 1..l - n /\ i = n + (i - n)
      BY <1>1, <2>1
    <3> QED
      BY <3>1
  <2>2. CASE ~(i > n)
    BY <1>1, <2>2
  <2> QED
    BY <2>1, <2>2
<1>4. /\ \A i \in 1..n : i \in 1..l
      /\ \A k \in 1..l - n : n + k \in 1..l /\ n + k \notin 1..n
      /\ \A j, k \in 1..l - n : j # k => n + j # n + k
  BY <1>1
<1>5. \A i \in DOMAIN s : \/ i \in DOMAIN below /\ below[i] = s[i]
                          \/ \E k \in DOMAIN above : s[i] = above[k]
  <2> SUFFICES ASSUME NEW i \in DOMAIN s
               PROVE  \/ i \in DOMAIN below /\ below[i] = s[i]
                      \/ \E k \in DOMAIN above : s[i] = above[k]
    OBVIOUS
  <2>1. CASE i \in 1..n
    BY <1>1, <1>2, <2>1
  <2>2. ASSUME NEW k \in 1..l - n, i = n + k
        PROVE  k \in DOMAIN above /\ s[i] = above[k]
    BY <1>1, <1>2, <2>2
  <2>3. i \in 1..n \/ \E k \in 1..l - n : i = n + k
    BY <1>1, <1>3
  <2>4. CASE \E k \in 1..l - n : i = n + k
    BY <2>2, <2>4
  <2> QED
    BY <2>1, <2>3, <2>4
<1>6. /\ \A i \in DOMAIN below : i \in DOMAIN s /\ below[i] = s[i]
      /\ \A k \in DOMAIN above : /\ n + k \in DOMAIN s /\ above[k] = s[n + k]
                                 /\ n + k \notin DOMAIN below
      /\ \A j, k \in DOMAIN above : j # k => n + j # n + k
  BY <1>1, <1>2, <1>4
<1>7. Values(s) = Values(below) \cup Values(above)
  BY <1>5, <1>6 DEF Values
<1>8. Leaked(s) = Leaked(below) \cup Leaked(above)
  BY <1>5, <1>6 DEF Leaked
<1>9. Apart(below) /\ Apart(above)
  BY <1>6 DEF Apart
<1>10. Values(below) \cap Values(above) = {}
  <2> SUFFICES ASSUME NEW i \in DOMAIN below, NEW k \in DOMAIN above
               PROVE  below[i].minor \cap above[k].minor = {}
    BY DEF Values
  <2>1. i # n + k
    BY <1>6
  <2> QED
    BY <1>6, <2>1 DEF Apart
<1> QED
  BY <1>7, <1>8, <1>9, <1>10 DEF below, above

(***************************************************************************)
(* A step that takes the values on the stack, under way and handed on to   *)
(* their next place, each to one.                                          *)
(***************************************************************************)
Held(t) == Count(t \in Values(Stack)) + Count(t \in call.minor) + Count(t \in handed)

LEMMA MovedOne ==
  ASSUME NEW a \in {0, 1}, NEW b \in {0, 1}, NEW c \in {0, 1}, NEW d \in {0, 1}, NEW g \in {0, 1},
         a + d + b + c + g = 1,
         NEW a1 \in {0, 1}, NEW b1 \in {0, 1}, NEW c1 \in {0, 1},
         NEW x \in {0, 1}, NEW l \in {0, 1}, NEW s \in {0, 1},
         a + b + c = a1 + b1 + c1 + x + l + s
  PROVE  /\ d + x \in {0, 1}
         /\ l = 1 => g = 0 /\ s = 0
         /\ s = 1 => g = 0 /\ l = 0
         /\ a1 + (d + x) + b1 + c1 + (g + l + s) = 1
  OBVIOUS

LEMMA Moved ==
  ASSUME TokensInv, NEW D, NEW L, NEW S,
         passed' = passed, Apart(Stack'), Lose(L, S),
         destroyed' = [t \in 1..MaxTokens |-> destroyed[t] + Count(t \in D)],
         \A t : Held(t) = Held(t)' + Count(t \in D) + Count(t \in L) + Count(t \in S)
  PROVE  TokensInv'
<1>1. ASSUME NEW t
      PROVE  /\ Count(t \in Values(Stack)) \in {0, 1} /\ Count(t \in call.minor) \in {0, 1}
             /\ Count(t \in handed) \in {0, 1} /\ Count(t \in Gone) \in {0, 1}
             /\ Count(t \in Values(Stack)') \in {0, 1} /\ Count(t \in call'.minor) \in {0, 1}
             /\ Count(t \in handed') \in {0, 1} /\ Count(t \in D) \in {0, 1}
             /\ Count(t \in L) \in {0, 1} /\ Count(t \in S) \in {0, 1}
  BY DEF Count
<1>2. passed \in 0..MaxTokens /\ MaxTokens \in Nat
  BY LemparAssumption DEF TokensInv
<1>3. ASSUME NEW t \in 1..passed
      PROVE  /\ destroyed[t] + Count(t \in D) \in {0, 1}
             /\ t \in L => t \notin Gone /\ t \notin S
             /\ t \in S => t \notin Gone /\ t \notin L
             /\ Count(t \in Values(Stack)') + (destroyed[t] + Count(t \in D))
                  + Count(t \in call'.minor) + Count(t \in handed')
                  + (Count(t \in Gone) + Count(t \in L) + Count(t \in S)) = 1
  <2>1. /\ Shares(t) = 1 /\ destroyed[t] \in {0, 1}
    BY <1>2 DEF TokensInv
  <2>2. Count(t \in Values(Stack)) + destroyed[t] + Count(t \in call.minor)
          + Count(t \in handed) + Count(t \in Gone) = 1
    BY <2>1 DEF Shares
  <2>3. Count(t \in Values(Stack)) + Count(t \in call.minor) + Count(t \in handed)
          = Count(t \in Values(Stack)') + Count(t \in call'.minor) + Count(t \in handed')
            + Count(t \in D) + Count(t \in L) + Count(t \in S)
    BY DEF Held
  <2>4. /\ Count(t \in L) = 1 <=> t \in L
        /\ Count(t \in S) = 1 <=> t \in S
        /\ Count(t \in Gone) = 1 <=> t \in Gone
    BY DEF Count
  <2> HIDE DEF Count, Gone, Values
  <2> QED
    BY <1>1, <2>1, <2>2, <2>3, <2>4, MovedOne
<1>4. ASSUME NEW t, t \notin 1..passed
      PROVE  /\ t \notin Values(Stack)' /\ t \notin call'.minor /\ t \notin handed'
             /\ t \notin D /\ t \notin L /\ t \notin S
  <2>1. /\ t \notin Values(Stack) /\ t \notin call.minor /\ t \notin handed
    BY <1>4 DEF TokensInv
  <2>2. Held(t) = 0
    BY <2>1 DEF Held, Count
  <2>3. Count(t \in Values(Stack)') + Count(t \in call'.minor) + Count(t \in handed')
            + Count(t \in D) + Count(t \in L) + Count(t \in S) = 0
    BY <2>2 DEF Held
  <2>4. /\ Count(t \in Values(Stack)') = 0 /\ Count(t \in call'.minor) = 0 /\ Count(t \in handed') = 0
        /\ Count(t \in D) = 0 /\ Count(t \in L) = 0 /\ Count(t \in S) = 0
    BY <1>1, <2>3
  <2> QED
    BY <2>4 DEF Count
<1>5. destroyed' \in [1..MaxTokens -> {0, 1}] /\ \A t \in 1..MaxTokens : t > passed => destroyed'[t] = 0
  <2>1. ASSUME NEW t \in 1..MaxTokens
        PROVE  /\ destroyed[t] + Count(t \in D) \in {0, 1}
               /\ t > passed => destroyed[t] + Count(t \in D) = 0
    <3>1. CASE t \in 1..passed
      BY <1>2, <1>3, <3>1
    <3>2. CASE t \notin 1..passed
      <4>1. destroyed[t] = 0
        BY <1>2, <3>2 DEF TokensInv
      <4>2. Count(t \in D) = 0
        BY <1>4, <3>2 DEF Count
      <4> QED
        BY <4>1, <4>2
    <3> QED
      BY <3>1, <3>2
  <2> QED
    BY <2>1
<1>6. lost' = lost \cup (L \X {"leaked"}) \cup (S \X {"spilled"})
  BY DEF Lose
<1>7. lost' \subseteq (1..passed) \X {"leaked", "spilled"}
  BY <1>4, <1>6 DEF TokensInv
<1>8. \A l, m \in lost' : l[1] = m[1] => l = m
  <2>1. \A l \in lost : l[1] \in Gone /\ l[1] \in 1..passed
    BY DEF Gone, TokensInv
  <2>2. \A l \in L \X {"leaked"} : l[1] \in L /\ l = <<l[1], "leaked">> /\ l[1] \in 1..passed
    BY <1>4
  <2>3. \A l \in S \X {"spilled"} : l[1] \in S /\ l = <<l[1], "spilled">> /\ l[1] \in 1..passed
    BY <1>4
  <2>4. \A l, m \in lost : l[1] = m[1] => l = m
    BY DEF TokensInv
  <2>5. /\ \A l \in L \X {"leaked"} : l[1] \notin Gone /\ l[1] \notin S
        /\ \A l \in S \X {"spilled"} : l[1] \notin Gone /\ l[1] \notin L
    BY <1>3, <2>2, <2>3
  <2> SUFFICES ASSUME NEW l \in lost', NEW m \in lost', l[1] = m[1]
               PROVE  l = m
    OBVIOUS
  <2> HIDE DEF Gone
  <2>a. m \in lost \/ m \in L \X {"leaked"} \/ m \in S \X {"spilled"}
    BY <1>6
  <2>6. CASE l \in lost
    BY <2>1, <2>4, <2>5, <2>6, <2>a
  <2>7. CASE l \in L \X {"leaked"}
    BY <2>1, <2>2, <2>3, <2>5, <2>7, <2>a
  <2>8. CASE l \in S \X {"spilled"}
    BY <2>1, <2>2, <2>3, <2>5, <2>8, <2>a
  <2>9. l \in lost \/ l \in L \X {"leaked"} \/ l \in S \X {"spilled"}
    BY <1>6
  <2> QED
    BY <2>6, <2>7, <2>8, <2>9
<1>9. \A t : Count(t \in Gone') = Count(t \in Gone) + Count(t \in L) + Count(t \in S)
  <2> SUFFICES ASSUME NEW t
               PROVE  Count(t \in Gone') = Count(t \in Gone) + Count(t \in L) + Count(t \in S)
    OBVIOUS
  <2>1. t \in Gone' <=> t \in Gone \/ t \in L \/ t \in S
    <3>1. ASSUME t \in Gone'
          PROVE  t \in Gone \/ t \in L \/ t \in S
      <4>1. PICK l \in lost' : l[1] = t
        BY <3>1 DEF Gone
      <4>2. CASE l \in lost
        BY <4>1, <4>2 DEF Gone
      <4>3. CASE l \in (L \X {"leaked"}) \cup (S \X {"spilled"})
        BY <4>1, <4>3
      <4> QED
        BY <1>6, <4>1, <4>2, <4>3
    <3>2. ASSUME t \in Gone
          PROVE  t \in Gone'
      BY <1>6, <3>2 DEF Gone
    <3>3. ASSUME NEW w, <<t, w>> \in lost'
          PROVE  t \in Gone'
      <4>1. <<t, w>>[1] = t
        OBVIOUS
      <4> QED
        BY <3>3, <4>1 DEF Gone
    <3>4. /\ t \in L => <<t, "leaked">> \in lost'
          /\ t \in S => <<t, "spilled">> \in lost'
      BY <1>6
    <3> QED
      BY <3>1, <3>2, <3>3, <3>4
  <2>3. t \in Gone => t \in 1..passed
    BY DEF Gone, TokensInv
  <2>4. t \in L \/ t \in S => t \in 1..passed
    BY <1>4
  <2>5. ~(t \in Gone /\ t \in L) /\ ~(t \in Gone /\ t \in S) /\ ~(t \in L /\ t \in S)
    BY <1>3, <2>3, <2>4
  <2> QED
    BY <2>1, <2>5 DEF Count
<1>10. \A t \in 1..passed : Shares(t)' = 1
  <2> SUFFICES ASSUME NEW t \in 1..passed
               PROVE  Shares(t)' = 1
    OBVIOUS
  <2>1. destroyed'[t] = destroyed[t] + Count(t \in D)
    BY <1>2
  <2> QED
    BY <1>3, <1>9, <2>1 DEF Shares
<1>11. (Values(Stack) \cup call.minor \cup handed)' \subseteq 1..passed
  BY <1>4
<1> QED
  BY <1>2, <1>5, <1>7, <1>8, <1>10, <1>11 DEF TokensInv

(***************************************************************************)
(* No value is in two of the places it can leave.                          *)
(***************************************************************************)
LEMMA HeldApart ==
  ASSUME TokensInv
  PROVE  /\ Values(Stack) \cap call.minor = {} /\ Values(Stack) \cap handed = {}
         /\ call.minor \cap handed = {}
<1>1. ASSUME NEW t \in 1..passed
      PROVE  /\ ~(t \in Values(Stack) /\ t \in call.minor)
             /\ ~(t \in Values(Stack) /\ t \in handed)
             /\ ~(t \in call.minor /\ t \in handed)
  <2>1. Shares(t) = 1 /\ destroyed[t] \in {0, 1}
    BY LemparAssumption DEF TokensInv
  <2>2. Count(t \in Gone) \in {0, 1}
    BY DEF Count
  <2> HIDE DEF Values, Gone
  <2> QED
    BY <2>1, <2>2 DEF Shares, Count
<1>2. Values(Stack) \subseteq 1..passed /\ call.minor \subseteq 1..passed
  BY DEF TokensInv
<1> QED
  BY <1>1, <1>2

LEMMA Divided ==
  ASSUME NEW X, NEW L, L \subseteq X, NEW t
  PROVE  Count(t \in X) = Count(t \in X \ L) + Count(t \in L)
  BY DEF Count

LEMMA Joined ==
  ASSUME NEW X, NEW Y, X \cap Y = {}, NEW t
  PROVE  Count(t \in X \cup Y) = Count(t \in X) + Count(t \in Y)
  BY DEF Count

LEMMA NoValues == Values(<<>>) = {} /\ Apart(<<>>) /\ Leaked(<<>>) = {}
<1>1. DOMAIN <<>> = {}
  OBVIOUS
<1> QED
  BY <1>1 DEF Values, Apart, Leaked

LEMMA OneValue ==
  ASSUME NEW e
  PROVE  Values(<<e>>) = e.minor /\ Apart(<<e>>)
<1>1. DOMAIN <<e>> = {1} /\ <<e>>[1] = e
  OBVIOUS
<1> QED
  BY <1>1 DEF Values, Apart

LEMMA IdleIs ==
  ASSUME yy' = Idle
  PROVE  Stack' = <<>> /\ Values(Stack') = {} /\ Apart(Stack')
<1>1. Stack' = <<>>
  BY DEF Idle, Stack
<1> QED
  BY <1>1, NoValues

LEMMA NoCallIs == NoCall.minor = {}
  BY DEF NoCall

(***************************************************************************)
(* The token under way is discarded, with the stack if the parse fails.    *)
(***************************************************************************)
LEMMA DiscardMoves ==
  ASSUME StackInv, TokensInv, NEW fails \in BOOLEAN, DiscardAndFail(Stack, fails),
         passed' = passed, handed' = handed
  PROVE  TokensInv'
<1> DEFINE s == IF fails THEN Stack ELSE <<>>
           e == Entry(0, call.major, call.minor)
           dying == s \o <<e>>
           L == Leaked(dying)
           D == Values(dying) \ L
<1>1. /\ Destroy(dying) /\ Lose(L, {}) /\ call' = NoCall
      /\ yy' = IF fails THEN Idle ELSE [stack |-> Stack, yyerrcnt |-> 3]
  BY DEF DiscardAndFail
<1>2. e.minor = call.minor
  BY DEF Entry
<1>3. IsSequence(s) /\ Apart(s) /\ Values(s) \subseteq Values(Stack)
  BY NoEntry, NoValues DEF StackInv, TokensInv
<1>4. IsSequence(<<e>>) /\ Apart(<<e>>) /\ Values(<<e>>) = call.minor
  BY <1>2, OneEntry, OneValue
<1>5. Values(s) \cap Values(<<e>>) = {}
  BY <1>3, <1>4, HeldApart
<1>6. Values(dying) = Values(s) \cup call.minor /\ Apart(dying)
  BY <1>3, <1>4, <1>5, ConcatValues
<1>7. L \subseteq Values(dying)
  BY LeakedIn
<1>8. destroyed' = [t \in 1..MaxTokens |-> destroyed[t] + Count(t \in D)]
  BY <1>1, <1>6, DestroyIs DEF TokensInv
<1>9. Apart(Stack') /\ Values(Stack') = IF fails THEN {} ELSE Values(Stack)
  <2>1. CASE fails
    BY <1>1, <2>1, IdleIs
  <2>2. CASE ~fails
    <3>1. Stack' = Stack
      BY <1>1, <2>2 DEF Stack
    <3> QED
      BY <2>2, <3>1 DEF TokensInv
  <2> QED
    BY <2>1, <2>2
<1>10. Values(s) = IF fails THEN Values(Stack) ELSE {}
  BY NoValues
<1>11. call'.minor = {}
  BY <1>1, NoCallIs
<1> HIDE DEF s, e, dying, L
<1>12. ASSUME NEW t
       PROVE  Held(t) = Held(t)' + Count(t \in D) + Count(t \in L) + Count(t \in {})
  <2>1. Count(t \in Values(dying)) = Count(t \in D) + Count(t \in L)
    BY <1>7, Divided
  <2>2. Count(t \in Values(dying)) = Count(t \in Values(s)) + Count(t \in call.minor)
    BY <1>4, <1>5, <1>6, Joined
  <2>3. Count(t \in Values(Stack)) = Count(t \in Values(Stack')) + Count(t \in Values(s))
    BY <1>9, <1>10 DEF Count
  <2>4. Count(t \in call'.minor) = 0 /\ Count(t \in {}) = 0
    BY <1>11 DEF Count
  <2>5. \A X : Count(t \in X) \in {0, 1}
    BY DEF Count
  <2> HIDE DEF D
  <2> QED
    BY <2>1, <2>2, <2>3, <2>4, <2>5 DEF Held
<1> HIDE DEF D
<1> QED
  BY <1>1, <1>8, <1>9, <1>12, Moved

(***************************************************************************)
(* The stack is emptied: it is full, or the parser is freed.               *)
(***************************************************************************)
LEMMA EmptyMoves ==
  ASSUME StackInv, TokensInv, Destroy(Stack), Lose(Leaked(Stack), call.minor),
         yy' = Idle, call' = NoCall, passed' = passed, handed' = handed
  PROVE  TokensInv'
<1> DEFINE L == Leaked(Stack)
           D == Values(Stack) \ L
<1>1. destroyed' = [t \in 1..MaxTokens |-> destroyed[t] + Count(t \in D)]
  BY DestroyIs DEF TokensInv
<1>2. L \subseteq Values(Stack)
  BY LeakedIn
<1>3. Values(Stack') = {} /\ Apart(Stack') /\ call'.minor = {}
  BY IdleIs, NoCallIs
<1> HIDE DEF L
<1>4. ASSUME NEW t
      PROVE  Held(t) = Held(t)' + Count(t \in D) + Count(t \in L) + Count(t \in call.minor)
  <2>1. Count(t \in Values(Stack)) = Count(t \in D) + Count(t \in L)
    BY <1>2, Divided
  <2>2. Count(t \in Values(Stack')) = 0 /\ Count(t \in call'.minor) = 0
    BY <1>3 DEF Count
  <2>3. \A X : Count(t \in X) \in {0, 1}
    BY DEF Count
  <2> HIDE DEF D
  <2> QED
    BY <2>1, <2>2, <2>3 DEF Held
<1> HIDE DEF D
<1> QED
  BY <1>1, <1>3, <1>4, Moved DEF L

(***************************************************************************)
(* What a rule takes from the top of the stack: the values its code uses,  *)
(* those it destroys, and those it just pops.                              *)
(***************************************************************************)
Taken(s, I) == UNION {s[i].minor : i \in I}

LEMMA ThreeParts ==
  ASSUME NEW s, Apart(s), NEW U, NEW X, U \cup X \subseteq DOMAIN s, U \cap X = {}, NEW t
  PROVE  Count(t \in Values(s)) = Count(t \in Taken(s, U)) + Count(t \in Taken(s, X))
                                  + Count(t \in Taken(s, DOMAIN s \ (U \cup X)))
<1> DEFINE R == DOMAIN s \ (U \cup X)
<1>1. Values(s) = (Taken(s, U) \cup Taken(s, X)) \cup Taken(s, R)
  BY DEF Values, Taken
<1>2. Taken(s, U) \cap Taken(s, X) = {}
  BY DEF Taken, Apart
<1>3. (Taken(s, U) \cup Taken(s, X)) \cap Taken(s, R) = {}
  BY DEF Taken, Apart
<1> HIDE DEF R
<1>4. Count(t \in Values(s)) = Count(t \in Taken(s, U) \cup Taken(s, X)) + Count(t \in Taken(s, R))
  BY <1>1, <1>3, Joined
<1>5. Count(t \in Taken(s, U) \cup Taken(s, X)) = Count(t \in Taken(s, U)) + Count(t \in Taken(s, X))
  BY <1>2, Joined
<1> QED
  BY <1>4, <1>5 DEF R

LEMMA DyingIs ==
  ASSUME NEW s, IsSequence(s), Apart(s), NEW X, X \subseteq DOMAIN s,
         \A i \in X : s[i].major \in parser.destructible
  PROVE  LET d == [i \in DOMAIN s |-> IF i \in X THEN s[i] ELSE Entry(0, s[i].major, {})]
         IN  IsSequence(d) /\ Apart(d) /\ Values(d) = Taken(s, X) /\ Leaked(d) = {}
<1> DEFINE d == [i \in DOMAIN s |-> IF i \in X THEN s[i] ELSE Entry(0, s[i].major, {})]
<1>1. DOMAIN s = 1..Len(s) /\ Len(s) \in Nat /\ DOMAIN d = DOMAIN s
  BY LenIs
<1>2. IsSequence(d)
  <2>1. d \in [1..Len(s) -> {d[i] : i \in 1..Len(s)}]
    BY <1>1
  <2> HIDE DEF d
  <2>2. d \in Seq({d[i] : i \in 1..Len(s)})
    BY <1>1, <2>1
  <2> QED
    BY <2>2 DEF IsSequence
<1>3. \A i \in DOMAIN s : d[i].minor = IF i \in X THEN s[i].minor ELSE {}
  BY DEF Entry
<1>4. \A i \in X : i \in DOMAIN s /\ d[i] = s[i]
  OBVIOUS
<1> HIDE DEF d
<1>5. Apart(d)
  BY <1>1, <1>3 DEF Apart
<1>6. Values(d) = Taken(s, X)
  BY <1>1, <1>3, <1>4 DEF Values, Taken
<1>7. Leaked(d) = {}
  BY <1>1, <1>3, <1>4 DEF Leaked
<1> QED
  BY <1>2, <1>5, <1>6, <1>7 DEF d

(***************************************************************************)
(* A reduction: the values of the right-hand side go into that of the left *)
(* or to the code of the rule, are destroyed, or lost.                     *)
(***************************************************************************)
LEMMA ReduceMoves ==
  ASSUME StackInv, TokensInv, AssertsHold, ReduceRule
  PROVE  TokensInv'
<1> DEFINE r == action - parser.YYNSTATE + 1
           rule == parser.rules[r]
           n == Len(Stack) - rule.nrhs
           below == SubSeq(Stack, 1, n)
           rhs == SubSeq(Stack, Len(below) + 1, Len(Stack))
           U == rule.used
           X == rule.destroyed
           used == Taken(rhs, U)
           dead == Taken(rhs, X)
           kept == Taken(rhs, DOMAIN rhs \ (U \cup X))
           minor == IF rule.valued THEN used ELSE {}
           next == FindReduceAction(Last(below).stateno, rule.lhs)
           dying == [i \in DOMAIN rhs |->
                       IF i \in X THEN rhs[i] ELSE Entry(0, rhs[i].major, {})]
           B == Values(below)
           lb == Leaked(below)
<1>1. /\ handed' = IF rule.valued THEN handed ELSE handed \cup used
      /\ passed' = passed
      /\ \/ /\ yy' = [yy EXCEPT !.stack = Append(below, Entry(next, rule.lhs, minor))]
            /\ Destroy(dying) /\ Lose(kept, {}) /\ call' = call
         \/ /\ yy' = Idle /\ call' = NoCall
            /\ Destroy(dying \o below) /\ Lose(kept \cup lb, minor \cup call.minor)
         \/ /\ yy' = Idle /\ call' = NoCall
            /\ Destroy(dying \o below) /\ Lose(kept \cup minor \cup call.minor \cup lb, {})
  BY DEF ReduceRule, Taken
<1>2. /\ IsReduce(action) /\ Looping
      /\ r \in 1..parser.YYNRULE /\ rule.nrhs \in Nat
  BY RuleIs DEF ReduceRule
<1>3. /\ n > 0
      /\ \A i \in X : Stack[n + i].major \in parser.destructible
  BY <1>2 DEF AssertsHold
<1>4. U \cup X \subseteq 1..rule.nrhs /\ U \cap X = {}
  <2> HIDE DEF r
  <2> QED
    BY <1>2 DEF StackInv, TablesOK
<1> HIDE DEF r, rule
<1>5. IsSequence(Stack) /\ Apart(Stack) /\ Len(Stack) \in Nat
  BY LenIs DEF StackInv, TokensInv
<1>6. n \in Nat /\ n <= Len(Stack) /\ Len(Stack) - n = rule.nrhs
  BY <1>2, <1>3, <1>5
<1> HIDE DEF n
<1>7. IsSequence(below) /\ Len(below) = n
  BY <1>3, <1>5, <1>6, BelowIs
<1>8. rhs = SubSeq(Stack, n + 1, Len(Stack))
  BY <1>7
<1> HIDE DEF below, rhs
<1>9. /\ IsSequence(rhs) /\ Len(rhs) = rule.nrhs
      /\ \A i \in 1..rule.nrhs : rhs[i] = Stack[n + i]
  BY <1>5, <1>6, <1>8, AboveIs
<1>10. /\ Apart(below) /\ Apart(rhs)
       /\ Values(Stack) = B \cup Values(rhs) /\ B \cap Values(rhs) = {}
  BY <1>5, <1>6, <1>8, SplitValues DEF below
<1>11. DOMAIN rhs = 1..rule.nrhs
  BY <1>9, LenIs
<1>12. \A i \in X : rhs[i].major \in parser.destructible
  BY <1>3, <1>4, <1>9
<1>13. IsSequence(dying) /\ Apart(dying) /\ Values(dying) = dead /\ Leaked(dying) = {}
  BY <1>4, <1>9, <1>10, <1>11, <1>12, DyingIs
<1>14. /\ used \subseteq Values(rhs) /\ dead \subseteq Values(rhs) /\ kept \subseteq Values(rhs)
  BY <1>4, <1>11 DEF Taken, Values
<1>15. lb \subseteq B
  BY LeakedIn
<1>16. ASSUME NEW t
       PROVE  Count(t \in Values(Stack)) = Count(t \in B) + Count(t \in used) + Count(t \in dead)
                                           + Count(t \in kept)
  <2>1. Count(t \in Values(Stack)) = Count(t \in B) + Count(t \in Values(rhs))
    BY <1>10, Joined
  <2>2. Count(t \in Values(rhs)) = Count(t \in used) + Count(t \in dead) + Count(t \in kept)
    <3>1. U \cup X \subseteq DOMAIN rhs /\ U \cap X = {}
      BY <1>4, <1>11
    <3> HIDE DEF U, X
    <3> QED
      BY <1>10, <3>1, ThreeParts
  <2>3. \A S : Count(t \in S) \in {0, 1}
    BY DEF Count
  <2> HIDE DEF used, dead, kept, B
  <2> QED
    BY <2>1, <2>2, <2>3
<1> HIDE DEF U, X, used, dead, kept, dying, B, lb
<1>17. ASSUME NEW t
       PROVE  Count(t \in used) + Count(t \in handed) = Count(t \in minor) + Count(t \in handed')
  <2>1. used \cap handed = {}
    BY <1>10, <1>14, HeldApart
  <2>2. CASE rule.valued
    BY <1>1, <2>2
  <2>3. CASE ~rule.valued
    <3>1. minor = {} /\ handed' = used \cup handed
      BY <1>1, <2>3
    <3>2. Count(t \in minor) = 0
      BY <3>1 DEF Count
    <3>3. Count(t \in handed') = Count(t \in used) + Count(t \in handed)
      BY <2>1, <3>1, Joined
    <3>4. \A S : Count(t \in S) \in {0, 1}
      BY DEF Count
    <3> QED
      BY <3>2, <3>3, <3>4
  <2> QED
    BY <2>2, <2>3
<1>18. minor \subseteq used
  OBVIOUS
<1>19. destroyed \in [1..MaxTokens -> {0, 1}] /\ call.minor \cap Values(Stack) = {}
  BY HeldApart DEF TokensInv
<1> HIDE DEF minor
<1>20. CASE /\ yy' = [yy EXCEPT !.stack = Append(below, Entry(next, rule.lhs, minor))]
            /\ Destroy(dying) /\ Lose(kept, {}) /\ call' = call
  <2> DEFINE e == Entry(next, rule.lhs, minor)
  <2>1. Stack' = Append(below, e)
    BY <1>20 DEF Stack
  <2>2. e.minor = minor
    BY DEF Entry
  <2> HIDE DEF e
  <2>3. minor \cap B = {}
    BY <1>10, <1>14, <1>18
  <2>4. Values(Stack') = B \cup minor /\ Apart(Stack')
    BY <1>7, <1>10, <2>1, <2>2, <2>3, AppendValues DEF B
  <2>5. destroyed' = [t \in 1..MaxTokens |-> destroyed[t] + Count(t \in dead)]
    <3>1. Values(dying) \ Leaked(dying) = dead
      BY <1>13
    <3> QED
      BY <1>13, <1>19, <1>20, <3>1, DestroyIs
  <2>6. ASSUME NEW t
        PROVE  Held(t) = Held(t)' + Count(t \in dead) + Count(t \in kept) + Count(t \in {})
    <3>1. Count(t \in Values(Stack')) = Count(t \in B) + Count(t \in minor)
      BY <2>3, <2>4, Joined
    <3>2. Count(t \in {}) = 0
      BY DEF Count
    <3>3. \A S : Count(t \in S) \in {0, 1}
      BY DEF Count
    <3>4. call'.minor = call.minor
      BY <1>20
    <3> QED
      BY <1>16, <1>17, <3>1, <3>2, <3>3, <3>4 DEF Held
  <2> QED
    BY <1>1, <1>20, <2>4, <2>5, <2>6, Moved
<1> DEFINE all == dying \o below
           D == (dead \cup B) \ lb
<1>21. Values(all) = dead \cup B /\ Leaked(all) = lb /\ Apart(all)
  <2>1. Values(dying) \cap Values(below) = {}
    BY <1>10, <1>13, <1>14 DEF B
  <2>2. /\ Values(all) = Values(dying) \cup Values(below)
        /\ Leaked(all) = Leaked(dying) \cup Leaked(below)
        /\ Apart(all)
    BY <1>7, <1>10, <1>13, <2>1, ConcatValues
  <2> HIDE DEF all
  <2> QED
    BY <1>13, <2>2 DEF B, lb
<1> HIDE DEF all
<1>22. ASSUME Destroy(all)
       PROVE  destroyed' = [t \in 1..MaxTokens |-> destroyed[t] + Count(t \in D)]
  <2>1. Values(all) \ Leaked(all) = D
    BY <1>21
  <2> HIDE DEF D
  <2> QED
    BY <1>19, <1>21, <1>22, <2>1, DestroyIs
<1>23. ASSUME NEW t
       PROVE  /\ Count(t \in B) + Count(t \in dead) = Count(t \in D) + Count(t \in lb)
              /\ Count(t \in kept \cup lb) = Count(t \in kept) + Count(t \in lb)
              /\ Count(t \in minor \cup call.minor) = Count(t \in minor) + Count(t \in call.minor)
  <2>1. /\ dead \cap B = {} /\ kept \cap lb = {} /\ minor \cap call.minor = {}
        /\ lb \subseteq dead \cup B
    BY <1>10, <1>14, <1>15, <1>18, <1>19
  <2>2. /\ Count(t \in dead \cup B) = Count(t \in dead) + Count(t \in B)
        /\ Count(t \in dead \cup B) = Count(t \in D) + Count(t \in lb)
        /\ Count(t \in kept \cup lb) = Count(t \in kept) + Count(t \in lb)
        /\ Count(t \in minor \cup call.minor) = Count(t \in minor) + Count(t \in call.minor)
    BY <2>1, Joined, Divided
  <2>3. \A S : Count(t \in S) \in {0, 1}
    BY DEF Count
  <2> HIDE DEF D
  <2> QED
    BY <2>2, <2>3
<1> HIDE DEF D
<1>24. ASSUME yy' = Idle, call' = NoCall
       PROVE  /\ Apart(Stack')
              /\ \A t : Held(t) = Held(t)' + Count(t \in D) + Count(t \in kept \cup lb)
                                  + Count(t \in minor \cup call.minor)
  <2>1. Values(Stack') = {} /\ Apart(Stack') /\ call'.minor = {}
    BY <1>24, IdleIs, NoCallIs
  <2> SUFFICES ASSUME NEW t
               PROVE  Held(t) = Held(t)' + Count(t \in D) + Count(t \in kept \cup lb)
                                + Count(t \in minor \cup call.minor)
    BY <2>1
  <2>2. Count(t \in Values(Stack')) = 0 /\ Count(t \in call'.minor) = 0
    BY <2>1 DEF Count
  <2>3. \A S : Count(t \in S) \in {0, 1}
    BY DEF Count
  <2> QED
    BY <1>16, <1>17, <1>23, <2>2, <2>3 DEF Held
<1>25. CASE /\ yy' = Idle /\ call' = NoCall
            /\ Destroy(all) /\ Lose(kept \cup lb, minor \cup call.minor)
  BY <1>1, <1>22, <1>24, <1>25, Moved
<1>26. CASE /\ yy' = Idle /\ call' = NoCall
            /\ Destroy(all) /\ Lose(kept \cup minor \cup call.minor \cup lb, {})
  <2> DEFINE L == (kept \cup lb) \cup (minor \cup call.minor)
  <2>1. L = kept \cup minor \cup call.minor \cup lb
    OBVIOUS
  <2>2. (kept \cup lb) \cap (minor \cup call.minor) = {}
    <3>1. used \cap kept = {}
      BY <1>4, <1>10, <1>11 DEF used, kept, Taken, Apart
    <3> QED
      BY <1>10, <1>14, <1>15, <1>18, <1>19, <3>1
  <2>3. ASSUME NEW t
        PROVE  /\ Count(t \in L) = Count(t \in kept \cup lb) + Count(t \in minor \cup call.minor)
               /\ Count(t \in {}) = 0
    BY <2>2, Joined DEF Count
  <2>4. Lose(L, {})
    BY <1>26, <2>1
  <2> HIDE DEF L
  <2>5. ASSUME NEW t
        PROVE  Held(t) = Held(t)' + Count(t \in D) + Count(t \in L) + Count(t \in {})
    <3>1. \A S : Count(t \in S) \in {0, 1}
      BY DEF Count
    <3>2. Held(t) = Held(t)' + Count(t \in D) + Count(t \in kept \cup lb)
                    + Count(t \in minor \cup call.minor)
      BY <1>24, <1>26
    <3>3. Held(t)' \in Int
      BY <3>1 DEF Held
    <3> QED
      BY <2>3, <3>1, <3>2, <3>3
  <2> QED
    BY <1>1, <1>22, <1>24, <1>26, <2>4, <2>5, Moved
<1> QED
  BY <1>1, <1>20, <1>25, <1>26 DEF all

(***************************************************************************)
(* The stack is popped down to a state that goes on with the error symbol. *)
(***************************************************************************)
LEMMA PopMoves ==
  ASSUME StackInv, TokensInv, NEW n \in 0..Len(Stack), NEW e, e.minor = {},
         Stack' = Append(SubSeq(Stack, 1, n), e),
         Destroy(SubSeq(Stack, n + 1, Len(Stack))),
         Lose(Leaked(SubSeq(Stack, n + 1, Len(Stack))), {}),
         call'.minor = call.minor, passed' = passed, handed' = handed
  PROVE  TokensInv'
<1> DEFINE kept == SubSeq(Stack, 1, n)
           popped == SubSeq(Stack, n + 1, Len(Stack))
           L == Leaked(popped)
           D == Values(popped) \ L
<1>1. IsSequence(Stack) /\ Apart(Stack) /\ Len(Stack) \in Nat /\ n \in Nat /\ n <= Len(Stack)
  BY LenIs DEF StackInv, TokensInv
<1>2. IsSequence(kept)
  BY <1>1, BelowIs
<1>3. /\ Apart(kept) /\ Apart(popped)
      /\ Values(Stack) = Values(kept) \cup Values(popped)
      /\ Values(kept) \cap Values(popped) = {}
  BY <1>1, SplitValues
<1>4. L \subseteq Values(popped)
  BY LeakedIn
<1>5. destroyed' = [t \in 1..MaxTokens |-> destroyed[t] + Count(t \in D)]
  BY <1>3, DestroyIs DEF TokensInv
<1>6. Stack' = Append(kept, e) /\ Lose(L, {})
  OBVIOUS
<1> HIDE DEF kept, popped, L
<1>7. Values(Stack') = Values(kept) /\ Apart(Stack')
  <2>1. e.minor \cap Values(kept) = {}
    OBVIOUS
  <2>2. Values(Append(kept, e)) = Values(kept) \cup e.minor /\ Apart(Append(kept, e))
    BY <1>2, <1>3, <2>1, AppendValues
  <2>3. Values(Append(kept, e)) = Values(kept)
    BY <2>2
  <2> QED
    BY <1>6, <2>2, <2>3
<1>8. ASSUME NEW t
      PROVE  Held(t) = Held(t)' + Count(t \in D) + Count(t \in L) + Count(t \in {})
  <2>1. /\ Count(t \in Values(Stack)) = Count(t \in Values(kept)) + Count(t \in Values(popped))
        /\ Count(t \in Values(popped)) = Count(t \in D) + Count(t \in L)
    BY <1>3, <1>4, Joined, Divided
  <2>2. Count(t \in Values(Stack')) = Count(t \in Values(kept)) /\ Count(t \in {}) = 0
    BY <1>7 DEF Count
  <2>3. \A S : Count(t \in S) \in {0, 1}
    BY DEF Count
  <2> HIDE DEF D
  <2> QED
    BY <2>1, <2>2, <2>3 DEF Held
<1> HIDE DEF D
<1> QED
  BY <1>5, <1>6, <1>7, <1>8, Moved

(***************************************************************************)
(* A token is shifted.                                                     *)
(***************************************************************************)
LEMMA PushMoves ==
  ASSUME StackInv, TokensInv, NEW e, e.minor = call.minor,
         Stack' = Append(Stack, e), call' = NoCall,
         destroyed' = destroyed, lost' = lost, passed' = passed, handed' = handed
  PROVE  TokensInv'
<1>1. IsSequence(Stack) /\ Apart(Stack) /\ call.minor \cap Values(Stack) = {}
  BY HeldApart DEF StackInv, TokensInv
<1>2. Values(Stack') = Values(Stack) \cup call.minor /\ Apart(Stack')
  BY <1>1, AppendValues
<1>3. call'.minor = {}
  BY NoCallIs
<1>4. ASSUME NEW t
      PROVE  Count(t \in {}) = 0 /\ Count(t \in call'.minor) = 0
  BY <1>3 DEF Count
<1>5. destroyed' = [t \in 1..MaxTokens |-> destroyed[t] + Count(t \in {})]
  <2>1. destroyed \in [1..MaxTokens -> {0, 1}]
    BY DEF TokensInv
  <2> QED
    BY <1>4, <2>1
<1>6. Lose({}, {})
  BY DEF Lose
<1>7. ASSUME NEW t
      PROVE  Held(t) = Held(t)' + Count(t \in {}) + Count(t \in {}) + Count(t \in {})
  <2>1. Count(t \in Values(Stack')) = Count(t \in Values(Stack)) + Count(t \in call.minor)
    BY <1>1, <1>2, Joined
  <2>2. \A S : Count(t \in S) \in {0, 1}
    BY DEF Count
  <2> QED
    BY <1>4, <2>1, <2>2 DEF Held
<1> QED
  BY <1>2, <1>5, <1>6, <1>7, Moved

(***************************************************************************)
(* A token is passed: its value is under way, or it has none.              *)
(***************************************************************************)
LEMMA PassMoves ==
  ASSUME StackInv, TokensInv, ParseToken
  PROVE  TokensInv'
<1>1. /\ passed' = passed + 1 /\ passed < MaxTokens /\ call.minor = {}
      /\ destroyed' = destroyed /\ lost' = lost
      /\ \/ call'.minor = {passed'} /\ handed' = handed
         \/ call'.minor = {} /\ handed' = handed \cup {passed'}
  BY DEF ParseToken, NoCall
<1>2. /\ passed \in 0..MaxTokens /\ passed \in Nat /\ MaxTokens \in Nat
      /\ passed' \in 1..MaxTokens /\ passed' \notin 1..passed /\ passed' > passed
      /\ \A t \in 1..passed' : t = passed' \/ t \in 1..passed
      /\ 1..passed \subseteq 1..passed'
  BY <1>1, LemparAssumption DEF TokensInv
<1>3. Values(Stack') = Values(Stack) /\ Apart(Stack')
  <2>1. CASE Stack = <<>>
    <3>1. Stack' = <<Entry(0, 0, {})>>
      BY <2>1 DEF ParseToken, Stack
    <3>2. Values(Stack') = {} /\ Apart(Stack')
      BY <3>1, OneValue DEF Entry
    <3> QED
      BY <2>1, <3>2, NoValues
  <2>2. CASE Stack # <<>>
    <3>1. Stack' = Stack
      BY <2>2 DEF ParseToken, Stack
    <3> QED
      BY <3>1 DEF TokensInv
  <2> QED
    BY <2>1, <2>2
<1>4. Gone' = Gone /\ Gone \subseteq 1..passed
  BY <1>1 DEF Gone, TokensInv
<1>5. /\ Values(Stack) \cup handed \subseteq 1..passed
      /\ destroyed \in [1..MaxTokens -> {0, 1}]
      /\ \A t \in 1..MaxTokens : t > passed => destroyed[t] = 0
  BY DEF TokensInv
<1> HIDE DEF Values, Gone
<1>6. ASSUME NEW t \in 1..passed'
      PROVE  Shares(t)' = 1
  <2>1. CASE t = passed'
    <3>1. t \notin Values(Stack') /\ t \notin Gone' /\ destroyed'[t] = 0 /\ t \notin handed
      BY <1>1, <1>2, <1>3, <1>4, <1>5, <2>1
    <3>2. Count(t \in call'.minor) + Count(t \in handed') = 1
      BY <1>1, <2>1, <3>1 DEF Count
    <3>3. Count(t \in Values(Stack')) = 0 /\ Count(t \in Gone') = 0
      BY <3>1 DEF Count
    <3>4. \A S : Count(t \in S) \in {0, 1}
      BY DEF Count
    <3> QED
      BY <3>1, <3>2, <3>3, <3>4 DEF Shares
  <2>2. CASE t \in 1..passed
    <3>1. Shares(t) = 1
      BY <2>2 DEF TokensInv
    <3>2. Count(t \in call'.minor) = Count(t \in call.minor) /\ Count(t \in handed') = Count(t \in handed)
      BY <1>1, <1>2, <2>2 DEF Count
    <3> QED
      BY <1>1, <1>3, <1>4, <3>1, <3>2 DEF Shares
  <2> QED
    BY <1>2, <2>1, <2>2
<1>7. /\ lost' \subseteq (1..passed') \X {"leaked", "spilled"}
      /\ \A l, m \in lost' : l[1] = m[1] => l = m
  <2>1. /\ lost \subseteq (1..passed) \X {"leaked", "spilled"}
        /\ \A l, m \in lost : l[1] = m[1] => l = m
    BY DEF TokensInv
  <2> QED
    BY <1>1, <1>2, <2>1
<1>8. (Values(Stack) \cup call.minor \cup handed)' \subseteq 1..passed'
  BY <1>1, <1>2, <1>3, <1>5
<1>9. /\ passed' \in 0..MaxTokens
      /\ destroyed' \in [1..MaxTokens -> {0, 1}]
      /\ \A t \in 1..MaxTokens : t > passed' => destroyed'[t] = 0
  BY <1>1, <1>2, <1>5
<1> QED
  BY <1>3, <1>6, <1>7, <1>8, <1>9 DEF TokensInv

(***************************************************************************)
(* The call under way: only a token other than the end of the input has a  *)
(* value.                                                                  *)
(***************************************************************************)
CallInv ==
  /\ DOMAIN call = {"major", "minor", "errorhit"}
  /\ call = NoCall \/ call.major \in Tokens
  /\ call.major = 0 => call.minor = {}

LEMMA CallStep ==
  ASSUME CallInv, Engine, UNCHANGED parser
  PROVE  CallInv'
<1>0. Tokens' = Tokens
  BY DEF Tokens
<1>1. CASE ParseToken
  <2>1. PICK major \in Tokens :
          call' = [major |-> major, errorhit |-> FALSE,
                   minor |-> IF major = 0 THEN {} ELSE {passed'}]
    BY <1>1 DEF ParseToken
  <2>2. /\ call'.major = major /\ call'.minor = IF major = 0 THEN {} ELSE {passed'}
        /\ DOMAIN call' = {"major", "minor", "errorhit"}
    BY <2>1
  <2> QED
    BY <1>0, <2>2 DEF CallInv
<1>2. CASE call' = NoCall
  BY <1>2 DEF CallInv, NoCall
<1>3. CASE call' = [call EXCEPT !.errorhit = TRUE] /\ Looping
  <2>1. call'.major = call.major /\ call'.minor = call.minor /\ DOMAIN call' = DOMAIN call
    BY <1>3 DEF CallInv
  <2> QED
    BY <1>0, <1>3, <2>1 DEF CallInv, Looping
<1>4. CASE call' = call
  BY <1>0, <1>4 DEF CallInv, NoCall
<1>5. CASE ReduceRule
  BY <1>2, <1>4, <1>5 DEF ReduceRule
<1>6. CASE Recover
  BY <1>2, <1>3, <1>6 DEF Recover, DiscardAndFail
<1>7. CASE ShiftToken \/ SyntaxError \/ DiscardToken \/ ParseFree
  BY <1>2, <1>4, <1>7 DEF ShiftToken, SyntaxError, DiscardToken, DiscardAndFail, ParseFree
<1> QED
  BY <1>1, <1>5, <1>6, <1>7 DEF Engine, ParseLoop

LEMMA TokensStep ==
  ASSUME StackInv, TokensInv, CallInv, AssertsHold, Engine
  PROVE  TokensInv'
<1>1. CASE ParseToken
  BY <1>1, PassMoves
<1>2. CASE ShiftToken
  <2>1. /\ call' = NoCall /\ passed' = passed /\ handed' = handed
    BY <1>2 DEF ShiftToken
  <2>2. CASE Full(Stack)
    <3>1. yy' = Idle /\ Destroy(Stack) /\ Lose(Leaked(Stack), call.minor)
      BY <1>2, <2>2 DEF ShiftToken
    <3> QED
      BY <2>1, <3>1, EmptyMoves
  <2>3. CASE ~Full(Stack)
    <3> DEFINE e == Entry(action, call.major, call.minor)
    <3>1. Stack' = Append(Stack, e) /\ destroyed' = destroyed /\ lost' = lost
      BY <1>2, <2>3 DEF ShiftToken, Stack
    <3>2. e.minor = call.minor
      BY DEF Entry
    <3> HIDE DEF e
    <3> QED
      BY <2>1, <3>1, <3>2, PushMoves
  <2> QED
    BY <2>2, <2>3
<1>3. CASE ReduceRule
  BY <1>3, ReduceMoves
<1>4. CASE SyntaxError
  <2>1. DiscardAndFail(Stack, call.major = 0) /\ passed' = passed /\ handed' = handed
    BY <1>4 DEF SyntaxError
  <2> QED
    BY <2>1, DiscardMoves
<1>5. CASE DiscardToken
  <2>1. DiscardAndFail(Stack, FALSE) /\ passed' = passed /\ handed' = handed
    BY <1>5 DEF DiscardToken
  <2> QED
    BY <2>1, DiscardMoves
<1>6. CASE Recover
  <2> DEFINE i == Max(Resumable \cup {0})
             kept == SubSeq(Stack, 1, i)
             popped == SubSeq(Stack, i + 1, Len(Stack))
             e == Entry(FindReduceAction(kept[i].stateno, parser.YYERRORSYMBOL), parser.YYERRORSYMBOL, {})
  <2>1. /\ passed' = passed /\ handed' = handed
        /\ \/ DiscardAndFail(Stack, TRUE)
           \/ /\ Destroy(popped) /\ Lose(Leaked(popped), {})
              /\ yy' = [stack |-> Append(kept, e), yyerrcnt |-> 3]
              /\ call' = [call EXCEPT !.errorhit = TRUE]
           \/ /\ Destroy(Stack) /\ Lose(Leaked(Stack), call.minor)
              /\ yy' = Idle /\ call' = NoCall
    BY <1>6 DEF Recover
  <2>2. i \in 0..Len(Stack)
    BY ResumeIs DEF StackInv
  <2>3. e.minor = {}
    BY DEF Entry
  <2>4. CASE DiscardAndFail(Stack, TRUE)
    BY <2>1, <2>4, DiscardMoves
  <2>5. CASE Destroy(Stack) /\ Lose(Leaked(Stack), call.minor) /\ yy' = Idle /\ call' = NoCall
    BY <2>1, <2>5, EmptyMoves
  <2> HIDE DEF i, e
  <2>6. CASE /\ Destroy(popped) /\ Lose(Leaked(popped), {})
             /\ yy' = [stack |-> Append(kept, e), yyerrcnt |-> 3]
             /\ call' = [call EXCEPT !.errorhit = TRUE]
    <3>1. Stack' = Append(kept, e)
      BY <2>6 DEF Stack
    <3>2. call'.minor = call.minor
      BY <2>6 DEF CallInv
    <3> QED
      BY <2>1, <2>2, <2>3, <2>6, <3>1, <3>2, PopMoves
  <2> QED
    BY <2>1, <2>4, <2>5, <2>6
<1>7. CASE ParseFree
  <2>1. /\ Destroy(Stack) /\ Lose(Leaked(Stack), {}) /\ yy' = Idle
        /\ call' = NoCall /\ passed' = passed /\ handed' = handed /\ call.minor = {}
    BY <1>7 DEF ParseFree, NoCall
  <2> QED
    BY <2>1, EmptyMoves
<1> QED
  BY <1>1, <1>2, <1>3, <1>4, <1>5, <1>6, <1>7 DEF Engine, ParseLoop

-----------------------------------------------------------------------------
(* Where values are not lost. *)

LeaksInv ==
  NothingLeaks =>
    /\ Leaked(Stack) = {}
    /\ Stack # <<>> => Stack[1].stateno = 0
    /\ \A l \in lost : l[2] = "spilled"

LEMMA AppendLeaks ==
  ASSUME NEW s, IsSequence(s), Leaked(s) = {}, NEW e,
         e.minor = {} \/ e.major \in parser.destructible
  PROVE  Leaked(Append(s, e)) = {}
<1> DEFINE a == Append(s, e)
           n == Len(s)
<1>1. /\ IsSequence(a) /\ Len(a) = n + 1 /\ a[n + 1] = e
      /\ \A j \in 1..n : a[j] = s[j]
      /\ n \in Nat /\ DOMAIN s = 1..n
  BY AppendIs, LenIs
<1> HIDE DEF a, n
<1>2. DOMAIN a = 1..n + 1 /\ \A i \in 1..n + 1 : i \in 1..n \/ i = n + 1
  BY <1>1, LenIs
<1>3. \A i \in 1..n : s[i].major \notin parser.destructible => s[i].minor = {}
  BY <1>1 DEF Leaked
<1>4. \A i \in 1..n + 1 : a[i].major \notin parser.destructible => a[i].minor = {}
  BY <1>1, <1>2, <1>3
<1>5. Leaked(a) = {}
  BY <1>2, <1>4 DEF Leaked
<1> QED
  BY <1>5 DEF a

LEMMA IdleLeaks ==
  ASSUME LeaksInv, UNCHANGED parser, yy' = Idle,
         NothingLeaks => \E S : Lose({}, S)
  PROVE  LeaksInv'
<1>1. NothingLeaks' <=> NothingLeaks
  BY DEF NothingLeaks, Tokens, FindReduceAction, InTable, AcceptAction, ErrorAction
<1>2. Stack' = <<>> /\ Leaked(Stack)' = {}
  <2>1. Stack' = <<>>
    BY DEF Idle, Stack
  <2> QED
    BY <2>1 DEF Leaked
<1>3. ASSUME NothingLeaks, NEW l \in lost'
      PROVE  l[2] = "spilled"
  BY <1>3 DEF LeaksInv, Lose
<1> QED
  BY <1>1, <1>2, <1>3 DEF LeaksInv

LEMMA StackLeaks ==
  ASSUME LeaksInv, UNCHANGED parser,
         NothingLeaks => Leaked(Stack') = {} /\ Stack'[1].stateno = 0 /\ Lose({}, {})
  PROVE  LeaksInv'
<1>1. NothingLeaks' <=> NothingLeaks
  BY DEF NothingLeaks, Tokens, FindReduceAction, InTable, AcceptAction, ErrorAction
<1>2. Leaked(Stack)' = Leaked(Stack')
  BY DEF Leaked
<1>3. NothingLeaks => lost' = lost
  BY DEF Lose
<1> QED
  BY <1>1, <1>2, <1>3 DEF LeaksInv

(***************************************************************************)
(* The value under way has a destructor.                                   *)
(***************************************************************************)
LEMMA CallDestructible ==
  ASSUME NothingLeaks, CallInv
  PROVE  call.minor = {} \/ call.major \in parser.destructible
<1>1. NoCall.minor = {}
  BY NoCallIs
<1> QED
  BY <1>1 DEF CallInv, NothingLeaks

LEMMA DiscardLeaks ==
  ASSUME StackInv, TokensInv, CallInv, LeaksInv, Looping, UNCHANGED parser,
         NEW fails \in BOOLEAN, DiscardAndFail(Stack, fails)
  PROVE  LeaksInv'
<1> DEFINE s == IF fails THEN Stack ELSE <<>>
           e == Entry(0, call.major, call.minor)
           dying == s \o <<e>>
<1>1. /\ Lose(Leaked(dying), {})
      /\ yy' = IF fails THEN Idle ELSE [stack |-> Stack, yyerrcnt |-> 3]
  BY DEF DiscardAndFail
<1>2. NothingLeaks => Leaked(dying) = {}
  <2> SUFFICES ASSUME NothingLeaks
               PROVE  Leaked(dying) = {}
    OBVIOUS
  <2>1. e.minor = call.minor /\ e.major = call.major
    BY DEF Entry
  <2>2. /\ IsSequence(s) /\ Apart(s) /\ Values(s) \subseteq Values(Stack)
        /\ Leaked(s) = {}
    BY NoEntry, NoValues DEF StackInv, TokensInv, LeaksInv
  <2>3. IsSequence(<<e>>) /\ Apart(<<e>>) /\ Values(<<e>>) = call.minor
    BY <2>1, OneEntry, OneValue
  <2>4. Values(s) \cap Values(<<e>>) = {}
    BY <2>2, <2>3, HeldApart
  <2>5. e.minor = {} \/ e.major \in parser.destructible
    BY <2>1, CallDestructible
  <2>6. Leaked(<<e>>) = {}
    <3> HIDE DEF e
    <3>1. DOMAIN <<e>> = {1} /\ <<e>>[1] = e
      OBVIOUS
    <3> QED
      BY <2>5, <3>1 DEF Leaked
  <2> HIDE DEF s, e
  <2>7. Leaked(s \o <<e>>) = Leaked(s) \cup Leaked(<<e>>)
    BY <2>2, <2>3, <2>4, ConcatValues
  <2> QED
    BY <2>2, <2>6, <2>7
<1> HIDE DEF dying
<1>3. CASE fails
  BY <1>1, <1>2, <1>3, IdleLeaks
<1>4. CASE ~fails
  <2>1. Stack' = Stack /\ Stack # <<>>
    BY <1>1, <1>4 DEF Stack, StackInv
  <2> QED
    BY <1>1, <1>2, <2>1, StackLeaks DEF LeaksInv
<1> QED
  BY <1>3, <1>4

(***************************************************************************)
(* A rule leaves no value out, and the start symbol has none.              *)
(***************************************************************************)
LEMMA ReduceLeaks ==
  ASSUME StackInv, TokensInv, CallInv, LeaksInv, AssertsHold, ReduceRule, UNCHANGED parser
  PROVE  LeaksInv'
<1> DEFINE r == action - parser.YYNSTATE + 1
           rule == parser.rules[r]
           n == Len(Stack) - rule.nrhs
           below == SubSeq(Stack, 1, n)
           rhs == SubSeq(Stack, Len(below) + 1, Len(Stack))
           rest == DOMAIN rhs \ (rule.used \cup rule.destroyed)
           used == UNION {rhs[i].minor : i \in rule.used}
           kept == UNION {rhs[i].minor : i \in rest}
           minor == IF rule.valued THEN used ELSE {}
           next == FindReduceAction(Last(below).stateno, rule.lhs)
           e == Entry(next, rule.lhs, minor)
<1>1. \/ yy' = [yy EXCEPT !.stack = Append(below, e)] /\ Lose(kept, {})
      \/ yy' = Idle /\ Lose(kept \cup Leaked(below), minor \cup call.minor)
      \/ /\ next = AcceptAction /\ yy' = Idle
         /\ Lose(kept \cup minor \cup call.minor \cup Leaked(below), {})
  BY DEF ReduceRule
<1>2. /\ IsReduce(action) /\ Looping
      /\ r \in 1..parser.YYNRULE /\ rule.nrhs \in Nat
  BY RuleIs DEF ReduceRule
<1>3. /\ n > 0
      /\ \/ IsShift(FindReduceAction(Stack[n].stateno, rule.lhs))
         \/ n = 1 /\ call.major = 0
  BY <1>2 DEF AssertsHold
<1>4. NothingLeaks => /\ 1..rule.nrhs \subseteq rule.used \cup rule.destroyed
                      /\ rule.valued => rule.lhs \in parser.destructible
                      /\ rule.valued => FindReduceAction(0, rule.lhs) # AcceptAction
  <2>1. r \in DOMAIN parser.rules
    <3> HIDE DEF r
    <3> QED
      BY <1>2 DEF StackInv, TablesOK
  <2> HIDE DEF r
  <2> QED
    BY <2>1 DEF NothingLeaks
<1> HIDE DEF r, rule
<1>5. IsSequence(Stack) /\ Apart(Stack) /\ Len(Stack) \in Nat /\ Stack # <<>>
  BY <1>2, LenIs DEF StackInv, TokensInv
<1>6. n \in Nat /\ n <= Len(Stack) /\ Len(Stack) - n = rule.nrhs /\ 1 \in 1..n /\ n \in 1..n
  BY <1>2, <1>3, <1>5
<1> HIDE DEF n
<1>7. /\ IsSequence(below) /\ Len(below) = n
      /\ \A i \in 1..n : below[i] = Stack[i]
  BY <1>3, <1>5, <1>6, BelowIs
<1>8. below[1] = Stack[1] /\ Last(below) = Stack[n]
  BY <1>6, <1>7, LastIs
<1>9. Leaked(Stack) = Leaked(below) \cup Leaked(SubSeq(Stack, n + 1, Len(Stack)))
  BY <1>5, <1>6, SplitValues
<1>10. rhs = SubSeq(Stack, n + 1, Len(Stack))
  BY <1>7
<1> HIDE DEF below, rhs
<1>11. DOMAIN rhs = 1..rule.nrhs
  BY <1>5, <1>6, <1>10, AboveIs, LenIs
<1>12. ASSUME NothingLeaks
       PROVE  kept = {} /\ Leaked(below) = {}
  BY <1>4, <1>9, <1>11, <1>12 DEF LeaksInv
<1> HIDE DEF kept, used
<1>13. CASE yy' = [yy EXCEPT !.stack = Append(below, e)] /\ Lose(kept, {})
  <2>1. Stack' = Append(below, e)
    BY <1>13 DEF Stack
  <2>2. NothingLeaks => e.minor = {} \/ e.major \in parser.destructible
    BY <1>4 DEF Entry
  <2> HIDE DEF e
  <2>3. NothingLeaks => Leaked(Stack') = {}
    BY <1>7, <1>12, <2>1, <2>2, AppendLeaks
  <2>4. Stack'[1] = Stack[1]
    BY <1>6, <1>7, <1>8, <2>1, AppendIs
  <2> QED
    BY <1>5, <1>12, <1>13, <2>3, <2>4, StackLeaks DEF LeaksInv
<1>14. CASE yy' = Idle /\ Lose(kept \cup Leaked(below), minor \cup call.minor)
  <2>1. ASSUME NothingLeaks
        PROVE  Lose({}, minor \cup call.minor)
    <3>1. kept \cup Leaked(below) = {}
      BY <1>12, <2>1
    <3> QED
      BY <1>14, <3>1
  <2> QED
    BY <1>14, <2>1, IdleLeaks
<1>15. CASE /\ next = AcceptAction /\ yy' = Idle
            /\ Lose(kept \cup minor \cup call.minor \cup Leaked(below), {})
  <2>1. next = FindReduceAction(Stack[n].stateno, rule.lhs)
    BY <1>8
  <2>2. ~IsShift(next)
    BY <1>15 DEF IsShift, AcceptAction, ErrorAction, StackInv, TablesOK
  <2>3. n = 1 /\ call.major = 0
    BY <1>3, <2>1, <2>2
  <2>4. ASSUME NothingLeaks
        PROVE  Lose({}, {})
    <3>1. next = FindReduceAction(0, rule.lhs)
      BY <1>5, <2>1, <2>3, <2>4 DEF LeaksInv
    <3>2. minor = {}
      BY <1>4, <1>15, <2>4, <3>1
    <3>3. call.minor = {}
      BY <2>3 DEF CallInv
    <3>4. kept \cup minor \cup call.minor \cup Leaked(below) = {}
      BY <1>12, <2>4, <3>2, <3>3
    <3> QED
      BY <1>15, <3>4
  <2> QED
    BY <1>15, <2>4, IdleLeaks
<1> QED
  BY <1>1, <1>13, <1>14, <1>15

LEMMA LeaksStep ==
  ASSUME StackInv, TokensInv, CallInv, LeaksInv, AssertsHold, Engine, UNCHANGED parser
  PROVE  LeaksInv'
<1>0. /\ IsSequence(Stack) /\ Apart(Stack) /\ Len(Stack) \in Nat
      /\ NothingLeaks => Leaked(Stack) = {}
  BY LenIs DEF StackInv, TokensInv, LeaksInv
<1>1. CASE ParseToken
  <2>1. Lose({}, {})
    BY <1>1 DEF ParseToken, Lose
  <2>2. CASE Stack = <<>>
    <3>1. Stack' = <<Entry(0, 0, {})>>
      BY <1>1, <2>2 DEF ParseToken, Stack
    <3>2. Stack'[1] = Entry(0, 0, {}) /\ Values(Stack') = {}
      BY <3>1, OneEntry, OneValue DEF Entry
    <3>3. Leaked(Stack') = {}
      BY <3>2, LeakedIn
    <3> QED
      BY <2>1, <3>2, <3>3, StackLeaks DEF Entry
  <2>3. CASE Stack # <<>>
    <3>1. Stack' = Stack
      BY <1>1, <2>3 DEF ParseToken, Stack
    <3> QED
      BY <2>1, <2>3, <3>1, StackLeaks DEF LeaksInv
  <2> QED
    BY <2>2, <2>3
<1>2. CASE ShiftToken
  <2>1. CASE Full(Stack)
    <3>1. yy' = Idle /\ Lose(Leaked(Stack), call.minor)
      BY <1>2, <2>1 DEF ShiftToken
    <3> QED
      BY <1>0, <3>1, IdleLeaks
  <2>2. CASE ~Full(Stack)
    <3> DEFINE e == Entry(action, call.major, call.minor)
    <3>1. Stack' = Append(Stack, e) /\ Lose({}, {})
      BY <1>2, <2>2 DEF ShiftToken, Stack, Lose
    <3>2. e.minor = call.minor /\ e.major = call.major
      BY DEF Entry
    <3> HIDE DEF e
    <3>3. NothingLeaks => Leaked(Stack') = {}
      BY <1>0, <3>1, <3>2, CallDestructible, AppendLeaks
    <3>4. Stack # <<>> /\ Len(Stack) # 0
      BY <1>0, <1>2, LenIs DEF ShiftToken, StackInv
    <3>5. 1 \in 1..Len(Stack)
      BY <1>0, <3>4
    <3>6. Stack'[1] = Stack[1]
      BY <1>0, <3>1, <3>5, AppendIs
    <3> QED
      BY <3>1, <3>3, <3>4, <3>6, StackLeaks DEF LeaksInv
  <2> QED
    BY <2>1, <2>2
<1>3. CASE ReduceRule
  BY <1>3, ReduceLeaks
<1>4. CASE SyntaxError
  BY <1>4, DiscardLeaks DEF SyntaxError
<1>5. CASE DiscardToken
  BY <1>5, DiscardLeaks DEF DiscardToken
<1>6. CASE Recover
  <2> DEFINE i == Max(Resumable \cup {0})
             kept == SubSeq(Stack, 1, i)
             popped == SubSeq(Stack, i + 1, Len(Stack))
             e == Entry(FindReduceAction(kept[i].stateno, parser.YYERRORSYMBOL), parser.YYERRORSYMBOL, {})
  <2>1. /\ Looping
        /\ \/ DiscardAndFail(Stack, TRUE)
           \/ /\ i > 0 /\ Lose(Leaked(popped), {})
              /\ yy' = [stack |-> Append(kept, e), yyerrcnt |-> 3]
           \/ yy' = Idle /\ Lose(Leaked(Stack), call.minor)
    BY <1>6 DEF Recover
  <2>2. i \in 0..Len(Stack)
    BY <1>0, ResumeIs
  <2>3. e.minor = {}
    BY DEF Entry
  <2>4. CASE DiscardAndFail(Stack, TRUE)
    BY <2>1, <2>4, DiscardLeaks
  <2>5. CASE yy' = Idle /\ Lose(Leaked(Stack), call.minor)
    BY <1>0, <2>5, IdleLeaks
  <2> HIDE DEF i, e
  <2>6. CASE /\ i > 0 /\ Lose(Leaked(popped), {})
             /\ yy' = [stack |-> Append(kept, e), yyerrcnt |-> 3]
    <3>1. Stack' = Append(kept, e)
      BY <2>6 DEF Stack
    <3>2. i \in Nat /\ i <= Len(Stack) /\ 1 \in 1..i
      BY <1>0, <2>2, <2>6
    <3>3. IsSequence(kept) /\ Len(kept) = i /\ kept[1] = Stack[1]
      BY <1>0, <2>6, <3>2, BelowIs
    <3>4. Leaked(Stack) = Leaked(kept) \cup Leaked(popped)
      BY <1>0, <3>2, SplitValues
    <3> HIDE DEF kept, popped
    <3>5. NothingLeaks => Leaked(kept) = {} /\ Leaked(popped) = {}
      BY <1>0, <3>4
    <3>6. NothingLeaks => Leaked(Stack') = {}
      BY <2>3, <3>1, <3>3, <3>5, AppendLeaks
    <3>7. Stack'[1] = Stack[1]
      BY <3>1, <3>2, <3>3, AppendIs
    <3>8. Stack # <<>>
      BY <2>1 DEF StackInv
    <3> QED
      BY <2>6, <3>5, <3>6, <3>7, <3>8, StackLeaks DEF LeaksInv
  <2> QED
    BY <2>1, <2>4, <2>5, <2>6
<1>7. CASE ParseFree
  <2>1. yy' = Idle /\ Lose(Leaked(Stack), {})
    BY <1>7 DEF ParseFree
  <2> QED
    BY <1>0, <2>1, IdleLeaks
<1> QED
  BY <1>1, <1>2, <1>3, <1>4, <1>5, <1>6, <1>7 DEF Engine, ParseLoop

LEMMA TokensInitial ==
  ASSUME EngineInit, TablesOK
  PROVE  StackInv /\ TokensInv /\ CallInv /\ LeaksInv
<1>1. /\ Stack = <<>> /\ call = NoCall /\ call.minor = {} /\ passed = 0 /\ handed = {} /\ lost = {}
      /\ destroyed = [t \in 1..MaxTokens |-> 0] /\ MaxTokens \in Nat
  BY LemparAssumption DEF EngineInit, Stack, Idle, NoCall
<1>2. Values(Stack) = {} /\ Apart(Stack) /\ Leaked(Stack) = {}
  BY <1>1, NoValues
<1>3. TokensInv
  BY <1>1, <1>2 DEF TokensInv
<1>4. CallInv
  BY <1>1 DEF CallInv, NoCall
<1>5. LeaksInv
  BY <1>1, <1>2 DEF LeaksInv
<1> QED
  BY <1>3, <1>4, <1>5, EngineInitial

LEMMA TokensInvariant ==
  EngineSpec /\ []AssertsHold => [](StackInv /\ TokensInv /\ CallInv /\ LeaksInv)
<1>1. StackInv /\ TokensInv /\ CallInv /\ LeaksInv /\ AssertsHold
        /\ [Engine /\ UNCHANGED parser]_<<engine, parser>>
        => (StackInv /\ TokensInv /\ CallInv /\ LeaksInv)'
  <2> SUFFICES ASSUME StackInv, TokensInv, CallInv, LeaksInv, AssertsHold,
                      [Engine /\ UNCHANGED parser]_<<engine, parser>>
               PROVE  (StackInv /\ TokensInv /\ CallInv /\ LeaksInv)'
    OBVIOUS
  <2>1. CASE Engine /\ UNCHANGED parser
    BY <2>1, StackStep, TokensStep, CallStep, LeaksStep
  <2>2. CASE UNCHANGED <<engine, parser>>
    <3>1. /\ Stack' = Stack /\ call' = call /\ passed' = passed /\ handed' = handed
          /\ destroyed' = destroyed /\ lost' = lost /\ parser' = parser
      BY <2>2 DEF engine, Stack
    <3>2. StackInv'
      BY <3>1 DEF StackInv, TablesOK, Looping
    <3>3. TokensInv'
      BY <3>1 DEF TokensInv, Shares, Gone, Values, Apart
    <3>4. CallInv'
      BY <3>1 DEF CallInv, Tokens, NoCall
    <3>5. LeaksInv'
      BY <3>1 DEF LeaksInv, Leaked, NothingLeaks, Tokens, FindReduceAction, InTable, AcceptAction, ErrorAction
    <3> QED
      BY <3>2, <3>3, <3>4, <3>5
  <2> QED
    BY <2>1, <2>2
<1> QED
  BY <1>1, TokensInitial, PTL DEF EngineSpec

(***************************************************************************)
(* The places of a token, counted.                                         *)
(***************************************************************************)
LEMMA PlacesAre ==
  ASSUME TokensInv, NEW t \in 1..passed
  PROVE  Places(t) = 1
<1>1. Cardinality({i \in DOMAIN Stack : t \in Stack[i].minor}) = Count(t \in Values(Stack))
  <2> DEFINE S == {i \in DOMAIN Stack : t \in Stack[i].minor}
  <2>1. \A x, y \in S : x = y
    BY DEF TokensInv, Apart
  <2>2. S # {} <=> t \in Values(Stack)
    BY DEF Values
  <2> HIDE DEF S
  <2>3. Cardinality(S) = Count(S # {})
    BY <2>1, OneOrNone
  <2> QED
    BY <2>2, <2>3 DEF Count, S
<1>2. Cardinality({l \in lost : l[1] = t}) = Count(t \in Gone)
  <2> DEFINE S == {l \in lost : l[1] = t}
  <2>1. \A x, y \in S : x = y
    BY DEF TokensInv
  <2>2. S # {} <=> t \in Gone
    BY DEF Gone
  <2> HIDE DEF S
  <2>3. Cardinality(S) = Count(S # {})
    BY <2>1, OneOrNone
  <2> QED
    BY <2>2, <2>3 DEF Count, S
<1>3. /\ (IF t \in call.minor THEN 1 ELSE 0) = Count(t \in call.minor)
      /\ (IF t \in handed THEN 1 ELSE 0) = Count(t \in handed)
  BY DEF Count
<1>4. Shares(t) = 1
  BY DEF TokensInv
<1> QED
  BY <1>1, <1>2, <1>3, <1>4 DEF Places, Shares

(***************************************************************************)
(* As long as no assertion fails, the value of each token passed is in one *)
(* place: none is destroyed twice, used after it was destroyed, or         *)
(* forgotten but where the tables or a full stack say so.                  *)
(***************************************************************************)
THEOREM TokensAreFreedOnce == EngineSpec /\ []AssertsHold => []TokensFreedOnce
<1>1. TokensInv /\ LeaksInv => TokensFreedOnce
  BY PlacesAre DEF LeaksInv, TokensFreedOnce
<1> QED
  BY <1>1, TokensInvariant, PTL

-----------------------------------------------------------------------------
(* Tables that configurations explain. *)

LEMMA ShiftActionKept ==
  ASSUME UNCHANGED parser, NEW s, NEW t
  PROVE  FindShiftAction(s, t)' = FindShiftAction(s, t)
  BY SMT DEF FindShiftAction, InTable

LEMMA ExplainsKept ==
  ASSUME UNCHANGED parser, NEW items, Explains(items)
  PROVE  Explains(items)'
<1>1. \A p, t : FindShiftAction(p, t)' = FindShiftAction(p, t)
  BY ShiftActionKept
<1>2. \A p, x : FindReduceAction(p, x)' = FindReduceAction(p, x)
  BY DEF FindReduceAction, InTable
<1>3. \A p, x : ReduceAsserted(p, x)' <=> ReduceAsserted(p, x)
  BY DEF ReduceAsserted, HasErrorSymbol, InTable
<1>4. \A p, x, q : MovesDot(items, p, x, q)' <=> MovesDot(items, p, x, q)
  BY DEF MovesDot
<1>5. /\ ErrorAction' = ErrorAction /\ AcceptAction' = AcceptAction /\ Tokens' = Tokens
      /\ HasErrorSymbol' <=> HasErrorSymbol
      /\ \A a : (IsShift(a)' <=> IsShift(a)) /\ (IsReduce(a)' <=> IsReduce(a))
  BY DEF ErrorAction, AcceptAction, Tokens, HasErrorSymbol, IsShift, IsReduce
<1> QED
  BY <1>1, <1>2, <1>3, <1>4, <1>5 DEF Explains

(***************************************************************************)
(* A path through the states from the first one, along the symbols of the  *)
(* stack.                                                                  *)
(***************************************************************************)
Path(items, s) ==
  /\ s # <<>> => s[1].stateno = 0
  /\ \A i \in 2..Len(s) : MovesDot(items, s[i - 1].stateno, s[i].major, s[i].stateno)

PathInv == \E items : Explains(items) /\ Path(items, Stack)

LEMMA NoPath ==
  ASSUME NEW items
  PROVE  Path(items, <<>>)
  BY NoEntry DEF Path

LEMMA PathBelow ==
  ASSUME NEW s, IsSequence(s), NEW items, Path(items, s), NEW n \in 1..Len(s)
  PROVE  LET below == SubSeq(s, 1, n)
         IN  /\ Path(items, below) /\ below # <<>> /\ IsSequence(below)
             /\ Last(below).stateno = s[n].stateno
<1> DEFINE below == SubSeq(s, 1, n)
<1>0. Len(s) \in Nat /\ s # <<>>
  BY LenIs
<1>1. n \in Int /\ n <= Len(s) /\ n > 0
  BY <1>0
<1>2. IsSequence(below) /\ Len(below) = n /\ \A i \in 1..n : below[i] = s[i]
  BY <1>1, BelowIs
<1> HIDE DEF below
<1>3. below # <<>> /\ below[1] = s[1] /\ below[n] = s[n]
  BY <1>1, <1>2, LenIs
<1>4. \A i \in 2..n : below[i] = s[i] /\ below[i - 1] = s[i - 1] /\ i \in 2..Len(s)
  BY <1>0, <1>1, <1>2
<1>5. Path(items, below)
  BY <1>0, <1>2, <1>3, <1>4 DEF Path
<1> QED
  BY <1>2, <1>3, <1>5, LastIs DEF below

LEMMA PathPush ==
  ASSUME NEW s, IsSequence(s), s # <<>>, NEW items, Path(items, s),
         NEW q, NEW x, NEW v, MovesDot(items, Last(s).stateno, x, q)
  PROVE  Path(items, Append(s, Entry(q, x, v)))
<1> DEFINE e == Entry(q, x, v)
           u == Append(s, e)
<1>1. /\ u # <<>> /\ Len(u) = Len(s) + 1 /\ u[Len(s) + 1] = e
      /\ \A j \in 1..Len(s) : u[j] = s[j]
  BY AppendIs
<1>2. Len(s) \in Nat \ {0}
  BY LenIs
<1>3. e.stateno = q /\ e.major = x
  BY DEF Entry
<1> HIDE DEF e, u
<1>4. ASSUME NEW i \in 2..Len(u)
      PROVE  MovesDot(items, u[i - 1].stateno, u[i].major, u[i].stateno)
  <2>1. CASE i = Len(s) + 1
    <3>1. i - 1 = Len(s) /\ u[i - 1] = s[Len(s)] /\ u[i] = e
      BY <1>1, <1>2, <2>1
    <3> QED
      BY <1>3, <3>1, LastIs
  <2>2. CASE i # Len(s) + 1
    <3>1. i \in 2..Len(s) /\ i - 1 \in 1..Len(s) /\ i \in 1..Len(s)
      BY <1>1, <1>2, <2>2
    <3>2. u[i] = s[i] /\ u[i - 1] = s[i - 1]
      BY <1>1, <3>1
    <3> QED
      BY <3>1, <3>2 DEF Path
  <2> QED
    BY <2>1, <2>2
<1>5. u[1].stateno = 0
  BY <1>1, <1>2 DEF Path
<1>6. Path(items, u)
  BY <1>4, <1>5 DEF Path
<1> QED
  BY <1>6 DEF e, u

\* The first state is only at the bottom.
LEMMA StatesAre ==
  ASSUME StackInv, NEW items, Path(items, Stack), NEW i \in 1..Len(Stack)
  PROVE  /\ Stack[i].stateno \in 0..parser.YYNSTATE - 1
         /\ Stack[i].stateno = 0 => i = 1
<1>1. Len(Stack) \in Nat /\ Stack # <<>> /\ parser.YYNSTATE \in Nat \ {0}
  BY LenIs DEF StackInv, TablesOK
<1>2. CASE i = 1
  BY <1>1, <1>2 DEF Path
<1>3. CASE i # 1
  <2>1. Stack[i].stateno \in 1..parser.YYNSTATE - 1
    BY <1>1, <1>3 DEF Path, MovesDot
  <2> QED
    BY <1>1, <2>1
<1> QED
  BY <1>2, <1>3

\* Of a set of numbers one is the least.
LEMMA LeastIs ==
  ASSUME NEW S \in SUBSET Nat, S # {}
  PROVE  \E x \in S : \A y \in S : x <= y
<1> DEFINE R == OpToRel(<, Nat)
<1>1. IsWellFoundedOn(R, Nat)
  BY Zenon, NatLessThanWellFounded
<1>2. PICK x \in S : \A y \in S : ~ (<<y, x>> \in R)
  <2> HIDE DEF R
  <2> QED
    BY <1>1, WFMin
<1>3. ASSUME NEW y \in S
      PROVE  x <= y
  <2>1. ~ (y < x)
    BY <1>2 DEF OpToRel
  <2> QED
    BY <2>1
<1> QED
  BY <1>3

(***************************************************************************)
(* The state on top of n entries has the dot of a rule behind its first d  *)
(* symbols: the stack holds these, and below them a state that predicts    *)
(* the rule.  (The first entry where the dot were elsewhere comes behind   *)
(* one where it is not, and the step between them moves it.)               *)
(***************************************************************************)
LEMMA DotMovesBack ==
  ASSUME NEW s, IsSequence(s), NEW items, Explains(items), Path(items, s),
         NEW n \in 1..Len(s), NEW r, NEW d \in Nat, <<r, d>> \in items[s[n].stateno]
  PROVE  /\ d < n /\ <<r, 0>> \in items[s[n - d].stateno]
         /\ \A i \in 1..d : i \in parser.rules[r].destroyed => s[n - d + i].major \in parser.destructible
<1> DEFINE At(j) == j < n /\ <<r, d - j>> \in items[s[n - j].stateno]
           Wrong == {j \in 0..d : ~At(j)}
<1>0. Len(s) \in Nat /\ s # <<>> /\ n \in Nat \ {0} /\ n <= Len(s)
  BY LenIs
<1>1. \A c \in items[s[1].stateno] : c[2] = 0
  <2>1. s[1].stateno = 0
    BY <1>0 DEF Path
  <2>2. \A c \in items[0] : c[2] = 0
    BY Zenon DEF Explains
  <2> QED
    BY <2>1, <2>2
<1>2. ASSUME NEW j \in Nat, j < d, At(j)
      PROVE  /\ At(j + 1)
             /\ d - j \in parser.rules[r].destroyed => s[n - j].major \in parser.destructible
  <2> DEFINE c == <<r, d - j>>
             m == n - j
  <2>1. c \in items[s[m].stateno] /\ c[1] = r /\ c[2] = d - j
    BY <1>2
  <2>2. m # 1
    BY <1>1, <1>2, <2>1
  <2>3. m \in 2..Len(s)
    <3>1. j < n /\ m \in Int /\ m <= n /\ m > 0
      BY <1>0, <1>2
    <3> QED
      BY <1>0, <2>2, <3>1
  <2>4. MovesDot(items, s[m - 1].stateno, s[m].major, s[m].stateno)
    BY <2>3 DEF Path
  <2>5. c[2] > 0
    BY <1>2, <2>1
  <2>6. /\ <<c[1], c[2] - 1>> \in items[s[m - 1].stateno]
        /\ c[2] \in parser.rules[c[1]].destroyed => s[m].major \in parser.destructible
    BY <2>1, <2>4, <2>5 DEF MovesDot
  <2>7. d - (j + 1) = d - j - 1 /\ n - (j + 1) = m - 1 /\ j + 1 < n
    BY <1>0, <1>2, <2>3
  <2> HIDE DEF c, m
  <2>8. At(j + 1)
    BY <2>1, <2>6, <2>7
  <2> QED
    BY <2>1, <2>6, <2>8 DEF m
<1>3. At(0)
  BY <1>0
<1> HIDE DEF At
<1>4. Wrong = {}
  <2> SUFFICES ASSUME Wrong # {}
               PROVE  FALSE
    OBVIOUS
  <2>1. Wrong \subseteq Nat
    OBVIOUS
  <2>2. PICK j \in Wrong : \A k \in Wrong : j <= k
    <3> HIDE DEF Wrong
    <3> QED
      BY <2>1, LeastIs
  <2>3. j \in Nat /\ j <= d /\ ~At(j) /\ j # 0
    BY <1>3
  <2>4. j - 1 \in Nat /\ j - 1 < d /\ j - 1 + 1 = j
    BY <2>3
  <2>5. ~At(j - 1)
    BY <1>2, <2>3, <2>4
  <2>6. j - 1 \in Wrong
    BY <2>4, <2>5
  <2>7. j <= j - 1
    <3> HIDE DEF Wrong
    <3> QED
      BY <2>2, <2>6
  <2> QED
    BY <2>3, <2>7
<1>5. \A j \in 0..d : At(j)
  BY <1>4
<1>6. d < n /\ <<r, 0>> \in items[s[n - d].stateno]
  <2>1. At(d) /\ d - d = 0
    BY <1>5
  <2> QED
    BY <2>1 DEF At
<1>7. ASSUME NEW i \in 1..d, i \in parser.rules[r].destroyed
      PROVE  s[n - d + i].major \in parser.destructible
  <2>1. d - i \in Nat /\ d - i < d /\ At(d - i) /\ d - (d - i) = i /\ n - (d - i) = n - d + i
    BY <1>0, <1>5
  <2> QED
    BY <1>2, <1>7, <2>1
<1> QED
  BY <1>6, <1>7

\* What the tables say of a token in a state, and of the nonterminal behind a
\* reduction.
LEMMA TokenExplained ==
  ASSUME NEW items, Explains(items), NEW p \in 0..parser.YYNSTATE - 1, NEW t \in Tokens,
         NEW act, act = FindShiftAction(p, t)
  PROVE  LET r == act - parser.YYNSTATE + 1
             rule == parser.rules[r]
         IN  /\ act \in 0..ErrorAction
             /\ IsShift(act) => t # 0 /\ MovesDot(items, p, t, act)
             /\ IsReduce(act) =>
                  /\ <<r, rule.nrhs>> \in items[p]
                  /\ FindReduceAction(0, rule.lhs) = AcceptAction => t = 0
  BY Zenon DEF Explains

LEMMA NonterminalExplained ==
  ASSUME NEW items, Explains(items), NEW p \in 0..parser.YYNSTATE - 1,
         NEW r, <<r, 0>> \in items[p]
  PROVE  LET lhs == parser.rules[r].lhs
             next == FindReduceAction(p, lhs)
         IN  /\ ReduceAsserted(p, lhs)
             /\ \/ IsShift(next) /\ MovesDot(items, p, lhs, next)
                \/ next = AcceptAction /\ p = 0
<1> DEFINE c == <<r, 0>>
<1>1. c \in items[p] /\ c[1] = r /\ c[2] = 0
  OBVIOUS
<1> HIDE DEF c
<1>2. LET lhs == parser.rules[c[1]].lhs
          next == FindReduceAction(p, lhs)
      IN  c[2] = 0 =>
            /\ ReduceAsserted(p, lhs)
            /\ \/ IsShift(next) /\ MovesDot(items, p, lhs, next)
               \/ next = AcceptAction /\ p = 0
  BY <1>1, Zenon DEF Explains
<1> QED
  BY <1>1, <1>2, Zenon

LEMMA ErrorExplained ==
  ASSUME NEW items, Explains(items), NEW p \in 0..parser.YYNSTATE - 1, HasErrorSymbol,
         IsShift(FindReduceAction(p, parser.YYERRORSYMBOL))
  PROVE  MovesDot(items, p, parser.YYERRORSYMBOL, FindReduceAction(p, parser.YYERRORSYMBOL))
  BY Zenon DEF Explains

(***************************************************************************)
(* A rule that is reduced has all its symbols on the stack, above a state  *)
(* that goes on with its nonterminal.                                      *)
(***************************************************************************)
LEMMA ReductionFits ==
  ASSUME StackInv, CallInv, NEW items, Explains(items), Path(items, Stack),
         Looping, IsReduce(action)
  PROVE  LET rule == parser.rules[action - parser.YYNSTATE + 1]
             n == Len(Stack) - rule.nrhs
             next == FindReduceAction(Stack[n].stateno, rule.lhs)
         IN  /\ n \in 1..Len(Stack)
             /\ ReduceAsserted(Stack[n].stateno, rule.lhs)
             /\ \/ IsShift(next) /\ MovesDot(items, Stack[n].stateno, rule.lhs, next)
                \/ next = AcceptAction /\ n = 1 /\ call.major = 0
             /\ \A i \in rule.destroyed : Stack[n + i].major \in parser.destructible
<1> DEFINE r == action - parser.YYNSTATE + 1
           rule == parser.rules[r]
           l == Len(Stack)
           n == l - rule.nrhs
           p == Stack[n].stateno
           next == FindReduceAction(p, rule.lhs)
<1>1. r \in 1..parser.YYNRULE /\ rule.nrhs \in Nat
  BY RuleIs
<1>2. rule.destroyed \subseteq 1..rule.nrhs
  BY <1>1 DEF StackInv, TablesOK
<1>3. /\ IsSequence(Stack) /\ l \in Nat \ {0} /\ l \in 1..Len(Stack)
      /\ call.major \in Tokens
  BY LenIs DEF StackInv, CallInv, Looping
<1>4. Stack[l].stateno \in 0..parser.YYNSTATE - 1
  BY <1>3, StatesAre
<1>5. action = FindShiftAction(Stack[l].stateno, call.major)
  BY LastIs DEF action, top
<1>6. /\ <<r, rule.nrhs>> \in items[Stack[l].stateno]
      /\ FindReduceAction(0, rule.lhs) = AcceptAction => call.major = 0
  BY <1>3, <1>4, <1>5, TokenExplained, Zenon
<1> HIDE DEF r, l
<1>7. /\ rule.nrhs < l /\ <<r, 0>> \in items[p]
      /\ \A i \in 1..rule.nrhs : i \in parser.rules[r].destroyed
                                   => Stack[n + i].major \in parser.destructible
  <2> HIDE DEF rule
  <2>1. rule.nrhs \in Nat
    BY <1>1
  <2> QED
    BY <1>3, <1>6, <2>1, DotMovesBack DEF n, p
<1>8. n \in 1..Len(Stack)
  <2> HIDE DEF rule
  <2> QED
    BY <1>1, <1>3, <1>7 DEF l
<1>9. p \in 0..parser.YYNSTATE - 1 /\ (p = 0 => n = 1)
  <2> HIDE DEF n
  <2> QED
    BY <1>8, StatesAre DEF p
<1>10. /\ ReduceAsserted(p, rule.lhs)
       /\ \/ IsShift(next) /\ MovesDot(items, p, rule.lhs, next)
          \/ next = AcceptAction /\ p = 0
  <2> HIDE DEF p
  <2> QED
    BY <1>7, <1>9, NonterminalExplained
<1>11. \A i \in rule.destroyed : Stack[n + i].major \in parser.destructible
  <2> HIDE DEF n
  <2>1. ASSUME NEW i \in rule.destroyed
        PROVE  Stack[n + i].major \in parser.destructible
    <3>1. i \in 1..rule.nrhs
      BY <1>2
    <3> QED
      BY <1>7, <3>1
  <2> QED
    BY <2>1
<1>12. next = AcceptAction /\ p = 0 => n = 1 /\ call.major = 0
  <2> HIDE DEF p, n
  <2> QED
    BY <1>6, <1>9
<1> QED
  BY <1>8, <1>10, <1>11, <1>12, Zenon DEF r, l

LEMMA PathAsserts ==
  ASSUME StackInv, CallInv, PathInv
  PROVE  AssertsHold
<1>1. PICK items : Explains(items) /\ Path(items, Stack)
  BY DEF PathInv
<1>2. Len(Stack) <= StackDepth /\ TablesOK
  BY DEF StackInv
<1>3. ASSUME Looping
      PROVE  action \in 0..ErrorAction /\ (IsShift(action) => call.major # 0)
  <2>1. Len(Stack) \in 1..Len(Stack) /\ call.major \in Tokens
    BY <1>3, LenIs DEF StackInv, CallInv, Looping
  <2>2. Stack[Len(Stack)].stateno \in 0..parser.YYNSTATE - 1
    BY <1>1, <2>1, StatesAre
  <2>3. action = FindShiftAction(Stack[Len(Stack)].stateno, call.major)
    BY LastIs DEF action, top
  <2> QED
    BY <1>1, <2>1, <2>2, <2>3, TokenExplained, Zenon
<1>4. ASSUME Looping, IsReduce(action)
      PROVE  LET rule == parser.rules[action - parser.YYNSTATE + 1]
                 n == Len(Stack) - rule.nrhs
                 next == FindReduceAction(Stack[n].stateno, rule.lhs)
             IN  /\ n > 0
                 /\ ReduceAsserted(Stack[n].stateno, rule.lhs)
                 /\ IsShift(next) \/ (next = AcceptAction /\ n = 1 /\ call.major = 0)
                 /\ \A i \in rule.destroyed : Stack[n + i].major \in parser.destructible
  <2> DEFINE rule == parser.rules[action - parser.YYNSTATE + 1]
             n == Len(Stack) - rule.nrhs
  <2>1. n \in 1..Len(Stack) /\ Len(Stack) \in Nat
    BY <1>1, <1>4, ReductionFits, LenIs DEF StackInv
  <2>2. n > 0
    BY <2>1
  <2> QED
    BY <1>1, <1>4, <2>2, ReductionFits
<1> QED
  BY <1>2, <1>3, <1>4, Zenon DEF AssertsHold

LEMMA PathKept ==
  ASSUME UNCHANGED parser, NEW items, Explains(items), Path(items, Stack')
  PROVE  PathInv'
<1>1. Explains(items)'
  BY ExplainsKept
<1>2. Path(items, Stack)'
  BY DEF Path, MovesDot
<1> QED
  BY <1>1, <1>2 DEF PathInv

LEMMA IdlePath ==
  ASSUME UNCHANGED parser, PathInv, yy' = Idle
  PROVE  PathInv'
<1>1. Stack' = <<>>
  BY DEF Stack, Idle
<1> QED
  BY <1>1, NoPath, PathKept DEF PathInv

LEMMA DiscardPath ==
  ASSUME UNCHANGED parser, PathInv, NEW fails \in BOOLEAN, DiscardAndFail(Stack, fails)
  PROVE  PathInv'
<1>1. yy' = IF fails THEN Idle ELSE [stack |-> Stack, yyerrcnt |-> 3]
  BY DEF DiscardAndFail
<1>2. CASE fails
  BY <1>1, <1>2, IdlePath
<1>3. CASE ~fails
  <2>1. Stack' = Stack
    BY <1>1, <1>3 DEF Stack
  <2> QED
    BY <2>1, PathKept DEF PathInv
<1> QED
  BY <1>2, <1>3

LEMMA PathStep ==
  ASSUME StackInv, CallInv, PathInv, Engine, UNCHANGED parser
  PROVE  PathInv'
<1>0. PICK items : Explains(items) /\ Path(items, Stack)
  BY DEF PathInv
<1>a. IsSequence(Stack) /\ Len(Stack) \in Nat
  BY LenIs DEF StackInv
<1>1. CASE ParseToken
  <2>1. CASE Stack = <<>>
    <3>1. Stack' = <<Entry(0, 0, {})>>
      BY <1>1, <2>1 DEF ParseToken, Stack
    <3>2. Len(Stack') = 1 /\ Stack'[1] = Entry(0, 0, {})
      BY <3>1, OneEntry
    <3>3. Path(items, Stack')
      BY <3>2 DEF Path, Entry
    <3> QED
      BY <1>0, <3>3, PathKept
  <2>2. CASE Stack # <<>>
    <3>1. Stack' = Stack
      BY <1>1, <2>2 DEF ParseToken, Stack
    <3> QED
      BY <1>0, <3>1, PathKept
  <2> QED
    BY <2>1, <2>2
<1>2. CASE ShiftToken
  <2>1. CASE Full(Stack)
    BY <1>2, <2>1, IdlePath DEF ShiftToken
  <2>2. CASE ~Full(Stack)
    <3>1. Stack' = Append(Stack, Entry(action, call.major, call.minor))
      BY <1>2, <2>2 DEF ShiftToken, Stack
    <3>2. Looping /\ IsShift(action) /\ Stack # <<>> /\ call.major \in Tokens
      BY <1>2 DEF ShiftToken, StackInv, CallInv, Looping
    <3>3. Len(Stack) \in 1..Len(Stack)
      BY <1>a, <3>2, LenIs
    <3>4. top.stateno \in 0..parser.YYNSTATE - 1
      BY <1>0, <3>3, StatesAre, LastIs DEF top
    <3>5. MovesDot(items, Last(Stack).stateno, call.major, action)
      BY <1>0, <3>2, <3>4, TokenExplained, Zenon DEF action, top
    <3>6. Path(items, Stack')
      BY <1>0, <1>a, <3>1, <3>2, <3>5, PathPush
    <3> QED
      BY <1>0, <3>6, PathKept
  <2> QED
    BY <2>1, <2>2
<1>3. CASE ReduceRule
  <2> DEFINE rule == parser.rules[action - parser.YYNSTATE + 1]
             n == Len(Stack) - rule.nrhs
             below == SubSeq(Stack, 1, n)
             next == FindReduceAction(Last(below).stateno, rule.lhs)
  <2>1. PICK v : \/ IsShift(next) /\ yy' = [yy EXCEPT !.stack = Append(below, Entry(next, rule.lhs, v))]
                 \/ yy' = Idle
    BY <1>3, Zenon DEF ReduceRule
  <2>2. Looping /\ IsReduce(action)
    BY <1>3, Zenon DEF ReduceRule
  <2>3. /\ n \in 1..Len(Stack)
        /\ \/ MovesDot(items, Stack[n].stateno, rule.lhs,
                       FindReduceAction(Stack[n].stateno, rule.lhs))
           \/ FindReduceAction(Stack[n].stateno, rule.lhs) = AcceptAction
    BY <1>0, <2>2, ReductionFits
  <2>4. ~IsShift(AcceptAction)
    BY DEF IsShift, AcceptAction, ErrorAction, StackInv, TablesOK
  <2> HIDE DEF n, rule
  <2>5. /\ Path(items, below) /\ below # <<>> /\ IsSequence(below)
        /\ Last(below).stateno = Stack[n].stateno
    BY <1>0, <1>a, <2>3, PathBelow
  <2> HIDE DEF below
  <2>6. CASE IsShift(next) /\ yy' = [yy EXCEPT !.stack = Append(below, Entry(next, rule.lhs, v))]
    <3>1. Stack' = Append(below, Entry(next, rule.lhs, v))
      BY <2>6 DEF Stack
    <3>2. MovesDot(items, Last(below).stateno, rule.lhs, next)
      BY <2>3, <2>4, <2>5, <2>6
    <3> HIDE DEF next
    <3>3. Path(items, Stack')
      BY <2>5, <3>1, <3>2, PathPush
    <3> QED
      BY <1>0, <3>3, PathKept
  <2> QED
    BY <2>1, <2>6, IdlePath
<1>4. CASE SyntaxError
  BY <1>4, DiscardPath DEF SyntaxError
<1>5. CASE DiscardToken
  BY <1>5, DiscardPath DEF DiscardToken
<1>6. CASE Recover
  <2> DEFINE i == Max(Resumable \cup {0})
             kept == SubSeq(Stack, 1, i)
             next == FindReduceAction(kept[i].stateno, parser.YYERRORSYMBOL)
  <2>1. i \in 0..Len(Stack) /\ (i = 0 \/ i \in Resumable)
    <3>1. Resumable \subseteq 1..Len(Stack)
      BY <1>a, LenIs DEF Resumable
    <3>2. Resumable \cup {0} \in SUBSET (0..Len(Stack)) /\ Resumable \cup {0} # {}
      BY <1>a, <3>1
    <3> HIDE DEF Resumable
    <3>3. i \in Resumable \cup {0}
      BY <1>a, <3>2, MaxIs
    <3> QED
      BY <3>2, <3>3
  <2>2. \/ DiscardAndFail(Stack, TRUE)
        \/ i > 0 /\ yy' = [stack |-> Append(kept, Entry(next, parser.YYERRORSYMBOL, {})),
                           yyerrcnt |-> 3]
        \/ yy' = Idle
    BY <1>6 DEF Recover
  <2>3. HasErrorSymbol
    BY <1>6 DEF Recover
  <2> HIDE DEF i
  <2>4. ASSUME i > 0, yy' = [stack |-> Append(kept, Entry(next, parser.YYERRORSYMBOL, {})),
                             yyerrcnt |-> 3]
        PROVE  PathInv'
    <3>1. i \in 1..Len(Stack) /\ i \in Resumable
      BY <1>a, <2>1, <2>4
    <3>2. Stack' = Append(kept, Entry(next, parser.YYERRORSYMBOL, {}))
      BY <2>4 DEF Stack
    <3>3. /\ Path(items, kept) /\ kept # <<>> /\ IsSequence(kept)
          /\ Last(kept).stateno = Stack[i].stateno
      BY <1>0, <1>a, <3>1, PathBelow
    <3>4. kept[i] = Stack[i]
      BY <1>a, <3>1, BelowIs
    <3> HIDE DEF kept
    <3>5. Stack[i].stateno \in 0..parser.YYNSTATE - 1
      BY <1>0, <3>1, StatesAre
    <3>6. MovesDot(items, Last(kept).stateno, parser.YYERRORSYMBOL, next)
      BY <1>0, <2>3, <3>1, <3>3, <3>4, <3>5, ErrorExplained DEF Resumable, Shifts
    <3> HIDE DEF next
    <3>7. Path(items, Stack')
      BY <3>2, <3>3, <3>6, PathPush
    <3> QED
      BY <1>0, <3>7, PathKept
  <2> HIDE DEF kept, next
  <2> QED
    BY <2>2, <2>4, DiscardPath, IdlePath
<1>7. CASE ParseFree
  BY <1>7, IdlePath DEF ParseFree
<1> QED
  BY <1>1, <1>2, <1>3, <1>4, <1>5, <1>6, <1>7 DEF Engine, ParseLoop

LEMMA PathInvariant ==
  EngineSpec /\ (\E items : Explains(items)) => [](StackInv /\ CallInv /\ PathInv)
<1>1. StackInv /\ CallInv /\ PathInv /\ [Engine /\ UNCHANGED parser]_<<engine, parser>>
        => (StackInv /\ CallInv /\ PathInv)'
  <2> SUFFICES ASSUME StackInv, CallInv, PathInv,
                      [Engine /\ UNCHANGED parser]_<<engine, parser>>
               PROVE  (StackInv /\ CallInv /\ PathInv)'
    OBVIOUS
  <2>1. CASE Engine /\ UNCHANGED parser
    BY <2>1, StackStep, CallStep, PathStep
  <2>2. CASE UNCHANGED <<engine, parser>>
    <3>1. Stack' = Stack /\ call' = call /\ parser' = parser
      BY <2>2 DEF engine, Stack
    <3>2. StackInv'
      BY <3>1 DEF StackInv, TablesOK, Looping
    <3>3. CallInv'
      BY <3>1 DEF CallInv, Tokens, NoCall
    <3>4. PathInv'
      BY <3>1, PathKept DEF PathInv
    <3> QED
      BY <3>2, <3>3, <3>4
  <2> QED
    BY <2>1, <2>2
<1>2. EngineInit /\ TablesOK /\ (\E items : Explains(items)) => StackInv /\ CallInv /\ PathInv
  <2> SUFFICES ASSUME EngineInit, TablesOK, NEW items, Explains(items)
               PROVE  StackInv /\ CallInv /\ PathInv
    OBVIOUS
  <2>1. Stack = <<>>
    BY DEF EngineInit, Stack, Idle
  <2>2. PathInv
    BY <2>1, NoPath DEF PathInv
  <2> QED
    BY <2>2, TokensInitial
<1> QED
  BY <1>1, <1>2, PTL DEF EngineSpec

(***************************************************************************)
(* On tables that configurations explain no assertion of the engine fails, *)
(* whatever the host passes, however deep the stack and however long the   *)
(* input: what is reduced is on the stack, and a state goes on behind it.  *)
(* TablesExact checks that the configurations of lemon's own states        *)
(* explain the tables it writes.                                           *)
(***************************************************************************)
THEOREM AssertionsHold == EngineSpec /\ (\E items : Explains(items)) => []AssertsHold
<1>1. StackInv /\ CallInv /\ PathInv => AssertsHold
  BY PathAsserts
<1> QED
  BY <1>1, PathInvariant, PTL

(***************************************************************************)
(* On such tables, then, the value of each token passed is in one place:   *)
(* none is destroyed twice, used after it was destroyed, or forgotten but  *)
(* where the tables or a full stack say so.                                *)
(***************************************************************************)
THEOREM ExplainedTokensAreFreedOnce ==
  EngineSpec /\ (\E items : Explains(items)) => []TokensFreedOnce
  BY AssertionsHold, TokensAreFreedOnce, PTL
=============================================================================
