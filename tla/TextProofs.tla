----------------------------- MODULE TextProofs -----------------------------
(***************************************************************************)
(* Proofs about the texts the plugin makes and takes apart.                *)
(*                                                                         *)
(* For every template and every name, a search looks for exactly the name  *)
(* that was given.  A text that is appended to another one must be         *)
(* understood there as it is alone; what a quoted name stands for it       *)
(* stands for in front of anything.                                        *)
(*                                                                         *)
(* For every password and every response, an answer to a challenge yields  *)
(* what was encoded or is refused as too long.  Where a token starts       *)
(* follows from where the colons of the text are; base64 has none.         *)
(*                                                                         *)
(* For every text, a token of the configuration answers with its number or *)
(* its truth value, whatever it kept of earlier answers.                   *)
(*                                                                         *)
(* For every file and every command line, lemon reads the file without the *)
(* blocks its directives leave out.  How deep a place is in blocks is      *)
(* counted from where the block that is left out begins.                   *)
(***************************************************************************)
EXTENDS TextProps, SequenceTheorems, FiniteSetTheorems, WellFoundedInduction, TLAPS

-----------------------------------------------------------------------------
(* Numbers and sequences. *)

\* Of a set of numbers one is the least.
LEMMA LeastIs ==
  ASSUME NEW S \in SUBSET Nat, S # {}
  PROVE  \E x \in S : \A y \in S : x <= y
<1> DEFINE R == OpToRel(<, Nat)
<1>1. IsWellFoundedOn(R, Nat)
  BY Zenon, NatLessThanWellFounded
<1>2. PICK x \in S : \A y \in S : ~ (<<y, x>> \in R)
  <2> HIDE DEF R
  <2> QED
    BY <1>1, WFMin
<1>3. ASSUME NEW y \in S
      PROVE  x <= y
  <2>1. ~ (y < x)
    BY <1>2 DEF OpToRel
  <2> QED
    BY <2>1
<1> QED
  BY <1>3

\* A set that holds 0, and with each number the next one, holds them all.
LEMMA Climbing ==
  ASSUME NEW D, 0 \in D, \A n \in Nat : n \in D => n + 1 \in D
  PROVE  \A n \in Nat : n \in D
<1> DEFINE Out == Nat \ D
<1> SUFFICES ASSUME Out # {}
             PROVE  FALSE
  OBVIOUS
<1>1. Out \in SUBSET Nat
  OBVIOUS
<1>2. PICK n \in Out : \A m \in Out : n <= m
  <2> HIDE DEF Out
  <2> QED
    BY <1>1, LeastIs
<1>3. n \in Nat \ {0} /\ n - 1 \in Nat /\ n - 1 + 1 = n
  OBVIOUS
<1>4. n - 1 \notin Out
  <2> HIDE DEF Out
  <2> QED
    BY <1>2, <1>3
<1> QED
  BY <1>3, <1>4

LEMMA FirstCharacter ==
  ASSUME NEW S, NEW s \in Seq(S), s # <<>>
  PROVE  \E ch \in S, t \in Seq(S) : s = <<ch>> \o t /\ Len(t) = Len(s) - 1
<1>1. Len(s) \in Nat \ {0} /\ 1 \in 1..Len(s) /\ Len(s) \in 1..Len(s)
  BY EmptySeq
<1>2. SubSeq(s, 1, Len(s)) = <<s[1]>> \o SubSeq(s, 1 + 1, Len(s))
  BY <1>1, SubSeqRecursiveFirst
<1>3. SubSeq(s, 1, Len(s)) = s
  BY SubSeqFull
<1>4. s[1] \in S
  BY <1>1, ElementOfSeq
<1>5. Tail(s) = SubSeq(s, 1 + 1, Len(s)) /\ Tail(s) \in Seq(S) /\ Len(Tail(s)) = Len(s) - 1
  BY TailIsSubSeq, HeadTailProperties
<1>6. s = <<s[1]>> \o Tail(s)
  BY <1>2, <1>3, <1>5
<1> QED
  BY Zenon, <1>4, <1>5, <1>6

\* The end of a text with a character, or two, in front of it.
LEMMA BehindOne ==
  ASSUME NEW S, NEW ch \in S, NEW t \in Seq(S)
  PROVE  LET s == <<ch>> \o t
         IN  /\ s \in Seq(S) /\ s # <<>> /\ Len(s) = Len(t) + 1 /\ s[1] = ch
             /\ \A i \in 1..Len(t) : s[i + 1] = t[i]
             /\ SubSeq(s, 2, Len(s)) = t
<1> DEFINE s == <<ch>> \o t
<1>1. <<ch>> \in Seq(S) /\ Len(<<ch>>) = 1 /\ <<ch>>[1] = ch /\ Len(t) \in Nat
  OBVIOUS
<1>2. s \in Seq(S) /\ Len(s) = 1 + Len(t)
      /\ \A i \in 1..1 + Len(t) : s[i] = IF i <= 1 THEN <<ch>>[i] ELSE t[i - 1]
  BY <1>1, ConcatProperties
<1> HIDE DEF s
<1>3. s # <<>> /\ s[1] = ch
  BY <1>1, <1>2, EmptySeq
<1>4. ASSUME NEW i \in 1..Len(t)
      PROVE  s[i + 1] = t[i]
  <2>1. i + 1 \in 1..1 + Len(t) /\ ~(i + 1 <= 1) /\ i + 1 - 1 = i
    BY <1>1
  <2> QED
    BY <1>2, <2>1
<1>5. \A i \in 2..Len(s) : s[i] \in S
  BY <1>1, <1>2, ElementOfSeq
<1>6. /\ SubSeq(s, 2, Len(s)) \in Seq(S)
      /\ Len(SubSeq(s, 2, Len(s))) = Len(t)
      /\ \A i \in 1..Len(s) - 2 + 1 : SubSeq(s, 2, Len(s))[i] = s[2 + i - 1]
  BY <1>1, <1>2, <1>5, SubSeqProperties
<1>7. \A i \in 1..Len(t) : SubSeq(s, 2, Len(s))[i] = t[i]
  BY <1>1, <1>2, <1>4, <1>6
<1>8. SubSeq(s, 2, Len(s)) = t
  BY <1>6, <1>7, SeqEqual
<1> QED
  BY <1>1, <1>2, <1>3, <1>4, <1>8 DEF s

-----------------------------------------------------------------------------
(* Readings. *)

\* The characters of a text, with those that the code itself puts in, and what
\* they may mean.
Chars == STRING \cup {"\\", "\n"}
Senses == Chars \X {"text", "syntax"}

\* A name for it: the provers take a concatenation apart wherever they see one.
Then(s, t) == s \o t

Pieces(n, piece) ==
  \A i \in 1..n : /\ piece[i].takes \in {1, 2} /\ i + piece[i].takes <= n + 1
                  /\ piece[i].means \in Seq(Senses)

\* The pieces from the k-th place on.
Behind(m, k, piece, rest) == \A i \in 1..m : rest[i] = piece[i + k]

Reads(n, piece, f) ==
  f = [i \in 1..n + 1 |-> IF i > n THEN <<>> ELSE piece[i].means \o f[i + piece[i].takes]]

\* From the right, one more place a time.
LEMMA ReadingExists ==
  ASSUME NEW n \in Nat, NEW piece, Pieces(n, piece)
  PROVE  \E f : Reads(n, piece, f)
<1> DEFINE Value(f, i) == IF i > n THEN <<>> ELSE piece[i].means \o f[i + piece[i].takes]
           D == {k \in Nat : k <= n => \E f : \A i \in n + 1 - k..n + 1 : f[i] = Value(f, i)}
<1>1. 0 \in D
  <2> DEFINE f == [i \in {n + 1} |-> <<>>]
  <2>1. ASSUME NEW i \in n + 1 - 0..n + 1
        PROVE  f[i] = Value(f, i)
    <3>1. i = n + 1 /\ i > n
      OBVIOUS
    <3>2. f[n + 1] = <<>>
      OBVIOUS
    <3> HIDE DEF f
    <3> QED
      BY <3>1, <3>2
  <2> HIDE DEF f
  <2> QED
    BY <2>1
<1>2. ASSUME NEW k \in Nat, k \in D
      PROVE  k + 1 \in D
  <2> SUFFICES ASSUME k + 1 <= n
               PROVE  \E f : \A i \in n + 1 - (k + 1)..n + 1 : f[i] = Value(f, i)
    OBVIOUS
  <2>1. PICK f : \A i \in n + 1 - k..n + 1 : f[i] = Value(f, i)
    BY <1>2
  <2> DEFINE m == n - k
             g == [i \in m..n + 1 |-> IF i = m THEN Value(f, m) ELSE f[i]]
  <2>2. m \in 1..n /\ m \in Nat /\ n + 1 - k = m + 1 /\ n + 1 - (k + 1) = m
    OBVIOUS
  <2>3. g[m] = Value(f, m) /\ \A i \in m + 1..n + 1 : g[i] = f[i]
    <3> HIDE DEF m, Value
    <3>1. m \in m..n + 1
      BY <2>2
    <3>2. \A i \in m + 1..n + 1 : i \in m..n + 1 /\ i # m
      BY <2>2
    <3> QED
      BY <3>1, <3>2
  <2> HIDE DEF m, g
  <2>4. ASSUME NEW i \in m..n + 1
        PROVE  g[i] = Value(f, i)
    <3>1. CASE i = m
      BY <2>3, <3>1
    <3>2. CASE i # m
      <4>1. i \in m + 1..n + 1
        BY <2>2, <3>2
      <4> QED
        BY <2>1, <2>2, <2>3, <4>1
    <3> QED
      BY <3>1, <3>2
  <2>5. ASSUME NEW i \in m..n + 1
        PROVE  Value(g, i) = Value(f, i)
    <3>1. CASE i > n
      BY <3>1
    <3>2. CASE ~(i > n)
      <4> DEFINE takes == piece[i].takes
      <4>1. i \in 1..n /\ i \in Nat
        BY <2>2, <3>2
      <4>2. takes \in {1, 2} /\ i + takes <= n + 1
        BY <4>1 DEF Pieces
      <4> HIDE DEF takes
      <4>3. i + takes \in m + 1..n + 1
        BY <2>2, <4>1, <4>2
      <4> USE DEF takes
      <4> QED
        BY <2>3, <4>3
    <3> QED
      BY <3>1, <3>2
  <2> HIDE DEF Value
  <2> QED
    BY <2>2, <2>4, <2>5
<1>3. n \in D
  <2> HIDE DEF D
  <2> QED
    BY <1>1, <1>2, Climbing
<1>4. PICK f : \A i \in n + 1 - n..n + 1 : f[i] = Value(f, i)
  BY <1>3
<1> DEFINE F == [i \in 1..n + 1 |-> f[i]]
<1>5. ASSUME NEW i \in 1..n + 1
      PROVE  f[i] = Value(F, i)
  <2>1. f[i] = Value(f, i)
    BY <1>4
  <2>2. CASE i > n
    BY <2>1, <2>2
  <2>3. CASE ~(i > n)
    <3>1. i + piece[i].takes \in 1..n + 1
      BY <2>3 DEF Pieces
    <3>2. F[i + piece[i].takes] = f[i + piece[i].takes]
      BY <3>1
    <3> HIDE DEF F
    <3> QED
      BY <2>1, <3>2
  <2> QED
    BY <2>2, <2>3
<1>6. F = [i \in 1..n + 1 |-> Value(F, i)]
  <2>1. F = [i \in 1..n + 1 |-> f[i]]
    OBVIOUS
  <2> HIDE DEF F, Value
  <2> QED
    BY <1>5, <2>1
<1> QED
  BY <1>6 DEF Reads

LEMMA ReadingIs ==
  ASSUME NEW n \in Nat, NEW piece, Pieces(n, piece)
  PROVE  \E f : Reads(n, piece, f) /\ ReadBy(n, piece) = f[1]
<1> DEFINE f == CHOOSE f : Reads(n, piece, f)
<1>1. Reads(n, piece, f)
  BY ReadingExists
<1>2. ReadBy(n, piece) = f[1]
  BY Zenon DEF ReadBy, Reads
<1> QED
  BY <1>1, <1>2

LEMMA ReadNothing ==
  ASSUME NEW piece
  PROVE  ReadBy(0, piece) = <<>>
<1>1. Pieces(0, piece)
  BY DEF Pieces
<1>2. PICK f : Reads(0, piece, f) /\ ReadBy(0, piece) = f[1]
  BY <1>1, ReadingIs
<1>3. \A i \in 1..0 + 1 : f[i] = IF i > 0 THEN <<>> ELSE piece[i].means \o f[i + piece[i].takes]
  BY <1>2 DEF Reads
<1> QED
  BY <1>2, <1>3

\* Behind the first k places there is read what is read there alone.
LEMMA ReadingShifts ==
  ASSUME NEW n \in Nat, NEW m \in Nat, NEW k \in Nat, n = m + k,
         NEW piece, NEW rest, Pieces(m, rest), Behind(m, k, piece, rest),
         NEW f, Reads(n, piece, f), NEW g, Reads(m, rest, g)
  PROVE  \A i \in 1..m + 1 : g[i] = f[i + k]
<1>1. \A i \in 1..n + 1 : f[i] = IF i > n THEN <<>> ELSE piece[i].means \o f[i + piece[i].takes]
  BY DEF Reads
<1>2. \A i \in 1..m + 1 : g[i] = IF i > m THEN <<>> ELSE rest[i].means \o g[i + rest[i].takes]
  BY DEF Reads
<1> DEFINE D == {d \in Nat : \A i \in 1..m + 1 : m + 1 - i <= d => g[i] = f[i + k]}
<1>3. g[m + 1] = <<>> /\ f[m + 1 + k] = <<>>
  <2>1. m + 1 \in 1..m + 1 /\ m + 1 > m /\ m + 1 + k \in 1..n + 1 /\ m + 1 + k > n
    OBVIOUS
  <2> QED
    BY <1>1, <1>2, <2>1
<1>4. 0 \in D
  <2>1. ASSUME NEW i \in 1..m + 1, m + 1 - i <= 0
        PROVE  i = m + 1
    BY <2>1
  <2> QED
    BY <1>3, <2>1
<1>5. ASSUME NEW d \in Nat, d \in D
      PROVE  d + 1 \in D
  <2> SUFFICES ASSUME NEW i \in 1..m + 1, m + 1 - i <= d + 1
               PROVE  g[i] = f[i + k]
    OBVIOUS
  <2> SUFFICES ASSUME i # m + 1
               PROVE  g[i] = f[i + k]
    BY <1>3
  <2> DEFINE takes == rest[i].takes
  <2>1. i \in 1..m /\ i \in Nat /\ i + k \in 1..n + 1 /\ ~ (i > m) /\ ~ (i + k > n)
    OBVIOUS
  <2>2. takes \in {1, 2} /\ i + takes <= m + 1 /\ rest[i] = piece[i + k]
    BY <2>1 DEF Pieces, Behind
  <2>3. g[i] = rest[i].means \o g[i + takes]
    BY <1>2, <2>1
  <2>4. f[i + k] = rest[i].means \o f[i + k + takes]
    BY <1>1, <2>1, <2>2
  <2> HIDE DEF takes
  <2>5. i + takes \in 1..m + 1 /\ m + 1 - (i + takes) <= d /\ i + takes + k = i + k + takes
    BY <2>1, <2>2
  <2>6. g[i + takes] = f[i + takes + k]
    BY <1>5, <2>5
  <2> QED
    BY <2>3, <2>4, <2>5, <2>6
<1>6. m \in D
  <2> HIDE DEF D
  <2> QED
    BY <1>4, <1>5, Climbing
<1> QED
  BY <1>6

LEMMA ReadFirst ==
  ASSUME NEW n \in Nat, NEW m \in Nat, NEW k \in {1, 2}, n = m + k,
         NEW piece, Pieces(n, piece), piece[1].takes = k,
         NEW rest, Behind(m, k, piece, rest)
  PROVE  /\ ReadBy(n, piece) = Then(piece[1].means, ReadBy(m, rest))
         /\ Pieces(m, rest)
<1>1. Pieces(m, rest)
  <2> SUFFICES ASSUME NEW i \in 1..m
               PROVE  /\ rest[i].takes \in {1, 2} /\ i + rest[i].takes <= m + 1
                      /\ rest[i].means \in Seq(Senses)
    BY DEF Pieces
  <2>1. i + k \in 1..n /\ rest[i] = piece[i + k]
    BY DEF Behind
  <2> DEFINE takes == rest[i].takes
  <2>2. /\ takes \in {1, 2} /\ i + k + takes <= n + 1
        /\ rest[i].means \in Seq(Senses)
    BY <2>1 DEF Pieces
  <2> HIDE DEF takes
  <2>3. i + takes <= m + 1
    BY <2>2
  <2> QED
    BY <2>2, <2>3 DEF takes
<1>2. PICK f : Reads(n, piece, f) /\ ReadBy(n, piece) = f[1]
  BY ReadingIs
<1>3. PICK g : Reads(m, rest, g) /\ ReadBy(m, rest) = g[1]
  BY <1>1, ReadingIs
<1>4. \A i \in 1..m + 1 : g[i] = f[i + k]
  <2>1. k \in Nat
    OBVIOUS
  <2> QED
    BY <1>1, <1>2, <1>3, <2>1, ReadingShifts
<1>5. g[1] = f[1 + k]
  BY <1>4
<1>6. \A i \in 1..n + 1 : f[i] = IF i > n THEN <<>> ELSE piece[i].means \o f[i + piece[i].takes]
  BY <1>2 DEF Reads
<1>7. 1 \in 1..n + 1 /\ ~ (1 > n)
  OBVIOUS
<1>8. f[1] = piece[1].means \o f[1 + k]
  BY <1>6, <1>7
<1> QED
  BY <1>1, <1>2, <1>3, <1>5, <1>8 DEF Then

LEMMA ReadTyped ==
  ASSUME NEW n \in Nat, NEW piece, Pieces(n, piece)
  PROVE  ReadBy(n, piece) \in Seq(Senses)
<1>1. PICK f : Reads(n, piece, f) /\ ReadBy(n, piece) = f[1]
  BY ReadingIs
<1>2. \A i \in 1..n + 1 : f[i] = IF i > n THEN <<>> ELSE piece[i].means \o f[i + piece[i].takes]
  BY <1>1 DEF Reads
<1> DEFINE D == {d \in Nat : \A i \in 1..n + 1 : n + 1 - i <= d => f[i] \in Seq(Senses)}
<1>3. f[n + 1] \in Seq(Senses)
  <2>1. n + 1 \in 1..n + 1 /\ n + 1 > n
    OBVIOUS
  <2>2. f[n + 1] = <<>>
    BY <1>2, <2>1
  <2> QED
    BY <2>2
<1>4. 0 \in D
  <2>1. ASSUME NEW i \in 1..n + 1, n + 1 - i <= 0
        PROVE  i = n + 1
    BY <2>1
  <2> QED
    BY <1>3, <2>1
<1>5. ASSUME NEW d \in Nat, d \in D
      PROVE  d + 1 \in D
  <2> SUFFICES ASSUME NEW i \in 1..n + 1, n + 1 - i <= d + 1
               PROVE  f[i] \in Seq(Senses)
    OBVIOUS
  <2> SUFFICES ASSUME i # n + 1
               PROVE  f[i] \in Seq(Senses)
    BY <1>3
  <2> DEFINE takes == piece[i].takes
  <2>1. i \in 1..n /\ i \in Nat /\ ~ (i > n)
    OBVIOUS
  <2>2. takes \in {1, 2} /\ i + takes <= n + 1 /\ piece[i].means \in Seq(Senses)
    BY <2>1 DEF Pieces
  <2>3. f[i] = piece[i].means \o f[i + takes]
    BY <1>2, <2>1
  <2> HIDE DEF takes
  <2>4. i + takes \in 1..n + 1 /\ n + 1 - (i + takes) <= d
    BY <2>1, <2>2
  <2>5. f[i + takes] \in Seq(Senses)
    BY <1>5, <2>4
  <2> QED
    BY <2>2, <2>3, <2>5, ConcatProperties
<1>6. n \in D
  <2> HIDE DEF D
  <2> QED
    BY <1>4, <1>5, Climbing
<1> QED
  BY <1>1, <1>6

-----------------------------------------------------------------------------
(* Texts as they are filled in and understood. *)

At(text, format, name) ==
  [i \in DOMAIN text |->
     IF PlaceAt(text, format, i) THEN [takes |-> 2, means |-> Spelled(name)]
     ELSE Piece(text, i)]

LEMMA SpelledTyped ==
  ASSUME NEW name \in Seq(Chars)
  PROVE  /\ Spelled(name) \in Seq(Senses) /\ Len(Spelled(name)) = Len(name)
         /\ \A i \in 1..Len(name) : Spelled(name)[i] = <<name[i], "text">>
<1>1. Len(name) \in Nat /\ DOMAIN name = 1..Len(name)
  OBVIOUS
<1>2. \A i \in 1..Len(name) : <<name[i], "text">> \in Senses
  BY ElementOfSeq DEF Senses
<1>3. Spelled(name) = [i \in 1..Len(name) |-> <<name[i], "text">>]
  BY <1>1 DEF Spelled
<1> QED
  BY <1>1, <1>2, <1>3

LEMMA PieceIs ==
  ASSUME NEW text \in Seq(Chars), NEW i \in 1..Len(text)
  PROVE  /\ Piece(text, i).takes \in {1, 2} /\ i + Piece(text, i).takes <= Len(text) + 1
         /\ Piece(text, i).means \in Seq(Senses)
<1>1. text[i] \in Chars /\ Len(text) \in Nat
  BY ElementOfSeq
<1>2. CASE text[i] = "\\" /\ i < Len(text) /\ Special(text[i + 1])
  <2>1. i + 1 \in 1..Len(text) /\ i + 2 <= Len(text) + 1
    BY <1>1, <1>2
  <2>2. <<text[i + 1], "text">> \in Senses
    BY <2>1, ElementOfSeq DEF Senses
  <2>3. Piece(text, i) = [takes |-> 2, means |-> << <<text[i + 1], "text">> >>]
    BY <1>2 DEF Piece
  <2> QED
    BY <2>1, <2>2, <2>3
<1>3. CASE ~(text[i] = "\\" /\ i < Len(text) /\ Special(text[i + 1]))
  <2>1. Role(text[i]) \in {"text", "syntax"}
    BY DEF Role
  <2>2. <<text[i], Role(text[i])>> \in Senses
    BY <1>1, <2>1 DEF Senses
  <2>3. Piece(text, i) = [takes |-> 1, means |-> << <<text[i], Role(text[i])>> >>]
    BY <1>3 DEF Piece
  <2> QED
    BY <1>1, <2>2, <2>3
<1> QED
  BY <1>2, <1>3

LEMMA AtPieces ==
  ASSUME NEW text \in Seq(Chars), NEW format, NEW name \in Seq(Chars)
  PROVE  Pieces(Len(text), At(text, format, name))
<1> DEFINE piece == At(text, format, name)
<1>1. Len(text) \in Nat /\ DOMAIN text = 1..Len(text)
  OBVIOUS
<1>2. \A i \in 1..Len(text) :
        piece[i] = IF PlaceAt(text, format, i) THEN [takes |-> 2, means |-> Spelled(name)]
                   ELSE Piece(text, i)
  BY <1>1 DEF At
<1> HIDE DEF piece
<1> SUFFICES ASSUME NEW i \in 1..Len(text)
             PROVE  /\ piece[i].takes \in {1, 2} /\ i + piece[i].takes <= Len(text) + 1
                    /\ piece[i].means \in Seq(Senses)
  BY DEF Pieces, piece
<1>3. CASE PlaceAt(text, format, i)
  <2>1. i + 2 <= Len(text) + 1
    BY <1>1, <1>3 DEF PlaceAt
  <2>2. piece[i] = [takes |-> 2, means |-> Spelled(name)]
    BY <1>2, <1>3
  <2> QED
    BY <2>1, <2>2, SpelledTyped
<1>4. CASE ~PlaceAt(text, format, i)
  BY <1>2, <1>4, PieceIs
<1> QED
  BY <1>3, <1>4

LEMMA FilledTyped ==
  ASSUME NEW text \in Seq(Chars), NEW format, NEW name \in Seq(Chars)
  PROVE  Filled(text, format, name) \in Seq(Senses)
<1>1. Filled(text, format, name) = ReadBy(Len(text), At(text, format, name))
  BY DEF Filled, At
<1>2. Len(text) \in Nat
  OBVIOUS
<1> QED
  BY <1>1, <1>2, AtPieces, ReadTyped

LEMMA FilledNothing ==
  ASSUME NEW format, NEW name
  PROVE  Filled(<<>>, format, name) = <<>>
<1>1. Filled(<<>>, format, name) = ReadBy(0, At(<<>>, format, name))
  BY DEF Filled, At
<1> QED
  BY <1>1, ReadNothing

\* What stands at a place depends on what is behind it only.
\* t is s without its first k characters.
Without(s, k, t) == Len(s) = Len(t) + k /\ \A i \in 1..Len(t) : s[i + k] = t[i]

LEMMA PlaceBehind ==
  ASSUME NEW s \in Seq(Chars), NEW t \in Seq(Chars), NEW k \in Nat,
         Without(s, k, t),
         NEW format, NEW i \in 1..Len(t)
  PROVE  /\ PlaceAt(s, format, i + k) <=> PlaceAt(t, format, i)
         /\ Piece(s, i + k) = Piece(t, i)
<1>1. Len(t) \in Nat /\ Len(s) \in Nat
  OBVIOUS
<1>2. s[i + k] = t[i] /\ (i < Len(t) <=> i + k < Len(s))
  BY <1>1 DEF Without
<1>3. ASSUME i < Len(t)
      PROVE  s[i + k + 1] = t[i + 1]
  <2>1. i + 1 \in 1..Len(t) /\ i + 1 + k = i + k + 1
    BY <1>1, <1>3
  <2>2. s[i + 1 + k] = t[i + 1]
    BY <2>1 DEF Without
  <2> QED
    BY <2>1, <2>2
<1>4. PlaceAt(s, format, i + k) <=> PlaceAt(t, format, i)
  BY <1>2, <1>3 DEF PlaceAt
<1>5. Piece(s, i + k) = Piece(t, i)
  BY <1>2, <1>3 DEF Piece
<1> QED
  BY <1>4, <1>5

LEMMA AtBehind ==
  ASSUME NEW s \in Seq(Chars), NEW t \in Seq(Chars), NEW k \in {1, 2},
         Without(s, k, t),
         NEW format, NEW name
  PROVE  Behind(Len(t), k, At(s, format, name), At(t, format, name))
<1> SUFFICES ASSUME NEW i \in 1..Len(t)
             PROVE  At(t, format, name)[i] = At(s, format, name)[i + k]
  BY DEF Behind
<1>1. i + k \in DOMAIN s /\ i \in DOMAIN t /\ k \in Nat
  BY DEF Without
<1>2. /\ PlaceAt(s, format, i + k) <=> PlaceAt(t, format, i)
      /\ Piece(s, i + k) = Piece(t, i)
  BY <1>1, PlaceBehind
<1> QED
  BY <1>1, <1>2 DEF At

\* A text that begins with a piece, and the rest of it.
Begins(s, first, t, format, name) ==
  /\ s \in Seq(Chars) /\ t \in Seq(Chars) /\ name \in Seq(Chars)
  /\ At(s, format, name)[1] = first /\ first.takes \in {1, 2}
  /\ Without(s, first.takes, t)

LEMMA FilledFirst ==
  ASSUME NEW s, NEW t, NEW format, NEW name, NEW first, Begins(s, first, t, format, name)
  PROVE  Filled(s, format, name) = Then(first.means, Filled(t, format, name))
<1> DEFINE piece == At(s, format, name)
           rest == At(t, format, name)
           n == Len(s)
           m == Len(t)
           k == first.takes
<1>1. /\ s \in Seq(Chars) /\ t \in Seq(Chars) /\ name \in Seq(Chars)
      /\ piece[1] = first /\ k \in {1, 2} /\ Without(s, k, t)
  BY DEF Begins
<1>2. n \in Nat /\ m \in Nat /\ n = m + k
  BY <1>1 DEF Without
<1>3. Pieces(n, piece)
  BY <1>1, AtPieces
<1>4. Behind(m, k, piece, rest)
  <2> HIDE DEF k
  <2> QED
    BY <1>1, AtBehind
<1>5. Filled(s, format, name) = ReadBy(n, piece) /\ Filled(t, format, name) = ReadBy(m, rest)
  BY DEF Filled, At
<1>6. piece[1].takes = k
  BY <1>1
<1> HIDE DEF piece, rest, n, m, k
<1>7. ReadBy(n, piece) = Then(piece[1].means, ReadBy(m, rest))
  BY <1>1, <1>2, <1>3, <1>4, <1>6, ReadFirst
<1> QED
  BY <1>1, <1>5, <1>7

LEMMA FilledPlace ==
  ASSUME NEW s \in Seq(Chars), NEW t \in Seq(Chars), Without(s, 2, t),
         NEW format, NEW name \in Seq(Chars), PlaceAt(s, format, 1)
  PROVE  Filled(s, format, name) = Then(Spelled(name), Filled(t, format, name))
<1>1. 1 \in DOMAIN s
  BY DEF Without
<1> DEFINE first == [takes |-> 2, means |-> Spelled(name)]
<1>2. At(s, format, name)[1] = first
  BY <1>1 DEF At
<1>3. first.takes = 2 /\ first.means = Spelled(name)
  OBVIOUS
<1> HIDE DEF first
<1>4. Begins(s, first, t, format, name)
  BY <1>2, <1>3 DEF Begins
<1> QED
  BY <1>3, <1>4, FilledFirst

LEMMA FilledPiece ==
  ASSUME NEW s \in Seq(Chars), NEW t \in Seq(Chars), s # <<>>,
         NEW first, first = Piece(s, 1), Without(s, first.takes, t),
         NEW format, NEW name \in Seq(Chars), ~PlaceAt(s, format, 1)
  PROVE  Filled(s, format, name) = Then(first.means, Filled(t, format, name))
<1>1. 1 \in DOMAIN s /\ 1 \in 1..Len(s)
  BY EmptySeq
<1>2. At(s, format, name)[1] = first
  BY <1>1 DEF At
<1>3. first.takes \in {1, 2}
  BY <1>1, PieceIs
<1>4. Begins(s, first, t, format, name)
  BY <1>2, <1>3 DEF Begins
<1> QED
  BY <1>4, FilledFirst

\* A text that does not end in a backslash that is open.
Closed(part) == part = <<>> \/ part[Len(part)] # "\\"

NoPlaceIn(part, text, format) == \A i \in 1..Len(part) : ~PlaceAt(part \o text, format, i)

\* A part that begins with a piece, and the rest of it.
Continues(part, means, rest, text, format, name) ==
  /\ rest \in Seq(Chars) /\ means \in Seq(Senses)
  /\ Len(rest) < Len(part) /\ Closed(rest) /\ NoPlaceIn(rest, text, format)
  /\ Filled(Then(part, text), format, name) = Then(means, Filled(Then(rest, text), format, name))
  /\ Understood(part) = Then(means, Understood(rest))

LEMMA PartFilledFirst ==
  ASSUME NEW part \in Seq(Chars), part # <<>>, Closed(part), NEW text \in Seq(Chars),
         NEW format, NEW name \in Seq(Chars), NoPlaceIn(part, text, format)
  PROVE  \E means, rest : Continues(part, means, rest, text, format, name)
<1> DEFINE first == Piece(part, 1)
           k == first.takes
           means == first.means
           n == Len(part)
           rest == SubSeq(part, k + 1, n)
           whole == part \o text
           tail == rest \o text
<1>1. 1 \in 1..n /\ n \in Nat \ {0} /\ Len(text) \in Nat
  BY EmptySeq
<1>2. k \in {1, 2} /\ k <= n /\ means \in Seq(Senses)
  BY <1>1, PieceIs
<1>3. /\ rest \in Seq(Chars) /\ Len(rest) = n - k
      /\ \A i \in 1..n - k : rest[i] = part[i + k]
  <2> HIDE DEF k
  <2>1. k + 1 \in Int /\ n \in Int /\ \A i \in k + 1..n : part[i] \in Chars
    BY <1>1, <1>2, ElementOfSeq
  <2>2. /\ rest \in Seq(Chars)
        /\ Len(rest) = IF k + 1 <= n THEN n - (k + 1) + 1 ELSE 0
        /\ \A i \in 1..n - (k + 1) + 1 : rest[i] = part[k + 1 + i - 1]
    BY <2>1, SubSeqProperties
  <2>3. Len(rest) = n - k
    BY <1>1, <1>2, <2>2
  <2>4. n - (k + 1) + 1 = n - k /\ \A i \in 1..n - k : k + 1 + i - 1 = i + k
    BY <1>1, <1>2
  <2> HIDE DEF rest, n
  <2>5. \A i \in 1..n - k : rest[i] = part[i + k]
    BY <2>2, <2>4
  <2> QED
    BY <2>2, <2>3, <2>5
<1>4. /\ whole \in Seq(Chars) /\ Len(whole) = n + Len(text)
      /\ \A i \in 1..n + Len(text) : whole[i] = IF i <= n THEN part[i] ELSE text[i - n]
  BY ConcatProperties
<1>5. /\ tail \in Seq(Chars) /\ Len(tail) = Len(rest) + Len(text)
      /\ \A i \in 1..Len(rest) + Len(text) :
           tail[i] = IF i <= Len(rest) THEN rest[i] ELSE text[i - Len(rest)]
  BY <1>3, ConcatProperties
<1> HIDE DEF rest, whole, tail
<1>6. Piece(whole, 1) = Piece(part, 1)
  <2>1. whole[1] = part[1] /\ n <= Len(whole)
    BY <1>1, <1>4
  <2>2. CASE n > 1
    <3>1. whole[1 + 1] = part[1 + 1]
      BY <1>1, <1>4, <2>2
    <3> QED
      BY <1>1, <2>1, <2>2, <3>1 DEF Piece
  <2>3. CASE n = 1
    <3>1. part[1] # "\\"
      BY <1>1, <2>3 DEF Closed
    <3> QED
      BY <2>1, <3>1 DEF Piece
  <2>4. n > 1 \/ n = 1
    <3> HIDE DEF n
    <3> QED
      BY <1>1
  <2> QED
    BY <2>2, <2>3, <2>4
<1> HIDE DEF n
<1>7. Without(whole, k, tail)
  <2> HIDE DEF k
  <2>1. Len(whole) = Len(tail) + k
    <3>1. Len(whole) = n + Len(text) /\ Len(text) \in Nat
      BY <1>4
    <3>2. Len(tail) = Len(rest) + Len(text)
      BY <1>5
    <3>3. Len(rest) = n - k
      BY <1>3
    <3>4. n \in Nat /\ k \in Int
      BY <1>1, <1>2
    <3> QED
      BY <3>1, <3>2, <3>3, <3>4
  <2>2. ASSUME NEW i \in 1..Len(tail)
        PROVE  whole[i + k] = tail[i]
    <3>1. i \in Nat /\ i + k \in 1..n + Len(text) /\ i \in 1..Len(rest) + Len(text)
      BY <1>1, <1>2, <1>3, <1>4, <1>5
    <3>2. CASE i <= Len(rest)
      <4>1. i + k <= n /\ i \in 1..n - k
        BY <1>1, <1>2, <1>3, <3>1, <3>2
      <4> QED
        BY <1>3, <1>4, <1>5, <3>1, <3>2, <4>1
    <3>3. CASE ~(i <= Len(rest))
      <4> DEFINE j == i + k
                 d == i - Len(rest)
      <4>1. j \in 1..n + Len(text) /\ ~(j <= n) /\ j - n = d
        BY <1>1, <1>2, <1>3, <3>1, <3>3
      <4>2. tail[i] = text[d]
        BY <1>5, <3>1, <3>3
      <4> HIDE DEF j, d
      <4>3. whole[j] = tail[i]
        BY <1>4, <4>1, <4>2
      <4> QED
        BY <4>3 DEF j
    <3> QED
      BY <3>2, <3>3
  <2> QED
    BY <2>1, <2>2 DEF Without
<1>8. whole # <<>> /\ ~PlaceAt(whole, format, 1)
  BY <1>1, <1>4, EmptySeq DEF NoPlaceIn, whole, n
<1>9. Filled(whole, format, name) = Then(means, Filled(tail, format, name))
  <2>1. whole \in Seq(Chars) /\ tail \in Seq(Chars)
    BY <1>4, <1>5
  <2>2. first = Piece(whole, 1) /\ Without(whole, first.takes, tail)
    BY <1>6, <1>7
  <2> HIDE DEF first
  <2> QED
    BY <1>8, <2>1, <2>2, FilledPiece
<1>10. Understood(part) = Then(means, Understood(rest))
  <2> DEFINE none == <<>>
  <2>1. ~PlaceAt(part, none, 1)
    BY DEF PlaceAt
  <2>2. Without(part, k, rest)
    <3> HIDE DEF k
    <3> QED
      BY <1>1, <1>2, <1>3 DEF n, Without
  <2>3. none \in Seq(Chars)
    OBVIOUS
  <2>4. Filled(part, none, none) = Then(means, Filled(rest, none, none))
    <3> HIDE DEF none
    <3> QED
      BY <1>3, <2>1, <2>2, <2>3, FilledPiece
  <2> QED
    BY <2>4 DEF Understood
<1>11. Closed(rest)
  <2> SUFFICES ASSUME rest # <<>>
               PROVE  rest[Len(rest)] # "\\"
    BY DEF Closed
  <2>1. Len(rest) \in Nat \ {0}
    BY <1>3, EmptySeq
  <2>2. Len(rest) \in 1..n - k /\ Len(rest) + k = n
    <3> HIDE DEF k
    <3> QED
      BY <1>1, <1>2, <1>3, <2>1
  <2>3. rest[Len(rest)] = part[n]
    BY <1>3, <2>2
  <2> QED
    BY <2>3 DEF Closed, n
<1>12. NoPlaceIn(rest, text, format)
  <2> SUFFICES ASSUME NEW i \in 1..Len(rest)
               PROVE  ~PlaceAt(tail, format, i)
    BY DEF NoPlaceIn, tail
  <2>1. i \in 1..Len(tail) /\ i + k \in 1..n
    <3> HIDE DEF k
    <3> QED
      BY <1>1, <1>2, <1>3, <1>5
  <2>2. PlaceAt(whole, format, i + k) <=> PlaceAt(tail, format, i)
    <3>1. k \in Nat
      BY <1>2
    <3> HIDE DEF k
    <3> QED
      BY <1>4, <1>5, <1>7, <2>1, <3>1, PlaceBehind
  <2> QED
    BY <2>1, <2>2 DEF NoPlaceIn, whole, n
<1>13. Len(rest) < Len(part)
  <2> HIDE DEF k
  <2> QED
    BY <1>1, <1>2, <1>3 DEF n
<1>14. Continues(part, means, rest, text, format, name)
  BY <1>2, <1>3, <1>9, <1>10, <1>11, <1>12, <1>13 DEF Continues, whole, tail, Then
<1> HIDE DEF first
<1> QED
  BY <1>14

LEMMA ThenTyped ==
  ASSUME NEW S, NEW s \in Seq(S), NEW t \in Seq(S)
  PROVE  Then(s, t) \in Seq(S)
BY ConcatProperties DEF Then

LEMMA ThenProperties ==
  ASSUME NEW S, NEW s \in Seq(S), NEW t \in Seq(S)
  PROVE  /\ Then(s, t) \in Seq(S) /\ Len(Then(s, t)) = Len(s) + Len(t)
         /\ \A i \in 1..Len(s) + Len(t) :
              Then(s, t)[i] = IF i <= Len(s) THEN s[i] ELSE t[i - Len(s)]
BY ConcatProperties DEF Then

LEMMA ThenAssociative ==
  ASSUME NEW S, NEW s \in Seq(S), NEW t \in Seq(S), NEW u \in Seq(S)
  PROVE  Then(Then(s, t), u) = Then(s, Then(t, u))
BY ConcatAssociative DEF Then

LEMMA ThenEmpty ==
  ASSUME NEW S, NEW s \in Seq(S)
  PROVE  Then(<<>>, s) = s /\ Then(s, <<>>) = s
BY ConcatEmptySeq DEF Then

\* A part of a text without places is filled in as it is understood alone.
LEMMA PartFilled ==
  ASSUME NEW part \in Seq(Chars), Closed(part), NEW text \in Seq(Chars),
         NEW format, NEW name \in Seq(Chars), NoPlaceIn(part, text, format)
  PROVE  Filled(Then(part, text), format, name) = Then(Understood(part), Filled(text, format, name))
<1> DEFINE Fit(x) == x \in Seq(Chars) /\ Closed(x) /\ NoPlaceIn(x, text, format)
           Good(x) == Filled(Then(x, text), format, name)
                        = Then(Understood(x), Filled(text, format, name))
           D == {n \in Nat : \A x : Fit(x) /\ Len(x) <= n => Good(x)}
<1>1. Filled(text, format, name) \in Seq(Senses)
  BY FilledTyped
<1>2. Good(<<>>)
  <2>1. Understood(<<>>) = <<>>
    BY FilledNothing DEF Understood
  <2>2. Then(<<>>, text) = text
    BY ThenEmpty
  <2>3. Then(<<>>, Filled(text, format, name)) = Filled(text, format, name)
    BY <1>1, ThenEmpty
  <2> QED
    BY Zenon, <2>1, <2>2, <2>3
<1>3. 0 \in D
  <2>1. ASSUME NEW x, Fit(x), Len(x) <= 0
        PROVE  x = <<>>
    BY <2>1, EmptySeq
  <2> HIDE DEF Fit, Good
  <2> QED
    BY <1>2, <2>1
<1>4. ASSUME NEW n \in Nat, n \in D
      PROVE  n + 1 \in D
  <2> SUFFICES ASSUME NEW x, Fit(x), Len(x) <= n + 1
               PROVE  Good(x)
    <3> HIDE DEF Fit, Good
    <3> QED
      OBVIOUS
  <2>1. CASE x = <<>>
    <3> HIDE DEF Fit, Good
    <3> QED
      BY <1>2, <2>1
  <2>2. CASE x # <<>>
    <3>1. PICK means, rest : Continues(x, means, rest, text, format, name)
      BY <2>2, PartFilledFirst
    <3>2. Fit(rest) /\ Len(rest) <= n
      BY <3>1 DEF Continues
    <3>3. Good(rest)
      <4> HIDE DEF Fit, Good
      <4> QED
        BY <1>4, <3>2
    <3>4. Understood(rest) \in Seq(Senses)
      BY <3>2, FilledTyped, EmptySeq DEF Understood
    <3>5. Then(means, Then(Understood(rest), Filled(text, format, name)))
            = Then(Then(means, Understood(rest)), Filled(text, format, name))
      BY <1>1, <3>1, <3>4, ThenAssociative DEF Continues
    <3> QED
      BY <3>1, <3>3, <3>5 DEF Continues
  <2> QED
    BY <2>1, <2>2
<1>5. Len(part) \in D
  <2>1. Len(part) \in Nat
    OBVIOUS
  <2> HIDE DEF D
  <2> QED
    BY <1>3, <1>4, <2>1, Climbing
<1>6. Fit(part) /\ Len(part) <= Len(part)
  OBVIOUS
<1> HIDE DEF Fit, Good
<1>7. Good(part)
  BY <1>5, <1>6
<1> QED
  BY <1>7 DEF Good

-----------------------------------------------------------------------------
(* What a text stands for in front of any other. *)

Stands(s, means) ==
  /\ s \in Seq(Chars) /\ means \in Seq(Senses)
  /\ \A t \in Seq(Chars) : Understood(Then(s, t)) = Then(means, Understood(t))

LEMMA UnderstoodTyped ==
  ASSUME NEW text \in Seq(Chars)
  PROVE  Understood(text) \in Seq(Senses)
BY FilledTyped, EmptySeq DEF Understood

LEMMA StandsNone == Stands(<<>>, <<>>)
<1>1. ASSUME NEW t \in Seq(Chars)
      PROVE  Understood(Then(<<>>, t)) = Then(<<>>, Understood(t))
  <2>1. Then(<<>>, t) = t
    BY ThenEmpty
  <2>2. Then(<<>>, Understood(t)) = Understood(t)
    BY UnderstoodTyped, ThenEmpty
  <2> QED
    BY Zenon, <2>1, <2>2
<1> QED
  BY <1>1 DEF Stands

LEMMA StandsThen ==
  ASSUME NEW s, NEW means, Stands(s, means), NEW r, NEW sense, Stands(r, sense)
  PROVE  Stands(Then(s, r), Then(means, sense))
<1>1. /\ s \in Seq(Chars) /\ means \in Seq(Senses)
      /\ \A t \in Seq(Chars) : Understood(Then(s, t)) = Then(means, Understood(t))
  BY DEF Stands
<1>2. /\ r \in Seq(Chars) /\ sense \in Seq(Senses)
      /\ \A t \in Seq(Chars) : Understood(Then(r, t)) = Then(sense, Understood(t))
  BY DEF Stands
<1>3. Then(s, r) \in Seq(Chars) /\ Then(means, sense) \in Seq(Senses)
  BY <1>1, <1>2, ThenTyped
<1>4. ASSUME NEW t \in Seq(Chars)
      PROVE  Understood(Then(Then(s, r), t)) = Then(Then(means, sense), Understood(t))
  <2>1. Then(Then(s, r), t) = Then(s, Then(r, t)) /\ Then(r, t) \in Seq(Chars)
    BY <1>1, <1>2, ThenAssociative, ThenTyped
  <2>2. Understood(Then(s, Then(r, t))) = Then(means, Understood(Then(r, t)))
    BY <1>1, <2>1
  <2>3. Understood(Then(r, t)) = Then(sense, Understood(t))
    BY <1>2
  <2>4. Then(means, Then(sense, Understood(t))) = Then(Then(means, sense), Understood(t))
    BY <1>1, <1>2, UnderstoodTyped, ThenAssociative
  <2> QED
    BY <2>1, <2>2, <2>3, <2>4
<1> QED
  BY <1>3, <1>4 DEF Stands

LEMMA PartStands ==
  ASSUME NEW part \in Seq(Chars), Closed(part)
  PROVE  Stands(part, Understood(part))
<1>1. ASSUME NEW t \in Seq(Chars)
      PROVE  Understood(Then(part, t)) = Then(Understood(part), Understood(t))
  <2> DEFINE none == <<>>
  <2>1. none \in Seq(Chars)
    OBVIOUS
  <2>2. NoPlaceIn(part, t, none)
    BY DEF NoPlaceIn, PlaceAt
  <2>3. Filled(Then(part, t), none, none) = Then(Understood(part), Filled(t, none, none))
    <3> HIDE DEF none
    <3> QED
      BY <2>1, <2>2, PartFilled
  <2> QED
    BY <2>3 DEF Understood
<1> QED
  BY <1>1, UnderstoodTyped DEF Stands

LEMMA SpelledOne ==
  ASSUME NEW ch \in Chars
  PROVE  Spelled(<<ch>>) = << <<ch, "text">> >> /\ Spelled(<<>>) = <<>>
BY DEF Spelled

LEMMA SpelledThen ==
  ASSUME NEW s \in Seq(Chars), NEW t \in Seq(Chars)
  PROVE  Spelled(Then(s, t)) = Then(Spelled(s), Spelled(t))
<1> DEFINE st == Then(s, t)
           m == Len(s)
           n == Len(t)
           u == Spelled(s)
           v == Spelled(t)
           whole == Spelled(st)
           both == Then(u, v)
<1>1. m \in Nat /\ n \in Nat
  OBVIOUS
<1>2. /\ st \in Seq(Chars) /\ Len(st) = m + n
      /\ \A i \in 1..m + n : st[i] = IF i <= m THEN s[i] ELSE t[i - m]
  BY ThenProperties
<1>3. u \in Seq(Senses) /\ Len(u) = m /\ \A i \in 1..m : u[i] = <<s[i], "text">>
  BY SpelledTyped
<1>4. v \in Seq(Senses) /\ Len(v) = n /\ \A i \in 1..n : v[i] = <<t[i], "text">>
  BY SpelledTyped
<1> HIDE DEF st, m, n, u, v
<1>5. /\ whole \in Seq(Senses) /\ Len(whole) = m + n
      /\ \A i \in 1..m + n : whole[i] = <<st[i], "text">>
  BY <1>2, SpelledTyped
<1>6. /\ both \in Seq(Senses) /\ Len(both) = m + n
      /\ \A i \in 1..m + n : both[i] = IF i <= m THEN u[i] ELSE v[i - m]
  <2>1. u \in Seq(Senses) /\ v \in Seq(Senses)
    BY <1>3, <1>4
  <2>2. /\ both \in Seq(Senses) /\ Len(both) = Len(u) + Len(v)
        /\ \A i \in 1..Len(u) + Len(v) : both[i] = IF i <= Len(u) THEN u[i] ELSE v[i - Len(u)]
    BY <2>1, ThenProperties
  <2>3. Len(u) = m /\ Len(v) = n
    BY <1>3, <1>4
  <2> HIDE DEF both
  <2> QED
    BY <2>2, <2>3
<1> HIDE DEF whole, both
<1>7. ASSUME NEW i \in 1..m + n
      PROVE  whole[i] = both[i]
  <2>1. CASE i <= m
    <3>1. i \in 1..m
      BY <1>1, <2>1
    <3>2. st[i] = s[i] /\ both[i] = u[i]
      BY <1>2, <1>6, <2>1
    <3> QED
      BY <1>3, <1>5, <3>1, <3>2
  <2>2. CASE ~(i <= m)
    <3> DEFINE j == i - m
    <3>1. j \in 1..n
      BY <1>1, <2>2
    <3>2. st[i] = t[j] /\ both[i] = v[j]
      BY <1>2, <1>6, <2>2
    <3> HIDE DEF j
    <3> QED
      BY <1>4, <1>5, <3>1, <3>2
  <2> QED
    BY <2>1, <2>2
<1>8. whole = both
  BY <1>1, <1>5, <1>6, <1>7, SeqEqual
<1> QED
  BY <1>8 DEF whole, both, st, u, v

\* A character that stands at the beginning.
LEMMA FirstIs ==
  ASSUME NEW ch \in Chars, NEW t \in Seq(Chars)
  PROVE  /\ Then(<<ch>>, t) \in Seq(Chars) /\ Then(<<ch>>, t) # <<>>
         /\ Then(<<ch>>, t)[1] = ch /\ Without(Then(<<ch>>, t), 1, t)
<1>1. /\ Then(<<ch>>, t) \in Seq(Chars) /\ Then(<<ch>>, t) # <<>>
      /\ Then(<<ch>>, t)[1] = ch /\ Len(Then(<<ch>>, t)) = Len(t) + 1
      /\ \A i \in 1..Len(t) : Then(<<ch>>, t)[i + 1] = t[i]
  BY BehindOne DEF Then
<1> QED
  BY <1>1 DEF Without

LEMMA StandsCharacter ==
  ASSUME NEW ch \in Chars, ~Special(ch)
  PROVE  Stands(<<ch>>, Spelled(<<ch>>))
<1> DEFINE s == <<ch>>
           none == <<>>
           first == Piece(s, 1)
<1>1. s \in Seq(Chars) /\ none \in Seq(Chars) /\ s # <<>>
  OBVIOUS
<1>2. ch # "\\"
  BY DEF Special
<1>3. first = [takes |-> 1, means |-> << <<ch, "text">> >>]
  BY <1>2 DEF Piece, Role
<1>4. first.takes = 1 /\ first.means = Spelled(s)
  BY <1>3, SpelledOne
<1>5. Understood(none) = <<>>
  BY FilledNothing DEF Understood
<1>6. Closed(s)
  BY <1>2 DEF Closed
<1>7. Without(s, 1, none) /\ ~PlaceAt(s, none, 1)
  BY DEF Without, PlaceAt
<1> HIDE DEF s, first
<1>8. Understood(s) = Then(Spelled(s), Understood(none))
  <2> HIDE DEF none
  <2>1. Without(s, first.takes, none) /\ first = Piece(s, 1)
    BY <1>4, <1>7 DEF first
  <2>2. Filled(s, none, none) = Then(first.means, Filled(none, none, none))
    BY <1>1, <1>7, <2>1, FilledPiece
  <2> QED
    BY <1>4, <2>2 DEF Understood, none
<1>9. Understood(s) = Spelled(s)
  BY <1>1, <1>5, <1>8, SpelledTyped, ThenEmpty
<1> QED
  BY <1>1, <1>6, <1>9, PartStands DEF s

LEMMA StandsEscaped ==
  ASSUME NEW ch \in Chars, Special(ch)
  PROVE  Stands(Then(<<"\\">>, <<ch>>), Spelled(<<ch>>))
<1>1. <<"\\">> \in Seq(Chars) /\ <<ch>> \in Seq(Chars) /\ "\\" \in Chars
  BY DEF Chars
<1>2. Then(<<"\\">>, <<ch>>) \in Seq(Chars) /\ Spelled(<<ch>>) \in Seq(Senses)
  BY <1>1, ThenTyped, SpelledTyped
<1>3. ASSUME NEW t \in Seq(Chars)
      PROVE  Understood(Then(Then(<<"\\">>, <<ch>>), t)) = Then(Spelled(<<ch>>), Understood(t))
  <2> DEFINE r == Then(<<ch>>, t)
             s == Then(<<"\\">>, r)
             first == Piece(s, 1)
             none == <<>>
  <2>1. r \in Seq(Chars) /\ r # <<>> /\ r[1] = ch /\ Without(r, 1, t)
    BY FirstIs
  <2> HIDE DEF r
  <2>2. s \in Seq(Chars) /\ s # <<>> /\ s[1] = "\\" /\ Without(s, 1, r)
    BY <1>1, <2>1, FirstIs
  <2>3. Then(Then(<<"\\">>, <<ch>>), t) = s
    <3> DEFINE x == <<"\\">>
               y == <<ch>>
    <3>1. x \in Seq(Chars) /\ y \in Seq(Chars)
      BY <1>1
    <3>2. Then(Then(x, y), t) = Then(x, Then(y, t))
      <4> HIDE DEF x, y
      <4> QED
        BY <3>1, ThenAssociative
    <3> QED
      BY <3>2 DEF r, x, y
  <2> HIDE DEF s
  <2>4. Len(t) \in Nat /\ Len(r) = Len(t) + 1 /\ Len(s) = Len(r) + 1 /\ s[1 + 1] = ch
    <3>1. Len(t) \in Nat /\ Len(r) = Len(t) + 1 /\ Len(s) = Len(r) + 1
      BY <2>1, <2>2 DEF Without
    <3>2. 1 \in 1..Len(r)
      BY <3>1
    <3>3. s[1 + 1] = ch
      BY <2>1, <2>2, <3>2 DEF Without
    <3> QED
      BY <3>1, <3>3
  <2>5. Without(s, 2, t)
    <3>1. Len(s) = Len(t) + 2
      BY <2>4
    <3>2. ASSUME NEW i \in 1..Len(t)
          PROVE  s[i + 2] = t[i]
      <4> DEFINE j == i + 1
      <4>1. j \in 1..Len(r) /\ j + 1 = i + 2
        BY <2>4
      <4>2. r[j] = t[i]
        BY <2>1 DEF Without
      <4> HIDE DEF j
      <4>3. s[j + 1] = r[j]
        BY <2>2, <4>1 DEF Without
      <4> QED
        BY <4>1, <4>2, <4>3
    <3> QED
      BY <3>1, <3>2 DEF Without
  <2>6. first.takes = 2 /\ first.means = Spelled(<<ch>>)
    <3>1. 1 < Len(s)
      BY <2>4
    <3>2. first = [takes |-> 2, means |-> << <<ch, "text">> >>]
      BY <2>2, <2>4, <3>1 DEF Piece
    <3> QED
      BY <3>2, SpelledOne
  <2>7. none \in Seq(Chars) /\ ~PlaceAt(s, none, 1)
    BY DEF PlaceAt
  <2> HIDE DEF first
  <2>8. Understood(s) = Then(first.means, Understood(t))
    <3> HIDE DEF none
    <3>1. Filled(s, none, none) = Then(first.means, Filled(t, none, none))
      BY <2>2, <2>5, <2>6, <2>7, FilledPiece DEF first
    <3> QED
      BY <3>1 DEF Understood, none
  <2> QED
    BY <2>3, <2>6, <2>8
<1> QED
  BY <1>2, <1>3 DEF Stands

\* A text without special characters stands for itself.
LEMMA PlainStands ==
  ASSUME NEW text \in Seq(Chars), \A i \in 1..Len(text) : ~Special(text[i])
  PROVE  Stands(text, Spelled(text))
<1> DEFINE Plain(s) == s \in Seq(Chars) /\ \A i \in 1..Len(s) : ~Special(s[i])
           D == {n \in Nat : \A s : Plain(s) /\ Len(s) <= n => Stands(s, Spelled(s))}
<1>1. Stands(<<>>, Spelled(<<>>))
  <2>1. Spelled(<<>>) = <<>>
    BY DEF Spelled
  <2> QED
    BY <2>1, StandsNone
<1>2. 0 \in D
  <2>1. ASSUME NEW s, Plain(s), Len(s) <= 0
        PROVE  s = <<>>
    BY <2>1, EmptySeq
  <2> HIDE DEF Plain
  <2> QED
    BY <1>1, <2>1
<1>3. ASSUME NEW n \in Nat, n \in D
      PROVE  n + 1 \in D
  <2> SUFFICES ASSUME NEW s, Plain(s), Len(s) <= n + 1
               PROVE  Stands(s, Spelled(s))
    <3> HIDE DEF Plain
    <3> QED
      OBVIOUS
  <2>1. CASE s = <<>>
    <3> HIDE DEF Plain
    <3> QED
      BY <1>1, <2>1
  <2>2. CASE s # <<>>
    <3>1. PICK ch \in Chars, t \in Seq(Chars) : s = Then(<<ch>>, t) /\ Len(t) = Len(s) - 1
      BY <2>2, FirstCharacter DEF Then
    <3>2. s[1] = ch /\ Without(s, 1, t)
      BY <3>1, FirstIs
    <3>3. Len(t) \in Nat /\ 1 \in 1..Len(s) /\ Len(t) <= n
      BY <3>1
    <3>4. ~Special(ch)
      BY <3>2, <3>3
    <3>5. Plain(t)
      <4>1. ASSUME NEW i \in 1..Len(t)
            PROVE  ~Special(t[i])
        <5> DEFINE j == i + 1
        <5>1. j \in 1..Len(s) /\ s[j] = t[i]
          BY <3>2, <3>3 DEF Without
        <5> HIDE DEF j
        <5> QED
          BY <5>1
      <4> QED
        BY <4>1
    <3>6. Stands(t, Spelled(t))
      <4> HIDE DEF Plain
      <4> QED
        BY <1>3, <3>3, <3>5
    <3>7. Stands(<<ch>>, Spelled(<<ch>>))
      BY <3>4, StandsCharacter
    <3>8. Stands(Then(<<ch>>, t), Then(Spelled(<<ch>>), Spelled(t)))
      BY <3>6, <3>7, StandsThen
    <3>9. <<ch>> \in Seq(Chars)
      OBVIOUS
    <3>10. Spelled(Then(<<ch>>, t)) = Then(Spelled(<<ch>>), Spelled(t))
      BY <3>9, SpelledThen
    <3> QED
      BY <3>1, <3>8, <3>10
  <2> QED
    BY <2>1, <2>2
<1>4. Len(text) \in D
  <2>1. Len(text) \in Nat
    OBVIOUS
  <2> HIDE DEF D
  <2> QED
    BY <1>2, <1>3, <2>1, Climbing
<1>5. Plain(text) /\ Len(text) <= Len(text)
  OBVIOUS
<1> HIDE DEF Plain
<1> QED
  BY <1>4, <1>5

-----------------------------------------------------------------------------
(* TRString. *)

\* A string that holds its text and no more, one that is still to be made, and
\* one of which there may be nothing left.
Whole(string) == string.bytes \in Seq(Chars) /\ string = InitWithCString(string.bytes)
Growing(string) == string = Fresh \/ Whole(string)
Left(string) == string = NoString \/ Whole(string)

LEMMA WholeIs ==
  ASSUME NEW text \in Seq(Chars)
  PROVE  /\ Whole(InitWithCString(text)) /\ InitWithCString(text).bytes = text
         /\ InitWithCString(text) # NoString /\ InitWithCString(text) # Fresh
<1>1. /\ InitWithCString(text).bytes = text
      /\ InitWithCString(text).numBytes = Len(text) + 1 /\ Len(text) \in Nat
  BY DEF InitWithCString
<1>2. NoString.numBytes = -1 /\ Fresh.numBytes = 0
  BY DEF NoString, Fresh
<1> QED
  BY <1>1, <1>2 DEF Whole

LEMMA WholeSize ==
  ASSUME NEW string, Whole(string)
  PROVE  /\ string.bytes \in Seq(Chars) /\ Len(string.bytes) \in Nat
         /\ string.numBytes = Len(string.bytes) + 1 /\ string.numBytes # 0
         /\ string # NoString /\ string # Fresh
<1>1. string.bytes \in Seq(Chars) /\ string = InitWithCString(string.bytes)
  BY DEF Whole
<1>2. string.numBytes = Len(string.bytes) + 1 /\ Len(string.bytes) \in Nat
  BY <1>1 DEF InitWithCString
<1>3. string # NoString /\ string # Fresh
  BY <1>1, WholeIs
<1> QED
  BY <1>1, <1>2, <1>3

LEMMA GrowingText ==
  ASSUME NEW string, Growing(string) \/ Left(string)
  PROVE  string.bytes \in Seq(Chars) /\ Sized(string)
<1>1. Fresh.bytes = <<>> /\ NoString.bytes = <<>> /\ <<>> \in Seq(Chars)
  BY DEF Fresh, NoString
<1> QED
  BY <1>1, WholeSize DEF Growing, Left, Sized

LEMMA StrlcpyWhole ==
  ASSUME NEW text \in Seq(Chars), NEW size \in Int, Len(text) < size
  PROVE  Strlcpy(text, size) = text
BY SubSeqFull DEF Strlcpy

LEMMA AppendCStringIs ==
  ASSUME NEW string, Growing(string), NEW text \in Seq(Chars)
  PROVE  AppendCString(string, text) = InitWithCString(Then(string.bytes, text))
<1>1. CASE string = Fresh
  <2>1. string.numBytes = 0 /\ string.bytes = <<>>
    BY <1>1 DEF Fresh
  <2>2. Then(string.bytes, text) = text
    BY <2>1, ThenEmpty
  <2> QED
    BY <2>1, <2>2 DEF AppendCString
<1>2. CASE Whole(string)
  <2>1. /\ string.bytes \in Seq(Chars) /\ Len(string.bytes) \in Nat /\ Len(text) \in Nat
        /\ string.numBytes = Len(string.bytes) + 1 /\ string.numBytes # 0
    BY <1>2, WholeSize
  <2>2. AppendCString(string, text)
          = [numBytes |-> string.numBytes + Len(text), bytes |-> Then(string.bytes, text)]
    BY <2>1 DEF AppendCString, Then
  <2>3. Len(Then(string.bytes, text)) + 1 = string.numBytes + Len(text)
    <3>1. Len(Then(string.bytes, text)) = Len(string.bytes) + Len(text)
      BY <2>1, ThenProperties
    <3> QED
      BY <2>1, <3>1
  <2> QED
    BY <2>2, <2>3 DEF InitWithCString
<1> QED
  BY <1>1, <1>2 DEF Growing

LEMMA AppendStringIs ==
  ASSUME NEW string, Growing(string), NEW other, Whole(other)
  PROVE  AppendString(string, other) = InitWithCString(Then(string.bytes, other.bytes))
<1>1. /\ other.bytes \in Seq(Chars) /\ Len(other.bytes) \in Nat
      /\ other.numBytes = Len(other.bytes) + 1
  BY WholeSize
<1>2. CASE string = Fresh
  <2>1. string.numBytes = 0 /\ string.bytes = <<>>
    BY <1>2 DEF Fresh
  <2>2. Then(string.bytes, other.bytes) = other.bytes
    BY <1>1, <2>1, ThenEmpty
  <2>3. Strlcpy(other.bytes, other.numBytes) = other.bytes
    BY <1>1, StrlcpyWhole
  <2> QED
    BY <1>1, <2>1, <2>2, <2>3 DEF AppendString, InitWithString, InitWithCString
<1>3. CASE Whole(string)
  <2>1. /\ string.bytes \in Seq(Chars) /\ Len(string.bytes) \in Nat
        /\ string.numBytes = Len(string.bytes) + 1 /\ string.numBytes # 0
    BY <1>3, WholeSize
  <2>2. AppendString(string, other)
          = [numBytes |-> string.numBytes + other.numBytes - 1,
             bytes |-> Then(string.bytes, other.bytes)]
    BY <2>1 DEF AppendString, Then
  <2>3. Len(Then(string.bytes, other.bytes)) + 1 = string.numBytes + other.numBytes - 1
    <3> DEFINE m == Len(string.bytes)
               n == Len(other.bytes)
    <3>1. Len(Then(string.bytes, other.bytes)) = m + n
      BY <1>1, <2>1, ThenProperties
    <3>2. m \in Nat /\ n \in Nat /\ string.numBytes = m + 1 /\ other.numBytes = n + 1
      BY <1>1, <2>1
    <3> HIDE DEF m, n
    <3>3. m + n + 1 = string.numBytes + other.numBytes - 1
      BY <3>2
    <3> QED
      BY <3>1, <3>3
  <2> QED
    BY <2>2, <2>3 DEF InitWithCString
<1> QED
  BY <1>2, <1>3 DEF Growing

LEMMA PartIs ==
  ASSUME NEW text \in Seq(Chars), NEW m \in Nat \ {0}, NEW n \in Nat,
         m <= n + 1, n <= Len(text)
  PROVE  /\ SubSeq(text, m, n) \in Seq(Chars) /\ Len(SubSeq(text, m, n)) = n - m + 1
         /\ \A i \in 1..n - m + 1 : SubSeq(text, m, n)[i] = text[m + i - 1]
<1>1. \A i \in m..n : text[i] \in Chars
  BY ElementOfSeq
<1>2. m \in Int /\ n \in Int
  OBVIOUS
<1>3. /\ SubSeq(text, m, n) \in Seq(Chars)
      /\ Len(SubSeq(text, m, n)) = IF m <= n THEN n - m + 1 ELSE 0
      /\ \A i \in 1..n - m + 1 : SubSeq(text, m, n)[i] = text[m + i - 1]
  BY <1>1, <1>2, SubSeqProperties
<1>4. (IF m <= n THEN n - m + 1 ELSE 0) = n - m + 1
  OBVIOUS
<1> QED
  BY <1>3, <1>4

LEMMA ToIndexIs ==
  ASSUME NEW string, Whole(string), NEW index \in Nat, index < Len(string.bytes)
  PROVE  SubstringToIndex(string, index) = InitWithCString(SubSeq(string.bytes, 1, index))
<1>1. Len(string.bytes) \in Nat
  BY WholeSize
<1>2. ~(Len(string.bytes) < index + 1) /\ index + 1 - 1 = index /\ index # Len(string.bytes)
  BY <1>1
<1>3. Strlcpy(string.bytes, index + 1) = SubSeq(string.bytes, 1, index)
  BY <1>2 DEF Strlcpy
<1> QED
  BY <1>2, <1>3 DEF SubstringToIndex

LEMMA FromIndexIs ==
  ASSUME NEW string, Whole(string), NEW index \in Nat, index < Len(string.bytes)
  PROVE  SubstringFromIndex(string, index)
           = InitWithCString(SubSeq(string.bytes, index + 1, Len(string.bytes)))
<1> DEFINE text == string.bytes
           rest == SubSeq(text, index + 1, Len(text))
<1>1. text \in Seq(Chars) /\ Len(text) \in Nat /\ string.numBytes = Len(text) + 1
  BY WholeSize
<1>2. index + 1 \in Nat \ {0} /\ index + 1 <= Len(text) + 1 /\ index # Len(text)
  BY <1>1
<1> HIDE DEF text
<1>3. rest \in Seq(Chars) /\ Len(rest) = Len(text) - (index + 1) + 1
  BY <1>1, <1>2, PartIs
<1>4. string.numBytes - index \in Int /\ Len(rest) < string.numBytes - index
  BY <1>1, <1>3
<1>5. Strlcpy(rest, string.numBytes - index) = rest
  <2> HIDE DEF rest
  <2> QED
    BY <1>3, <1>4, StrlcpyWhole
<1> QED
  BY <1>2, <1>5 DEF SubstringFromIndex, text

LEMMA FirstOf ==
  ASSUME NEW n \in Nat, NEW at \in SUBSET (1..n), NEW index,
         index = IF at = {} THEN n ELSE (CHOOSE i \in at : \A j \in at : i <= j) - 1
  PROVE  /\ index \in Nat /\ index <= n
         /\ \A i \in 1..index : i \notin at
         /\ index < n => index + 1 \in at
<1>1. CASE at = {}
  BY <1>1
<1>2. CASE at # {}
  <2> DEFINE first == CHOOSE i \in at : \A j \in at : i <= j
  <2>1. at \in SUBSET Nat
    OBVIOUS
  <2>2. \E i \in at : \A j \in at : i <= j
    BY <1>2, <2>1, LeastIs
  <2>3. first \in at /\ \A j \in at : first <= j
    BY Zenon, <2>2
  <2>4. index = first - 1
    BY <1>2
  <2> HIDE DEF first
  <2>5. first \in 1..n
    BY <2>3
  <2>6. index \in Nat /\ index < n /\ index + 1 = first
    BY <2>4, <2>5
  <2>7. \A i \in 1..index : i < first
    BY <2>4, <2>5
  <2>8. \A i \in 1..index : i \notin at
    BY <2>3, <2>5, <2>7
  <2> QED
    BY <2>3, <2>6, <2>8
<1> QED
  BY <1>1, <1>2

LEMMA CharsetIndex ==
  ASSUME NEW string, Whole(string), NEW set, NEW index, index = IndexToCharset(string, set)
  PROVE  /\ index \in Nat /\ index <= Len(string.bytes)
         /\ \A i \in 1..index : string.bytes[i] \notin set
         /\ index < Len(string.bytes) => string.bytes[index + 1] \in set
<1> DEFINE n == Len(string.bytes)
           at == {i \in DOMAIN string.bytes : string.bytes[i] \in set}
<1>1. n \in Nat /\ DOMAIN string.bytes = 1..n
  BY WholeSize
<1>2. at \in SUBSET (1..n)
  BY <1>1
<1>3. index = IF at = {} THEN n ELSE (CHOOSE i \in at : \A j \in at : i <= j) - 1
  BY DEF IndexToCharset, FirstMatch
<1>4. /\ index \in Nat /\ index <= n
      /\ \A i \in 1..index : i \notin at
      /\ index < n => index + 1 \in at
  <2> HIDE DEF n, at
  <2> QED
    BY <1>1, <1>2, <1>3, FirstOf
<1>5. \A i \in 1..index : i \in DOMAIN string.bytes
  BY <1>1, <1>4
<1> QED
  BY <1>4, <1>5

\* A match of a format is a place.
LEMMA MatchIsPlace ==
  ASSUME NEW text \in Seq(Chars), NEW i \in 1..Len(text), NEW x, NEW y
  PROVE  /\ i + Len(<<x, y>>) - 1 <= Len(text)
         /\ SubSeq(text, i, i + Len(<<x, y>>) - 1) = <<x, y>>
         <=> PlaceAt(text, <<x, y>>, i)
<1>1. Len(<<x, y>>) = 2 /\ i \in Nat \ {0} /\ Len(text) \in Nat /\ i + 2 - 1 = i + 1
  OBVIOUS
<1>2. ASSUME i + 1 <= Len(text)
      PROVE  SubSeq(text, i, i + 1) = <<text[i], text[i + 1]>>
  <2>1. /\ SubSeq(text, i, i + 1) \in Seq(Chars) /\ Len(SubSeq(text, i, i + 1)) = i + 1 - i + 1
        /\ \A j \in 1..i + 1 - i + 1 : SubSeq(text, i, i + 1)[j] = text[i + j - 1]
    <3>1. i + 1 \in Nat /\ i <= i + 1 + 1
      BY <1>1
    <3> QED
      BY <1>1, <1>2, <3>1, PartIs
  <2> DEFINE s == SubSeq(text, i, i + 1)
  <2>2. i + 1 - i + 1 = 2 /\ i + 1 - 1 = i /\ i + 2 - 1 = i + 1
    BY <1>1
  <2>3. s \in Seq(Chars) /\ Len(s) = 2 /\ s[1] = text[i] /\ s[2] = text[i + 1]
    BY <2>1, <2>2
  <2>4. text[i] \in Chars /\ text[i + 1] \in Chars
    BY <1>1, <1>2, ElementOfSeq
  <2> DEFINE t == <<text[i], text[i + 1]>>
  <2>5. t \in Seq(Chars) /\ Len(t) = 2 /\ t[1] = text[i] /\ t[2] = text[i + 1]
    BY <2>4
  <2> HIDE DEF s, t
  <2>6. \A j \in 1..2 : j = 1 \/ j = 2
    OBVIOUS
  <2>7. s = t
    BY <2>3, <2>5, <2>6, SeqEqual
  <2> QED
    BY <2>7 DEF s, t
<1>3. i + 1 <= Len(text) <=> i < Len(text)
  BY <1>1
<1> QED
  BY <1>1, <1>2, <1>3 DEF PlaceAt

LEMMA PlaceIndex ==
  ASSUME NEW string, Whole(string), NEW x, NEW y, NEW index,
         index = IndexToCString(string, <<x, y>>)
  PROVE  /\ index \in Nat /\ index <= Len(string.bytes)
         /\ \A i \in 1..index : ~PlaceAt(string.bytes, <<x, y>>, i)
         /\ index < Len(string.bytes) => PlaceAt(string.bytes, <<x, y>>, index + 1)
<1> DEFINE format == <<x, y>>
           n == Len(string.bytes)
           at == {i \in DOMAIN string.bytes :
                    /\ i + Len(format) - 1 <= Len(string.bytes)
                    /\ SubSeq(string.bytes, i, i + Len(format) - 1) = format}
<1>1. n \in Nat /\ DOMAIN string.bytes = 1..n /\ string.bytes \in Seq(Chars)
  BY WholeSize
<1>2. at \in SUBSET (1..n)
  BY <1>1
<1>3. index = IF at = {} THEN n ELSE (CHOOSE i \in at : \A j \in at : i <= j) - 1
  BY DEF IndexToCString, FirstMatch
<1>4. /\ index \in Nat /\ index <= n
      /\ \A i \in 1..index : i \notin at
      /\ index < n => index + 1 \in at
  <2> HIDE DEF n, at
  <2> QED
    BY <1>1, <1>2, <1>3, FirstOf
<1>5. ASSUME NEW i \in 1..n
      PROVE  i \in at <=> PlaceAt(string.bytes, format, i)
  <2>1. /\ i + Len(format) - 1 <= Len(string.bytes)
        /\ SubSeq(string.bytes, i, i + Len(format) - 1) = format
        <=> PlaceAt(string.bytes, format, i)
    BY <1>1, MatchIsPlace
  <2> HIDE DEF format
  <2> QED
    BY <1>1, <2>1
<1> HIDE DEF at, format
<1>6. (\A i \in 1..index : i \in 1..n) /\ (index < n => index + 1 \in 1..n)
  BY <1>1, <1>4
<1> QED
  BY <1>4, <1>5, <1>6 DEF format

LEMMA Divided ==
  ASSUME NEW text \in Seq(Chars), NEW index \in Nat, index <= Len(text)
  PROVE  text = Then(SubSeq(text, 1, index), SubSeq(text, index + 1, Len(text)))
<1>1. /\ 1 \in 1..Len(text) + 1 /\ index \in 1 - 1..Len(text)
      /\ Len(text) \in index..Len(text)
  OBVIOUS
<1>2. SubSeq(text, 1, index) \o SubSeq(text, index + 1, Len(text)) = SubSeq(text, 1, Len(text))
  BY <1>1, ConcatAdjacentSubSeq
<1> QED
  BY <1>2, SubSeqFull DEF Then

\* What is left of a text.
LEMMA RestIs ==
  ASSUME NEW text \in Seq(Chars), NEW index \in Nat, index <= Len(text),
         NEW rest, rest = SubSeq(text, index + 1, Len(text))
  PROVE  rest \in Seq(Chars) /\ Without(text, index, rest)
<1>1. index + 1 \in Nat \ {0} /\ Len(text) \in Nat /\ index + 1 <= Len(text) + 1
  OBVIOUS
<1>2. /\ rest \in Seq(Chars) /\ Len(rest) = Len(text) - (index + 1) + 1
      /\ \A i \in 1..Len(text) - (index + 1) + 1 : rest[i] = text[index + 1 + i - 1]
  BY <1>1, PartIs
<1>3. Len(text) = Len(rest) + index
  BY <1>1, <1>2
<1>4. ASSUME NEW i \in 1..Len(rest)
      PROVE  text[i + index] = rest[i]
  <2>1. i \in 1..Len(text) - (index + 1) + 1 /\ index + 1 + i - 1 = i + index
    BY <1>1, <1>2
  <2> QED
    BY <1>2, <2>1
<1> QED
  BY <1>2, <1>3, <1>4 DEF Without

\* What is left of a string behind an index, also when there is nothing.
LEMMA LeftIs ==
  ASSUME NEW string, Whole(string), NEW index \in Nat, index <= Len(string.bytes),
         NEW left, left = SubstringFromIndex(string, index)
  PROVE  Left(left) /\ left.bytes = SubSeq(string.bytes, index + 1, Len(string.bytes))
<1> DEFINE n == Len(string.bytes)
           rest == SubSeq(string.bytes, index + 1, n)
<1>1. n \in Nat /\ string.bytes \in Seq(Chars)
  BY WholeSize
<1>2. CASE index < n
  <2>1. left = InitWithCString(rest)
    BY <1>2, FromIndexIs
  <2>2. rest \in Seq(Chars)
    BY <1>1, RestIs
  <2>3. Whole(left) /\ left.bytes = rest
    <3> HIDE DEF rest
    <3> QED
      BY <2>1, <2>2, WholeIs
  <2> QED
    BY <2>3 DEF Left
<1>3. CASE ~(index < n)
  <2>1. index = n
    BY <1>1, <1>3
  <2>2. left = NoString /\ left.bytes = <<>>
    BY <2>1 DEF SubstringFromIndex, NoString
  <2>3. n + 1 \in Int /\ n \in Int /\ n < n + 1
    BY <1>1
  <2>4. SubSeq(string.bytes, n + 1, n) = <<>>
    <3> HIDE DEF n
    <3> QED
      BY <2>3, SubSeqEmpty
  <2> QED
    BY <2>1, <2>2, <2>4 DEF Left
<1> QED
  BY <1>2, <1>3

-----------------------------------------------------------------------------
(* Quoting. *)

LEMMA SpecialCharacters ==
  ASSUME NEW ch
  PROVE  ch \in specialChars <=> Special(ch)
BY DEF specialChars, Special

\* A text taken apart around one of its characters.
Cut(text, index, part, ch, rest) ==
  /\ text \in Seq(Chars) /\ index \in Nat /\ index < Len(text)
  /\ part = SubSeq(text, 1, index) /\ ch = text[index + 1]
  /\ rest = SubSeq(text, index + 1 + 1, Len(text))

Joined(text, index, part, ch, rest) ==
  /\ Len(part) = index /\ \A i \in 1..index : part[i] = text[i]
  /\ text = Then(part, Then(<<ch>>, rest))

LEMMA CutIs ==
  ASSUME NEW text, NEW index, NEW part, NEW ch, NEW rest, Cut(text, index, part, ch, rest)
  PROVE  /\ part \in Seq(Chars) /\ ch \in Chars /\ rest \in Seq(Chars)
         /\ Joined(text, index, part, ch, rest)
<1> DEFINE n == Len(text)
<1>1. text \in Seq(Chars) /\ index \in Nat /\ n \in Nat /\ index < n
  BY DEF Cut
<1>2. part = SubSeq(text, 1, index) /\ ch = text[index + 1] /\ rest = SubSeq(text, index + 1 + 1, n)
  BY DEF Cut
<1>3. /\ 1 \in Nat \ {0} /\ 1 <= index + 1 /\ index <= n /\ index + 1 <= n
      /\ index + 1 \in Nat /\ index + 1 \in 1..n /\ n \in index + 1..n
      /\ index - 1 + 1 = index /\ \A i \in 1..index : 1 + i - 1 = i
  <2> HIDE DEF n
  <2> QED
    BY <1>1
<1>4. /\ part \in Seq(Chars) /\ Len(part) = index - 1 + 1
      /\ \A i \in 1..index - 1 + 1 : part[i] = text[1 + i - 1]
  BY <1>1, <1>2, <1>3, PartIs
<1>5. ch \in Chars
  BY <1>1, <1>2, <1>3, ElementOfSeq
<1>6. rest \in Seq(Chars)
  BY <1>1, <1>2, <1>3, RestIs
<1>7. SubSeq(text, index + 1, n) = Then(<<ch>>, rest)
  BY <1>1, <1>2, <1>3, SubSeqRecursiveFirst DEF Then
<1>8. text = Then(part, SubSeq(text, index + 1, n))
  BY <1>1, <1>2, <1>3, Divided
<1>9. text = Then(part, Then(<<ch>>, rest))
  BY <1>7, <1>8
<1>10. Len(part) = index /\ \A i \in 1..index : part[i] = text[i]
  BY <1>3, <1>4
<1> QED
  BY <1>4, <1>5, <1>6, <1>9, <1>10 DEF Joined

LEMMA CharacterStands ==
  ASSUME NEW part \in Seq(Chars), \A i \in 1..Len(part) : ~Special(part[i]),
         NEW ch \in Chars, Special(ch), NEW rest \in Seq(Chars),
         NEW done \in Seq(Chars), NEW q, Stands(q, Spelled(done))
  PROVE  /\ Then(Then(done, part), <<ch>>) \in Seq(Chars)
         /\ Then(done, Then(part, Then(<<ch>>, rest))) = Then(Then(Then(done, part), <<ch>>), rest)
         /\ Stands(Then(Then(Then(q, part), <<"\\">>), <<ch>>),
                   Spelled(Then(Then(done, part), <<ch>>)))
<1> DEFINE one == <<ch>>
           bs == <<"\\">>
<1>1. one \in Seq(Chars) /\ bs \in Seq(Chars)
  BY DEF Chars
<1>2. Stands(part, Spelled(part))
  BY PlainStands
<1>3. Stands(Then(bs, one), Spelled(one))
  BY StandsEscaped
<1> HIDE DEF one, bs
<1>4. q \in Seq(Chars)
  BY DEF Stands
<1>5. Then(done, part) \in Seq(Chars) /\ Then(q, part) \in Seq(Chars)
  BY <1>4, ThenTyped
<1>6. Then(Then(done, part), one) \in Seq(Chars)
  BY <1>1, <1>5, ThenTyped
<1>7. Then(done, Then(part, Then(one, rest))) = Then(Then(Then(done, part), one), rest)
  <2>1. Then(Then(Then(done, part), one), rest) = Then(Then(done, part), Then(one, rest))
    BY <1>1, <1>5, ThenAssociative
  <2>2. Then(one, rest) \in Seq(Chars)
    BY <1>1, ThenTyped
  <2>3. Then(Then(done, part), Then(one, rest)) = Then(done, Then(part, Then(one, rest)))
    BY <2>2, ThenAssociative
  <2> QED
    BY <2>1, <2>3
<1>8. Stands(Then(q, part), Spelled(Then(done, part)))
  <2>1. Stands(Then(q, part), Then(Spelled(done), Spelled(part)))
    BY <1>2, StandsThen
  <2>2. Spelled(Then(done, part)) = Then(Spelled(done), Spelled(part))
    BY SpelledThen
  <2> QED
    BY <2>1, <2>2
<1>9. Stands(Then(Then(Then(q, part), bs), one), Spelled(Then(Then(done, part), one)))
  <2>1. Stands(Then(Then(q, part), Then(bs, one)),
               Then(Spelled(Then(done, part)), Spelled(one)))
    BY <1>3, <1>8, StandsThen
  <2>2. Spelled(Then(Then(done, part), one)) = Then(Spelled(Then(done, part)), Spelled(one))
    BY <1>1, <1>5, SpelledThen
  <2>3. Then(Then(Then(q, part), bs), one) = Then(Then(q, part), Then(bs, one))
    BY <1>1, <1>5, ThenAssociative
  <2> QED
    BY <2>1, <2>2, <2>3
<1> QED
  BY <1>6, <1>7, <1>9 DEF one, bs

OrderFits(o) ==
  /\ o.maker \in DOMAIN Formats
  /\ o.template \in Seq(Chars) /\ o.username \in Seq(Chars)

\* What is quoted so far stands for the beginning of the name.
QuotedSoFar(done) ==
  /\ done \in Seq(Chars) /\ order.username = Then(done, unquoted.bytes)
  /\ Stands(quoted.bytes, Spelled(done))

Quoting ==
  /\ Left(unquoted) /\ Growing(quoted) /\ (quoted = Fresh => Whole(unquoted))
  /\ \E done : QuotedSoFar(done)
  /\ template = InitWithCString(order.template) /\ filter = Fresh

\* What is filled in so far stands in the filter for the beginning of what is meant.
FilledSoFar(means) ==
  /\ Stands(filter.bytes, means)
  /\ Meant(order) = Then(means, Filled(template.bytes, Format, order.username))

\* A text with no backslash right in front of a place.
Free(text, format) ==
  \A i \in 1..Len(text) : text[i] = "\\" => ~PlaceAt(text, format, i + 1)

Filling ==
  /\ Left(unquoted) /\ Whole(quoted) /\ Stands(quoted.bytes, Spelled(order.username))
  /\ Left(template) /\ Growing(filter)
  /\ ~PlaceEscaped(order) => Free(template.bytes, Format) /\ \E means : FilledSoFar(means)

Built ==
  /\ Left(unquoted) /\ Whole(quoted) /\ Left(template) /\ Growing(filter)
  /\ ~PlaceEscaped(order) => Understood(filter.bytes) = Meant(order)

FilterInv ==
  /\ OrderFits(order)
  /\ \/ building = "quoting" /\ Quoting
     \/ building = "filling" /\ Filling
     \/ building = "built" /\ Built

LEMMA QuoteCharacterKept ==
  ASSUME OrderFits(order), Quoting, QuoteCharacter
  PROVE  Quoting'
<1> DEFINE text == unquoted.bytes
           index == IndexToCharset(unquoted, specialChars)
           part == SubSeq(text, 1, index)
           ch == text[index + 1]
           rest == SubSeq(text, index + 1 + 1, Len(text))
<1>1. Whole(unquoted) /\ index < Len(text)
  BY DEF QuoteCharacter, Quotable, Quoting, Left
<1>2. /\ index \in Nat /\ index <= Len(text)
      /\ \A i \in 1..index : text[i] \notin specialChars
      /\ text[index + 1] \in specialChars
  <2> HIDE DEF index
  <2>1. index = IndexToCharset(unquoted, specialChars)
    BY DEF index
  <2> QED
    BY <1>1, <2>1, CharsetIndex
<1>3. text \in Seq(Chars) /\ Len(text) \in Nat
  BY <1>1, WholeSize
<1>4. Cut(text, index, part, ch, rest)
  BY <1>1, <1>2, <1>3 DEF Cut
<1>5. SubstringToIndex(unquoted, index) = InitWithCString(part)
  BY <1>1, <1>2, ToIndexIs
<1>6. SubstringFromIndex(unquoted, index).bytes[1] = ch
  <2>1. SubstringFromIndex(unquoted, index) = InitWithCString(SubSeq(text, index + 1, Len(text)))
    BY <1>1, <1>2, FromIndexIs
  <2>2. SubstringFromIndex(unquoted, index).bytes = SubSeq(text, index + 1, Len(text))
    <3> DEFINE behind == SubSeq(text, index + 1, Len(text))
               from == SubstringFromIndex(unquoted, index)
    <3>1. from = InitWithCString(behind)
      BY <2>1
    <3> HIDE DEF behind, from
    <3>2. from.bytes = behind
      BY <3>1 DEF InitWithCString
    <3> QED
      BY <3>2 DEF behind, from
  <2>3. SubSeq(text, index + 1, Len(text))[1] = text[index + 1]
    <3> HIDE DEF text, index
    <3>1. /\ index + 1 \in Nat \ {0} /\ index + 1 <= Len(text) + 1
          /\ 1 \in 1..Len(text) - (index + 1) + 1 /\ index + 1 + 1 - 1 = index + 1
      BY <1>1, <1>2, <1>3
    <3> QED
      BY <1>3, <3>1, PartIs
  <2> QED
    BY <2>2, <2>3
<1>7. Left(unquoted') /\ unquoted'.bytes = rest
  <2>1. IndexFromCharset(unquoted, specialChars) = index + 1
    <3>1. index # Len(text)
      <4> HIDE DEF index, text
      <4> QED
        BY <1>1, <1>2, <1>3
    <3> QED
      BY <3>1 DEF IndexFromCharset
  <2>2. unquoted' = SubstringFromIndex(unquoted, index + 1)
    BY <2>1 DEF QuoteCharacter
  <2>3. index + 1 \in Nat /\ index + 1 <= Len(text)
    <3> HIDE DEF index, text
    <3> QED
      BY <1>1, <1>2, <1>3
  <2> HIDE DEF index
  <2> QED
    BY <1>1, <2>2, <2>3, LeftIs DEF text
<1>8. quoted' = AppendCString(AppendCString(AppendString(quoted, InitWithCString(part)), <<"\\">>),
                              <<ch>>)
  BY <1>5, <1>6 DEF QuoteCharacter
<1> HIDE DEF text, index, part, ch, rest
<1>9. /\ part \in Seq(Chars) /\ ch \in Chars /\ rest \in Seq(Chars)
      /\ Len(part) = index /\ \A i \in 1..index : part[i] = text[i]
      /\ text = Then(part, Then(<<ch>>, rest))
  <2>1. /\ part \in Seq(Chars) /\ ch \in Chars /\ rest \in Seq(Chars)
        /\ Joined(text, index, part, ch, rest)
    BY <1>4, CutIs
  <2> QED
    BY <2>1 DEF Joined
<1>10. /\ <<"\\">> \in Seq(Chars) /\ <<ch>> \in Seq(Chars)
  BY <1>9 DEF Chars
<1>11. PICK done : QuotedSoFar(done)
  BY DEF Quoting
<1>12. /\ done \in Seq(Chars) /\ order.username = Then(done, text)
       /\ Stands(quoted.bytes, Spelled(done)) /\ quoted.bytes \in Seq(Chars)
  BY <1>11 DEF QuotedSoFar, Stands, text
<1> DEFINE q == quoted.bytes
           bs == <<"\\">>
           one == <<ch>>
           told == Then(Then(done, part), one)
<1>13. Whole(quoted') /\ quoted'.bytes = Then(Then(Then(q, part), bs), one)
  <2> HIDE DEF bs, one, q
  <2>1. Then(q, part) \in Seq(Chars) /\ Then(Then(q, part), bs) \in Seq(Chars)
        /\ Then(Then(Then(q, part), bs), one) \in Seq(Chars)
    BY <1>9, <1>10, <1>12, ThenTyped DEF q, bs, one
  <2>2. AppendString(quoted, InitWithCString(part)) = InitWithCString(Then(q, part))
    BY <1>9, WholeIs, AppendStringIs DEF Quoting, q
  <2>3. AppendCString(InitWithCString(Then(q, part)), bs)
          = InitWithCString(Then(Then(q, part), bs))
    BY <1>10, <2>1, WholeIs, AppendCStringIs DEF Growing, bs
  <2>4. AppendCString(InitWithCString(Then(Then(q, part), bs)), one)
          = InitWithCString(Then(Then(Then(q, part), bs), one))
    BY <1>10, <2>1, WholeIs, AppendCStringIs DEF Growing, one
  <2>5. quoted' = InitWithCString(Then(Then(Then(q, part), bs), one))
    BY <1>8, <2>2, <2>3, <2>4 DEF bs, one
  <2> QED
    BY <2>1, <2>5, WholeIs
<1>14. /\ told \in Seq(Chars)
       /\ order.username = Then(told, rest)
       /\ Stands(Then(Then(Then(q, part), bs), one), Spelled(told))
  <2>1. \A i \in 1..Len(part) : ~Special(part[i])
    BY <1>2, <1>9, SpecialCharacters
  <2>2. Special(ch)
    BY <1>2, SpecialCharacters DEF ch
  <2>3. Stands(q, Spelled(done)) /\ done \in Seq(Chars) /\ part \in Seq(Chars)
    BY <1>9, <1>12
  <2>4. order.username = Then(done, Then(part, Then(one, rest)))
    BY <1>9, <1>12
  <2> HIDE DEF q
  <2>5. /\ told \in Seq(Chars)
        /\ Then(done, Then(part, Then(one, rest))) = Then(told, rest)
        /\ Stands(Then(Then(Then(q, part), bs), one), Spelled(told))
    BY <1>9, <2>1, <2>2, <2>3, CharacterStands
  <2> QED
    BY <2>4, <2>5
<1>15. PICK w : w = told
  OBVIOUS
<1>16. QuotedSoFar(w)'
  <2> HIDE DEF told, bs, one, q
  <2>1. order' = order
    BY DEF QuoteCharacter
  <2> QED
    BY <1>7, <1>13, <1>14, <1>15, <2>1 DEF QuotedSoFar
<1> QED
  BY <1>7, <1>13, <1>16, WholeSize DEF Quoting, QuoteCharacter, Growing

LEMMA MeantIs ==
  Meant(order) = Filled(order.template, Format, order.username)
BY DEF Meant, Format

LEMMA PlaceEscapedIs ==
  ASSUME OrderFits(order), ~PlaceEscaped(order)
  PROVE  Free(order.template, Format)
<1>1. DOMAIN order.template = 1..Len(order.template)
  BY DEF OrderFits
<1> QED
  BY <1>1 DEF PlaceEscaped, Free, Format

LEMMA QuoteRestKept ==
  ASSUME OrderFits(order), Quoting, QuoteRest
  PROVE  Filling'
<1>1. PICK done : QuotedSoFar(done)
  BY DEF Quoting
<1>2. /\ done \in Seq(Chars) /\ order.username = Then(done, unquoted.bytes)
      /\ Stands(quoted.bytes, Spelled(done)) /\ quoted.bytes \in Seq(Chars)
  BY <1>1 DEF QuotedSoFar, Stands
<1>3. Whole(quoted') /\ Stands(quoted'.bytes, Spelled(order.username))
  <2>1. CASE unquoted = NoString
    <3>1. unquoted.bytes = <<>>
      BY <2>1 DEF NoString
    <3>2. order.username = done
      BY <1>2, <3>1, ThenEmpty
    <3>3. quoted' = quoted
      BY <2>1 DEF QuoteRest
    <3>4. Whole(quoted)
      BY <2>1, WholeSize DEF Quoting, Growing
    <3> QED
      BY <1>2, <3>2, <3>3, <3>4
  <2>2. CASE unquoted # NoString
    <3> DEFINE text == unquoted.bytes
               index == IndexToCharset(unquoted, specialChars)
               q == quoted.bytes
    <3>1. Whole(unquoted) /\ text \in Seq(Chars) /\ Len(text) \in Nat
      BY <2>2, WholeSize DEF Quoting, Left
    <3>2. ~(index < Len(text)) /\ quoted' = AppendString(quoted, unquoted)
      BY <2>2 DEF QuoteRest, Quotable
    <3>3. index = IndexToCharset(unquoted, specialChars)
      OBVIOUS
    <3> HIDE DEF index
    <3>4. /\ index \in Nat /\ index <= Len(text)
          /\ \A i \in 1..index : text[i] \notin specialChars
      BY <3>1, <3>3, CharsetIndex
    <3>5. index = Len(text)
      <4> HIDE DEF text
      <4> QED
        BY <3>1, <3>2, <3>4
    <3>6. \A i \in 1..Len(text) : ~Special(text[i])
      BY <3>4, <3>5, SpecialCharacters
    <3> HIDE DEF text
    <3>7. Stands(text, Spelled(text))
      BY <3>1, <3>6, PlainStands
    <3>8. Then(q, text) \in Seq(Chars)
      BY <1>2, <3>1, ThenTyped
    <3>9. quoted' = InitWithCString(Then(q, text))
      BY <3>1, <3>2, AppendStringIs DEF Quoting, text
    <3>10. Stands(Then(q, text), Then(Spelled(done), Spelled(text)))
      BY <1>2, <3>7, StandsThen
    <3>11. Spelled(Then(done, text)) = Then(Spelled(done), Spelled(text))
      BY <1>2, <3>1, SpelledThen
    <3> HIDE DEF q
    <3>12. Whole(quoted') /\ quoted'.bytes = Then(q, text)
      BY <3>8, <3>9, WholeIs
    <3> QED
      BY <1>2, <3>10, <3>11, <3>12 DEF text
  <2> QED
    BY <2>1, <2>2
<1>4. /\ order' = order /\ unquoted' = unquoted /\ template' = template /\ filter' = filter
      /\ Format' = Format
  BY DEF QuoteRest, Format
<1>5. /\ template.bytes = order.template /\ Whole(template)
      /\ filter = Fresh /\ filter.bytes = <<>> /\ order.template \in Seq(Chars)
      /\ order.username \in Seq(Chars)
  BY WholeIs DEF Quoting, OrderFits, Fresh
<1>6. ASSUME ~PlaceEscaped(order)
      PROVE  Free(template.bytes, Format) /\ FilledSoFar(<<>>)
  <2>1. Free(template.bytes, Format)
    BY <1>5, <1>6, PlaceEscapedIs
  <2>2. Filled(template.bytes, Format, order.username) \in Seq(Senses)
    BY <1>5, FilledTyped
  <2>3. Then(<<>>, Filled(template.bytes, Format, order.username))
          = Filled(template.bytes, Format, order.username)
    BY <2>2, ThenEmpty
  <2>4. FilledSoFar(<<>>)
    BY <1>5, <2>3, MeantIs, StandsNone DEF FilledSoFar
  <2> QED
    BY <2>1, <2>4
<1>7. ASSUME ~PlaceEscaped(order')
      PROVE  Free(template'.bytes, Format') /\ FilledSoFar(<<>>)'
  BY <1>4, <1>6, <1>7 DEF FilledSoFar
<1> QED
  BY <1>3, <1>4, <1>5, <1>7 DEF Filling, Quoting, Growing, Left

-----------------------------------------------------------------------------
(* Filling in. *)

LEMMA FreeBehind ==
  ASSUME NEW text \in Seq(Chars), NEW rest \in Seq(Chars), NEW k \in Nat,
         Without(text, k, rest), NEW format, Free(text, format)
  PROVE  Free(rest, format)
<1> SUFFICES ASSUME NEW i \in 1..Len(rest), rest[i] = "\\", PlaceAt(rest, format, i + 1)
             PROVE  FALSE
  BY DEF Free
<1>1. Len(rest) \in Nat /\ Len(text) = Len(rest) + k
  BY DEF Without
<1> DEFINE j == i + k
           d == i + 1
<1>2. d < Len(rest)
  BY DEF PlaceAt
<1>3. d \in 1..Len(rest) /\ d + k = j + 1 /\ j \in 1..Len(text)
  BY <1>1, <1>2
<1>4. text[j] = "\\"
  BY DEF Without
<1>5. PlaceAt(rest, format, d)
  OBVIOUS
<1> HIDE DEF j, d
<1>6. PlaceAt(text, format, d + k)
  BY <1>3, <1>5, PlaceBehind
<1> QED
  BY <1>3, <1>4, <1>6 DEF Free

LEMMA WithoutBoth ==
  ASSUME NEW text \in Seq(Chars), NEW behind \in Seq(Chars), NEW rest \in Seq(Chars),
         NEW k \in Nat, Without(text, k, behind), Without(text, k + 2, rest)
  PROVE  Without(behind, 2, rest)
<1> DEFINE m == Len(rest)
           n == Len(behind)
<1>1. m \in Nat /\ n \in Nat /\ Len(text) = m + (k + 2) /\ Len(text) = n + k
  <2>1. m \in Nat /\ n \in Nat
    OBVIOUS
  <2>2. Len(text) = Len(behind) + k
    BY DEF Without
  <2>3. Len(text) = Len(rest) + (k + 2)
    BY DEF Without
  <2> QED
    BY <2>1, <2>2, <2>3
<1>2. n = m + 2
  <2> HIDE DEF m, n
  <2> QED
    BY <1>1
<1>3. ASSUME NEW i \in 1..m
      PROVE  behind[i + 2] = rest[i]
  <2> DEFINE j == i + 2
  <2>1. text[i + (k + 2)] = rest[i]
    BY DEF Without
  <2>2. j \in 1..n /\ i + (k + 2) = j + k
    <3> HIDE DEF m, n
    <3> QED
      BY <1>1, <1>2
  <2> HIDE DEF j
  <2>3. text[j + k] = behind[j]
    BY <2>2 DEF Without
  <2> QED
    BY <2>1, <2>2, <2>3 DEF j
<1> QED
  BY <1>2, <1>3 DEF Without

\* A text taken apart around its first place.
CutAtPlace(text, format, index, part, rest) ==
  /\ text \in Seq(Chars) /\ index \in Nat /\ index < Len(text)
  /\ PlaceAt(text, format, index + 1) /\ \A i \in 1..index : ~PlaceAt(text, format, i)
  /\ part = SubSeq(text, 1, index) /\ rest = SubSeq(text, index + 2 + 1, Len(text))

LEMMA PlaceFilled ==
  ASSUME NEW text, NEW format, NEW index, NEW part, NEW rest,
         CutAtPlace(text, format, index, part, rest), Free(text, format),
         NEW name \in Seq(Chars)
  PROVE  /\ part \in Seq(Chars) /\ rest \in Seq(Chars)
         /\ Closed(part) /\ Free(rest, format)
         /\ Filled(text, format, name)
              = Then(Understood(part), Then(Spelled(name), Filled(rest, format, name)))
<1> DEFINE n == Len(text)
<1>1. text \in Seq(Chars) /\ index \in Nat /\ n \in Nat /\ index < n
  BY DEF CutAtPlace
<1>2. /\ PlaceAt(text, format, index + 1) /\ \A i \in 1..index : ~PlaceAt(text, format, i)
  BY DEF CutAtPlace
<1>3. part = SubSeq(text, 1, index) /\ rest = SubSeq(text, index + 2 + 1, n)
  BY DEF CutAtPlace
<1>4. index + 1 < n
  BY <1>2 DEF PlaceAt
<1>5. /\ 1 \in Nat \ {0} /\ 1 <= index + 1 /\ index <= n /\ index + 2 <= n
      /\ index + 2 \in Nat /\ index - 1 + 1 = index /\ \A i \in 1..index : 1 + i - 1 = i
  <2> HIDE DEF n
  <2> QED
    BY <1>1, <1>4
<1> DEFINE behind == SubSeq(text, index + 1, n)
<1>6. /\ part \in Seq(Chars) /\ Len(part) = index - 1 + 1
      /\ \A i \in 1..index - 1 + 1 : part[i] = text[1 + i - 1]
  BY <1>1, <1>3, <1>5, PartIs
<1>7. Len(part) = index /\ \A i \in 1..index : part[i] = text[i]
  BY <1>5, <1>6
<1>8. rest \in Seq(Chars) /\ Without(text, index + 2, rest)
  BY <1>1, <1>3, <1>5, RestIs
<1>9. behind \in Seq(Chars) /\ Without(text, index, behind)
  BY <1>1, <1>5, RestIs
<1>10. text = Then(part, behind)
  BY <1>1, <1>3, <1>5, Divided
<1> HIDE DEF behind, n
<1>11. Without(behind, 2, rest)
  BY <1>1, <1>8, <1>9, WithoutBoth
<1>12. PlaceAt(behind, format, 1)
  <2>1. Len(behind) \in Nat /\ Len(text) = Len(behind) + index
    BY <1>9 DEF Without
  <2>2. 1 \in 1..Len(behind) /\ 1 + index = index + 1
    BY <1>1, <1>5, <2>1 DEF n
  <2>3. PlaceAt(text, format, 1 + index)
    BY <1>2, <2>2
  <2> QED
    BY <1>1, <1>9, <2>2, <2>3, PlaceBehind
<1>13. Closed(part)
  <2> SUFFICES ASSUME part # <<>>
               PROVE  part[Len(part)] # "\\"
    BY DEF Closed
  <2>1. index \in 1..index /\ index \in 1..Len(text)
    BY <1>1, <1>6, <1>7, EmptySeq DEF n
  <2> QED
    BY <1>2, <1>7, <2>1 DEF Free
<1>14. NoPlaceIn(part, behind, format)
  BY <1>2, <1>7, <1>10 DEF NoPlaceIn, Then
<1>15. Free(rest, format)
  BY <1>1, <1>5, <1>8, FreeBehind
<1>16. Filled(Then(part, behind), format, name)
         = Then(Understood(part), Filled(behind, format, name))
  BY <1>6, <1>9, <1>13, <1>14, PartFilled
<1>17. Filled(behind, format, name) = Then(Spelled(name), Filled(rest, format, name))
  BY <1>8, <1>9, <1>11, <1>12, FilledPlace
<1>18. Filled(text, format, name)
         = Then(Understood(part), Then(Spelled(name), Filled(rest, format, name)))
  BY <1>10, <1>16, <1>17
<1> QED
  BY <1>6, <1>8, <1>13, <1>15, <1>18

\* Every format is a percent sign and a letter.
LEMMA FormatIs ==
  ASSUME OrderFits(order)
  PROVE  \E x, y : Format = <<x, y>>
<1>1. order.maker \in {"plugin", "object"}
  BY DEF OrderFits, Formats
<1>2. CASE order.maker = "plugin"
  <2>1. Format = <<"%", "u">>
    BY <1>2 DEF Format, Formats
  <2> QED
    BY <2>1
<1>3. CASE order.maker = "object"
  <2>1. Format = <<"%", "s">>
    BY <1>3 DEF Format, Formats
  <2> QED
    BY <2>1
<1> QED
  BY <1>1, <1>2, <1>3

\* What the filter stands for, with one more part and the name behind it.
LEMMA MeansMore ==
  ASSUME NEW f, NEW means, Stands(f, means), NEW part \in Seq(Chars), Closed(part),
         NEW q, NEW sense, Stands(q, sense), NEW left \in Seq(Senses),
         NEW meant, meant = Then(means, Then(Understood(part), Then(sense, left)))
  PROVE  /\ Stands(Then(Then(f, part), q), Then(Then(means, Understood(part)), sense))
         /\ meant = Then(Then(Then(means, Understood(part)), sense), left)
<1> DEFINE u == Understood(part)
<1>1. Stands(part, u)
  BY PartStands
<1>2. means \in Seq(Senses) /\ u \in Seq(Senses) /\ sense \in Seq(Senses)
  BY <1>1 DEF Stands
<1>3. Stands(Then(Then(f, part), q), Then(Then(means, u), sense))
  <2> HIDE DEF u
  <2>1. Stands(Then(f, part), Then(means, u))
    BY <1>1, StandsThen
  <2> QED
    BY <2>1, StandsThen
<1>4. meant = Then(Then(Then(means, u), sense), left)
  <2> HIDE DEF u
  <2>1. Then(sense, left) \in Seq(Senses) /\ Then(means, u) \in Seq(Senses)
    BY <1>2, ThenTyped
  <2>2. Then(Then(means, u), Then(sense, left)) = Then(means, Then(u, Then(sense, left)))
    BY <1>2, <2>1, ThenAssociative
  <2>3. Then(Then(Then(means, u), sense), left) = Then(Then(means, u), Then(sense, left))
    BY <1>2, <2>1, ThenAssociative
  <2> QED
    BY <2>2, <2>3 DEF u
<1> QED
  BY <1>3, <1>4

LEMMA FillPlaceKept ==
  ASSUME OrderFits(order), Filling, FillPlace
  PROVE  Filling'
<1> DEFINE text == template.bytes
           index == IndexToCString(template, Format)
           part == SubSeq(text, 1, index)
           rest == SubSeq(text, index + 2 + 1, Len(text))
           f == filter.bytes
           q == quoted.bytes
<1>1. Whole(template) /\ index < Len(text)
  BY DEF FillPlace, HasPlace, Filling, Left
<1>2. PICK x, y : Format = <<x, y>>
  BY FormatIs
<1>3. text \in Seq(Chars) /\ Len(text) \in Nat /\ Len(Format) = 2
  BY <1>1, <1>2, WholeSize
<1>4. /\ index \in Nat /\ \A i \in 1..index : ~PlaceAt(text, Format, i)
      /\ PlaceAt(text, Format, index + 1)
  <2> HIDE DEF index
  <2>1. index = IndexToCString(template, <<x, y>>)
    BY <1>2 DEF index
  <2> QED
    BY <1>1, <1>2, <2>1, PlaceIndex
<1>5. CutAtPlace(text, Format, index, part, rest)
  BY <1>1, <1>3, <1>4 DEF CutAtPlace
<1>6. SubstringToIndex(template, index) = InitWithCString(part)
  BY <1>1, <1>4, ToIndexIs
<1>7. filter' = AppendString(AppendString(filter, InitWithCString(part)), quoted)
  BY <1>6 DEF FillPlace
<1>8. Left(template') /\ template'.bytes = rest
  <2>1. IndexFromCString(template, Format) = index + 2
    <3>1. index # Len(text)
      <4> HIDE DEF index, text
      <4> QED
        BY <1>1, <1>3, <1>4
    <3> QED
      BY <1>3, <3>1 DEF IndexFromCString
  <2>2. template' = SubstringFromIndex(template, index + 2)
    BY <2>1 DEF FillPlace
  <2>3. index + 1 < Len(text)
    BY <1>4 DEF PlaceAt
  <2>4. index + 2 \in Nat /\ index + 2 <= Len(text)
    <3> HIDE DEF index, text
    <3> QED
      BY <1>3, <1>4, <2>3
  <2> HIDE DEF index
  <2> QED
    BY <1>1, <2>2, <2>4, LeftIs DEF text
<1> HIDE DEF text, index, part, rest
<1>9. /\ order' = order /\ unquoted' = unquoted /\ quoted' = quoted /\ Format' = Format
  BY DEF FillPlace, Format
<1>10. /\ Whole(quoted) /\ Growing(filter) /\ Stands(q, Spelled(order.username))
       /\ f \in Seq(Chars) /\ q \in Seq(Chars) /\ order.username \in Seq(Chars)
  BY GrowingText, WholeSize DEF Filling, OrderFits
<1>11. part \in Seq(Chars) /\ rest \in Seq(Chars)
  <2>1. /\ index + 2 \in Nat /\ index + 2 <= Len(text) /\ 1 <= index + 1 /\ index <= Len(text)
        /\ 1 \in Nat \ {0}
    <3>1. index + 1 < Len(text)
      BY <1>4 DEF PlaceAt
    <3> QED
      BY <1>3, <1>4, <3>1
  <2> QED
    BY <1>3, <1>4, <2>1, PartIs, RestIs DEF part, rest
<1>12. Whole(filter') /\ filter'.bytes = Then(Then(f, part), q)
  <2>1. AppendString(filter, InitWithCString(part)) = InitWithCString(Then(f, part))
    BY <1>10, <1>11, WholeIs, AppendStringIs DEF f
  <2>2. Then(f, part) \in Seq(Chars) /\ Then(Then(f, part), q) \in Seq(Chars)
    BY <1>10, <1>11, ThenTyped
  <2>3. AppendString(InitWithCString(Then(f, part)), quoted)
          = InitWithCString(Then(Then(f, part), q))
    BY <1>10, <2>2, WholeIs, AppendStringIs DEF Growing, q
  <2> HIDE DEF f, q
  <2> QED
    BY <1>7, <2>1, <2>2, <2>3, WholeIs
<1>13. ASSUME ~PlaceEscaped(order)
       PROVE  Free(rest, Format) /\ \E means : FilledSoFar(means)'
  <2>1. PICK means : FilledSoFar(means)
    BY <1>13 DEF Filling
  <2>2. Free(text, Format)
    BY <1>13 DEF Filling, text
  <2> DEFINE left == Filled(rest, Format, order.username)
             sense == Spelled(order.username)
             more == Then(Then(means, Understood(part)), sense)
  <2>3. /\ Closed(part) /\ Free(rest, Format)
        /\ Filled(text, Format, order.username) = Then(Understood(part), Then(sense, left))
    BY <1>5, <1>10, <2>2, PlaceFilled
  <2>4. left \in Seq(Senses)
    BY <1>10, <1>11, FilledTyped
  <2>5. Stands(f, means) /\ Meant(order) = Then(means, Then(Understood(part), Then(sense, left)))
    BY <2>1, <2>3 DEF FilledSoFar, text, f
  <2>6. Stands(Then(Then(f, part), q), more) /\ Meant(order) = Then(more, left)
    <3> HIDE DEF left, sense, f, q
    <3>1. Stands(q, sense)
      BY <1>10 DEF sense
    <3> QED
      BY <1>11, <2>3, <2>4, <2>5, <3>1, MeansMore
  <2>7. PICK w : w = more
    OBVIOUS
  <2>8. FilledSoFar(w)'
    <3> HIDE DEF more, f, q
    <3> QED
      BY <1>8, <1>9, <1>12, <2>6, <2>7 DEF FilledSoFar
  <2> QED
    BY <2>3, <2>8
<1> HIDE DEF f, q
<1>14. ~PlaceEscaped(order)' => Free(template.bytes, Format)' /\ \E means : FilledSoFar(means)'
  <2>1. PlaceEscaped(order)' = PlaceEscaped(order)
    BY <1>9 DEF PlaceEscaped
  <2>2. Free(template.bytes, Format)' = Free(rest, Format)
    BY <1>8, <1>9 DEF Free
  <2> QED
    BY <1>13, <2>1, <2>2
<1> QED
  BY <1>8, <1>9, <1>10, <1>12, <1>14 DEF Filling, Growing

\* Without a place a text is understood as it is.
LEMMA NothingFilled ==
  ASSUME NEW text \in Seq(Chars), NEW format, NEW name,
         \A i \in 1..Len(text) : ~PlaceAt(text, format, i)
  PROVE  Filled(text, format, name) = Understood(text)
<1>1. DOMAIN text = 1..Len(text)
  OBVIOUS
<1>2. ASSUME NEW i \in 1..Len(text)
      PROVE  ~PlaceAt(text, <<>>, i)
  BY DEF PlaceAt
<1>3. At(text, format, name) = At(text, <<>>, <<>>)
  BY <1>1, <1>2 DEF At
<1>4. /\ Filled(text, format, name) = ReadBy(Len(text), At(text, format, name))
      /\ Understood(text) = ReadBy(Len(text), At(text, <<>>, <<>>))
  BY DEF Filled, Understood, At
<1> QED
  BY <1>3, <1>4

LEMMA FillRestKept ==
  ASSUME OrderFits(order), Filling, FillRest
  PROVE  Built'
<1> DEFINE text == template.bytes
           f == filter.bytes
<1>1. /\ order' = order /\ unquoted' = unquoted /\ quoted' = quoted /\ template' = template
  BY DEF FillRest
<1>2. f \in Seq(Chars) /\ Growing(filter) /\ text \in Seq(Chars) /\ Len(text) \in Nat
  BY GrowingText DEF Filling
<1>3. Growing(filter') /\ filter'.bytes = Then(f, text)
  <2>1. CASE template = NoString
    <3>1. text = <<>> /\ filter' = filter
      BY <2>1 DEF NoString, FillRest
    <3>2. Then(f, <<>>) = f
      BY <1>2, ThenEmpty
    <3> HIDE DEF text
    <3> QED
      BY <1>2, <3>1, <3>2
  <2>2. CASE template # NoString
    <3>1. Whole(template) /\ filter' = AppendString(filter, template)
      BY <2>2 DEF Filling, Left, FillRest
    <3>2. filter' = InitWithCString(Then(f, text))
      BY <1>2, <3>1, AppendStringIs
    <3>3. Then(f, text) \in Seq(Chars)
      BY <1>2, ThenTyped
    <3> HIDE DEF f, text
    <3> QED
      BY <3>2, <3>3, WholeIs DEF Growing
  <2> QED
    BY <2>1, <2>2
<1>4. \A i \in 1..Len(text) : ~PlaceAt(text, Format, i)
  <2>1. CASE template = NoString
    BY <2>1 DEF NoString
  <2>2. CASE template # NoString
    <3> DEFINE index == IndexToCString(template, Format)
    <3>1. Whole(template) /\ ~(index < Len(text))
      BY <2>2 DEF Filling, Left, FillRest, HasPlace
    <3>2. PICK x, y : Format = <<x, y>>
      BY FormatIs
    <3>3. index = IndexToCString(template, <<x, y>>)
      BY <3>2
    <3> HIDE DEF index
    <3>4. index \in Nat /\ index <= Len(text) /\ \A i \in 1..index : ~PlaceAt(text, Format, i)
      BY <3>1, <3>2, <3>3, PlaceIndex
    <3>5. index = Len(text)
      <4> HIDE DEF text
      <4> QED
        BY <1>2, <3>1, <3>4
    <3> QED
      BY <3>4, <3>5
  <2> QED
    BY <2>1, <2>2
<1>5. ASSUME ~PlaceEscaped(order)
      PROVE  Understood(Then(f, text)) = Meant(order)
  <2>1. PICK means : FilledSoFar(means)
    BY <1>5 DEF Filling
  <2>2. /\ Stands(f, means) /\ Meant(order) = Then(means, Filled(text, Format, order.username))
    BY <2>1 DEF FilledSoFar
  <2> HIDE DEF f, text
  <2>3. Filled(text, Format, order.username) = Understood(text)
    BY <1>2, <1>4, NothingFilled
  <2> QED
    BY <1>2, <2>2, <2>3 DEF Stands
<1> HIDE DEF f, text
<1>6. Meant(order)' = Meant(order) /\ PlaceEscaped(order)' = PlaceEscaped(order)
  BY <1>1 DEF Meant, PlaceEscaped
<1> QED
  BY <1>1, <1>3, <1>5, <1>6 DEF Built, Filling

-----------------------------------------------------------------------------
(* Every step. *)

\* What is in a configuration or in a certificate are characters.
LEMMA OrdersFit ==
  ASSUME NEW o \in Orders \cup {NoOrder}
  PROVE  OrderFits(o)
<1>1. ASSUME NEW s \in Seq(STRING)
      PROVE  s \in Seq(Chars)
  <2>1. STRING \subseteq Chars
    BY DEF Chars
  <2> HIDE DEF Chars
  <2> QED
    BY <2>1, SeqMonotonic
<1>2. CASE o \in Orders
  BY <1>1, <1>2, OrdersAssumption DEF OrderFits
<1>3. CASE o = NoOrder
  BY <1>3 DEF OrderFits, NoOrder, Formats
<1> QED
  BY <1>2, <1>3

LEMMA FilterInitial ==
  ASSUME NEW orders, \A o \in orders : OrderFits(o), FilterInit(orders)
  PROVE  FilterInv
<1> DEFINE t == order.template
           line == Append(t, "\n")
           cut == SubSeq(line, 1, Len(t))
<1>1. /\ OrderFits(order) /\ building = "quoting"
      /\ unquoted = InitWithCString(order.username) /\ quoted = Fresh /\ filter = Fresh
      /\ template = InitWithString(InitWithBytes(line, Len(t)))
  BY DEF FilterInit
<1>2. t \in Seq(Chars) /\ order.username \in Seq(Chars) /\ Len(t) \in Nat /\ "\n" \in Chars
  BY <1>1 DEF OrderFits, Chars
<1>3. line \in Seq(Chars) /\ Len(line) = Len(t) + 1 /\ \A i \in 1..Len(t) : line[i] = t[i]
  <2> HIDE DEF t
  <2> QED
    BY <1>2
<1>4. cut = t
  <2> HIDE DEF line, t
  <2>1. /\ 1 \in Nat \ {0} /\ 1 <= Len(t) + 1 /\ Len(t) <= Len(line) /\ Len(t) - 1 + 1 = Len(t)
        /\ \A i \in 1..Len(t) : 1 + i - 1 = i
    BY <1>2, <1>3
  <2>2. cut \in Seq(Chars) /\ Len(cut) = Len(t) /\ \A i \in 1..Len(t) : cut[i] = line[1 + i - 1]
    BY <1>2, <1>3, <2>1, PartIs
  <2> HIDE DEF cut
  <2> QED
    BY <1>2, <1>3, <2>1, <2>2
<1>5. InitWithBytes(line, Len(t)) = InitWithCString(t)
  <2>1. Len(t) < Len(line)
    <3> HIDE DEF t, line
    <3> QED
      BY <1>2, <1>3
  <2>2. InitWithBytes(line, Len(t)) = InitWithCString(cut)
    BY <2>1 DEF InitWithBytes
  <2> HIDE DEF cut
  <2> QED
    BY <1>4, <2>2
<1> HIDE DEF line, t
<1>6. template = InitWithCString(t)
  <2>1. Strlcpy(t, Len(t) + 1) = t
    BY <1>2, StrlcpyWhole
  <2>2. InitWithString(InitWithCString(t))
          = [numBytes |-> Len(t) + 1, bytes |-> Strlcpy(t, Len(t) + 1)]
    BY DEF InitWithString, InitWithCString
  <2> QED
    BY <1>1, <1>5, <2>1, <2>2 DEF InitWithCString
<1>7. QuotedSoFar(<<>>)
  <2>1. unquoted.bytes = order.username /\ quoted.bytes = <<>>
    BY <1>1, <1>2, WholeIs DEF Fresh
  <2>2. Spelled(<<>>) = <<>> /\ Then(<<>>, order.username) = order.username
    BY <1>2, ThenEmpty DEF Spelled
  <2> QED
    BY <2>1, <2>2, StandsNone, EmptySeq DEF QuotedSoFar
<1> QED
  BY <1>1, <1>2, <1>6, <1>7, WholeIs DEF FilterInv, Quoting, Left, Growing, t

LEMMA FilterKept ==
  ASSUME FilterInv, FilterNext
  PROVE  FilterInv'
<1>1. OrderFits(order)
  BY DEF FilterInv
<1>2. CASE QuoteCharacter
  <2>1. building = "quoting" /\ building' = building /\ order' = order
    BY <1>2 DEF QuoteCharacter
  <2>2. Quoting
    BY <2>1 DEF FilterInv
  <2> QED
    BY <1>1, <1>2, <2>1, <2>2, QuoteCharacterKept DEF FilterInv
<1>3. CASE QuoteRest
  <2>1. building = "quoting" /\ building' = "filling" /\ order' = order
    BY <1>3 DEF QuoteRest
  <2>2. Quoting
    BY <2>1 DEF FilterInv
  <2> QED
    BY <1>1, <1>3, <2>1, <2>2, QuoteRestKept DEF FilterInv
<1>4. CASE FillPlace
  <2>1. building = "filling" /\ building' = building /\ order' = order
    BY <1>4 DEF FillPlace
  <2>2. Filling
    BY <2>1 DEF FilterInv
  <2> QED
    BY <1>1, <1>4, <2>1, <2>2, FillPlaceKept DEF FilterInv
<1>5. CASE FillRest
  <2>1. building = "filling" /\ building' = "built" /\ order' = order
    BY <1>5 DEF FillRest
  <2>2. Filling
    BY <2>1 DEF FilterInv
  <2> QED
    BY <1>1, <1>5, <2>1, <2>2, FillRestKept DEF FilterInv
<1> QED
  BY <1>2, <1>3, <1>4, <1>5
     DEF FilterNext, QuoteForSearch, CreateSearchFilter, EscapeForSearch, GetFilter

LEMMA InvExact ==
  ASSUME FilterInv
  PROVE  FilterExact
<1>0. OrderFits(order)
  BY DEF FilterInv
<1>1. \A string \in {unquoted, quoted, template, filter} : Growing(string) \/ Left(string)
  <2>1. CASE Quoting
    <3>1. Left(unquoted) /\ Growing(quoted) /\ filter = Fresh
      BY <2>1 DEF Quoting
    <3>2. Whole(template)
      <4>1. order.template \in Seq(Chars) /\ template = InitWithCString(order.template)
        BY <1>0, <2>1 DEF Quoting, OrderFits
      <4> QED
        BY <4>1, WholeIs
    <3> QED
      BY <3>1, <3>2 DEF Left, Growing
  <2>2. CASE Filling
    BY <2>2 DEF Filling, Growing
  <2>3. CASE Built
    BY <2>3 DEF Built, Growing
  <2> QED
    BY <2>1, <2>2, <2>3 DEF FilterInv
<1>2. building = "built" /\ ~PlaceEscaped(order) => Understood(filter.bytes) = Meant(order)
  BY DEF FilterInv, Built
<1> QED
  BY <1>1, <1>2, GrowingText DEF FilterExact

(* A search looks for exactly the name the user gave, for every template    *)
(* without a backslash right in front of a place and every name, whatever   *)
(* characters and places they hold, and no string is cut off: QuoteForSearch, *)
(* createSearchFilter, escapeForSearch, getFilter and TRString.             *)
THEOREM FiltersAreExact == Spec => []FilterExact
<1>1. Init => FilterInv
  <2> SUFFICES ASSUME Init
               PROVE  FilterInv
    OBVIOUS
  <2> DEFINE orders == Of("filter", Orders, NoOrder)
  <2>1. FilterInit(orders)
    BY DEF Init
  <2>2. \A o \in orders : o \in Orders \cup {NoOrder}
    BY DEF Of
  <2> HIDE DEF orders
  <2> QED
    BY <2>1, <2>2, OrdersFit, FilterInitial
<1>2. FilterInv /\ [Next]_textVars => FilterInv'
  <2> SUFFICES ASSUME FilterInv, [Next]_textVars
               PROVE  FilterInv'
    OBVIOUS
  <2>1. CASE FilterNext
    BY <2>1, FilterKept
  <2>2. CASE UNCHANGED filterVars
    <3>1. /\ building' = building /\ order' = order /\ unquoted' = unquoted
          /\ quoted' = quoted /\ template' = template /\ filter' = filter
      BY <2>2 DEF filterVars
    <3> QED
      BY <3>1 DEF FilterInv, Quoting, QuotedSoFar, Filling, FilledSoFar, Format, Built
  <2> QED
    BY <2>1, <2>2 DEF Next, textVars
<1>3. FilterInv => FilterExact
  BY InvExact
<1> QED
  BY <1>1, <1>2, <1>3, PTL DEF Spec

-----------------------------------------------------------------------------
(* Base64. *)

Bytes8 == 0..255
Sixes == 0..63

LEMMA BitsAre ==
  ASSUME NEW x \in Nat
  PROVE  /\ Bits(x, 2, 6) = (x \div 4) % 64 /\ Bits(x, 0, 2) = x % 4
         /\ Bits(x, 4, 4) = (x \div 16) % 16 /\ Bits(x, 0, 4) = x % 16
         /\ Bits(x, 6, 2) = (x \div 64) % 4 /\ Bits(x, 0, 6) = x % 64
         /\ Bits(x, 4, 2) = (x \div 16) % 4 /\ Bits(x, 2, 4) = (x \div 4) % 16
BY DEF Bits

LEMMA InTwoParts ==
  ASSUME NEW x \in Nat, x < 256
  PROVE  /\ \E h \in 0..63, l \in 0..3 : x = 4 * h + l
         /\ \E h \in 0..15, l \in 0..15 : x = 16 * h + l
         /\ \E h \in 0..3, l \in 0..63 : x = 64 * h + l
<1>1. x \div 4 \in 0..63 /\ x % 4 \in 0..3 /\ x = 4 * (x \div 4) + (x % 4)
  OBVIOUS
<1>2. x \div 16 \in 0..15 /\ x % 16 \in 0..15 /\ x = 16 * (x \div 16) + (x % 16)
  OBVIOUS
<1>3. x \div 64 \in 0..3 /\ x % 64 \in 0..63 /\ x = 64 * (x \div 64) + (x % 64)
  OBVIOUS
<1> QED
  BY <1>1, <1>2, <1>3

\* Four characters hold three bytes.
LEMMA BytesKept ==
  ASSUME NEW a \in Bytes8, NEW b \in Bytes8, NEW d \in Bytes8
  PROVE  LET q1 == Bits(a, 2, 6)
             q2 == Bits(a, 0, 2) * 16 + Bits(b, 4, 4)
             q3 == Bits(b, 0, 4) * 4 + Bits(d, 6, 2)
             q4 == Bits(d, 0, 6)
         IN  /\ {q1, q2, q3, q4} \subseteq Sixes
             /\ (q1 * 4 + Bits(q2, 4, 2)) % 256 = a
             /\ (q2 * 16 + Bits(q3, 2, 4)) % 256 = b
             /\ (q3 * 64 + Bits(q4, 0, 6)) % 256 = d
<1> DEFINE q1 == Bits(a, 2, 6)
           q2 == Bits(a, 0, 2) * 16 + Bits(b, 4, 4)
           q3 == Bits(b, 0, 4) * 4 + Bits(d, 6, 2)
           q4 == Bits(d, 0, 6)
<1>1. a \in Nat /\ b \in Nat /\ d \in Nat /\ a < 256 /\ b < 256 /\ d < 256
  BY DEF Bytes8
<1>2. /\ q1 = (a \div 4) % 64 /\ q2 = (a % 4) * 16 + ((b \div 16) % 16)
      /\ q3 = (b % 16) * 4 + ((d \div 64) % 4) /\ q4 = d % 64
  BY <1>1, BitsAre
<1> HIDE DEF q1, q2, q3, q4
<1>3. PICK ah \in 0..63, al \in 0..3 : a = 4 * ah + al
  BY <1>1, InTwoParts
<1>4. PICK bh \in 0..15, bl \in 0..15 : b = 16 * bh + bl
  BY <1>1, InTwoParts
<1>5. PICK ch \in 0..3, cl \in 0..63 : d = 64 * ch + cl
  BY <1>1, InTwoParts
<1>6. q1 = ah /\ q2 = 16 * al + bh /\ q3 = 4 * bl + ch /\ q4 = cl
  <2>1. (a \div 4) % 64 = ah /\ a % 4 = al
    BY <1>3
  <2>2. (b \div 16) % 16 = bh /\ b % 16 = bl
    BY <1>4
  <2>3. (d \div 64) % 4 = ch /\ d % 64 = cl
    BY <1>5
  <2> QED
    BY <1>2, <2>1, <2>2, <2>3
<1>7. q1 \in Sixes /\ q2 \in Sixes /\ q3 \in Sixes /\ q4 \in Sixes
  BY <1>6 DEF Sixes
<1>8. q1 \in Nat /\ q2 \in Nat /\ q3 \in Nat /\ q4 \in Nat
  BY <1>7 DEF Sixes
<1>9. (q1 * 4 + Bits(q2, 4, 2)) % 256 = a
  <2>1. Bits(q2, 4, 2) = (q2 \div 16) % 4
    BY <1>8, BitsAre
  <2>2. (q2 \div 16) % 4 = al
    BY <1>4, <1>6
  <2>3. q1 * 4 + al = a
    BY <1>3, <1>6
  <2> QED
    BY <1>1, <2>1, <2>2, <2>3
<1>10. (q2 * 16 + Bits(q3, 2, 4)) % 256 = b
  <2>1. Bits(q3, 2, 4) = (q3 \div 4) % 16
    BY <1>8, BitsAre
  <2>2. (q3 \div 4) % 16 = bl
    BY <1>4, <1>5, <1>6
  <2>3. q2 * 16 + bl = 256 * al + b
    BY <1>4, <1>6
  <2>4. (256 * al + b) % 256 = b
    BY <1>1, <1>3
  <2> QED
    BY <2>1, <2>2, <2>3, <2>4
<1>11. (q3 * 64 + Bits(q4, 0, 6)) % 256 = d
  <2>1. Bits(q4, 0, 6) = q4 % 64
    BY <1>8, BitsAre
  <2>2. q4 % 64 = cl
    BY <1>5, <1>6
  <2>3. q3 * 64 + cl = 256 * bl + d
    BY <1>5, <1>6
  <2>4. (256 * bl + d) % 256 = d
    BY <1>1, <1>4
  <2> QED
    BY <2>1, <2>2, <2>3, <2>4
<1> QED
  BY <1>7, <1>9, <1>10, <1>11 DEF q1, q2, q3, q4

\* What the four characters from one byte on are, and what they hold.
Signs(s, i, q) ==
  /\ q[1] \in Sixes /\ q[2] \in Sixes
  /\ IF i + 1 <= Len(s) THEN q[3] \in Sixes ELSE q[3] = Pad
  /\ IF i + 2 <= Len(s) THEN q[4] \in Sixes ELSE q[4] = Pad

Holding(s, i, q) ==
  /\ (q[1] * 4 + Bits(q[2], 4, 2)) % 256 = s[i]
  /\ i + 1 <= Len(s) => (q[2] * 16 + Bits(q[3], 2, 4)) % 256 = s[i + 1]
  /\ i + 2 <= Len(s) => (q[3] * 64 + Bits(q[4], 0, 6)) % 256 = s[i + 2]

LEMMA QuadIs ==
  ASSUME NEW s \in Seq(Bytes8), NEW i \in 1..Len(s), NEW q, q = Quad(s, i)
  PROVE  Signs(s, i, q) /\ Holding(s, i, q)
<1> DEFINE a == s[i]
           b == IF i + 1 <= Len(s) THEN s[i + 1] ELSE 0
           d == IF i + 2 <= Len(s) THEN s[i + 2] ELSE 0
           q1 == Bits(a, 2, 6)
           q2 == Bits(a, 0, 2) * 16 + Bits(b, 4, 4)
           q3 == Bits(b, 0, 4) * 4 + Bits(d, 6, 2)
           q4 == Bits(d, 0, 6)
<1>1. a \in Bytes8 /\ b \in Bytes8 /\ d \in Bytes8
  <2>1. i \in Int /\ Len(s) \in Nat /\ 0 \in Bytes8
    BY DEF Bytes8
  <2>2. \A j \in 1..Len(s) : s[j] \in Bytes8
    OBVIOUS
  <2>3. i + 1 <= Len(s) => i + 1 \in 1..Len(s)
    BY <2>1
  <2>4. i + 2 <= Len(s) => i + 2 \in 1..Len(s)
    BY <2>1
  <2> QED
    BY <2>1, <2>2, <2>3, <2>4
<1>2. /\ {q1, q2, q3, q4} \subseteq Sixes
      /\ (q1 * 4 + Bits(q2, 4, 2)) % 256 = a
      /\ (q2 * 16 + Bits(q3, 2, 4)) % 256 = b
      /\ (q3 * 64 + Bits(q4, 0, 6)) % 256 = d
  <2> HIDE DEF a, b, d
  <2> QED
    BY <1>1, BytesKept
<1>3. /\ q[1] = q1 /\ q[2] = q2 
      /\ q[3] = (IF i + 1 <= Len(s) THEN q3 ELSE Pad)
      /\ q[4] = (IF i + 2 <= Len(s) THEN q4 ELSE Pad)
  <2>1. i + 0 = i /\ i + 0 <= Len(s)
    OBVIOUS
  <2>2. i + 2 <= Len(s) => i + 1 <= Len(s)
    OBVIOUS
  <2> QED
    BY <2>1, <2>2 DEF Quad
<1>4. /\ i + 1 <= Len(s) => b = s[i + 1] 
      /\ i + 2 <= Len(s) => d = s[i + 2] /\ i + 1 <= Len(s)
  OBVIOUS
<1>5. a = s[i]
  OBVIOUS
<1> HIDE DEF q1, q2, q3, q4, a, b, d
<1>6. Signs(s, i, q)
  BY <1>2, <1>3, <1>4 DEF Signs
<1>7. Holding(s, i, q)
  BY <1>2, <1>3, <1>4, <1>5 DEF Holding
<1> QED
  BY <1>6, <1>7

\* The characters of n bytes, without the padding.
CodeLength(n) == 4 * (n \div 3) + (IF n % 3 = 0 THEN 0 ELSE (n % 3) + 1)

LEMMA CodeLengthIs ==
  ASSUME NEW n \in Nat, NEW m, m = CodeLength(n)
  PROVE  /\ m \in Nat /\ m <= 4 * ((n + 2) \div 3)
         /\ 3 * (m \div 4) + (IF m % 4 > 1 THEN (m % 4) - 1 ELSE 0) = n
         /\ (m + 3) \div 4 = (n + 2) \div 3
<1>1. PICK k \in Nat, t \in 0..2 : n = 3 * k + t
  <2>1. n \div 3 \in Nat /\ n % 3 \in 0..2 /\ n = 3 * (n \div 3) + (n % 3)
    OBVIOUS
  <2> QED
    BY <2>1
<1>2. n \div 3 = k /\ n % 3 = t
  BY <1>1
<1>3. CASE t = 0
  <2>1. m = 4 * k /\ (n + 2) \div 3 = k
    BY <1>1, <1>2, <1>3 DEF CodeLength
  <2> QED
    BY <1>1, <1>3, <2>1
<1>4. CASE t = 1
  <2>1. m = 4 * k + 2 /\ (n + 2) \div 3 = k + 1
    BY <1>1, <1>2, <1>4 DEF CodeLength
  <2> QED
    BY <1>1, <1>4, <2>1
<1>5. CASE t = 2
  <2>1. m = 4 * k + 3 /\ (n + 2) \div 3 = k + 1
    BY <1>1, <1>2, <1>5 DEF CodeLength
  <2> QED
    BY <1>1, <1>5, <2>1
<1> QED
  BY <1>3, <1>4, <1>5

\* Where a character is: in which four, and whether it is padding.
LEMMA PlacesIn ==
  ASSUME NEW n \in Nat, NEW j \in 1..4 * ((n + 2) \div 3),
         NEW g, NEW r, g = (j - 1) \div 4, r = (j - 1) % 4
  PROVE  /\ g \in Nat /\ r \in 0..3 /\ 3 * g + 1 \in 1..n
         /\ j <= CodeLength(n) <=> (r \in {0, 1} \/ 3 * g + r <= n)
<1>1. g \in Nat /\ r \in 0..3 /\ j = 4 * g + r + 1
  OBVIOUS
<1>2. PICK k \in Nat, t \in 0..2 : n = 3 * k + t
  <2>1. n \div 3 \in Nat /\ n % 3 \in 0..2 /\ n = 3 * (n \div 3) + (n % 3)
    OBVIOUS
  <2> QED
    BY <2>1
<1>3. n \div 3 = k /\ n % 3 = t
  BY <1>2
<1>4. (n + 2) \div 3 = (IF t = 0 THEN k ELSE k + 1)
  BY <1>2
<1>5. CodeLength(n) = 4 * k + (IF t = 0 THEN 0 ELSE t + 1)
  BY <1>3 DEF CodeLength
<1>6. 4 * g + r + 1 <= 4 * (IF t = 0 THEN k ELSE k + 1)
  BY <1>1, <1>4
<1> QED
  BY <1>1, <1>2, <1>5, <1>6

LEMMA EncodedIs ==
  ASSUME NEW s \in Seq(Bytes8), NEW e, e = Base64encode(s), NEW m, m = CodeLength(Len(s))
  PROVE  /\ Len(e) = 4 * ((Len(s) + 2) \div 3) /\ e \in Seq(Sixes \cup {Pad})
         /\ \A j \in 1..m : e[j] \in Sixes
         /\ \A j \in m + 1..Len(e) : e[j] = Pad
<1> DEFINE n == Len(s)
           size == 4 * ((n + 2) \div 3)
           four(j) == Quad(s, 3 * ((j - 1) \div 4) + 1)
           sign(j) == four(j)[((j - 1) % 4) + 1]
<1>1. n \in Nat /\ size \in Nat
  OBVIOUS
<1>2. e = [j \in 1..size |-> sign(j)]
  BY DEF Base64encode
<1>3. ASSUME NEW j \in 1..size
      PROVE  IF j <= m THEN sign(j) \in Sixes ELSE sign(j) = Pad
  <2> DEFINE g == (j - 1) \div 4
             r == (j - 1) % 4
             i == 3 * g + 1
             q == Quad(s, i)
  <2>1. /\ g \in Nat /\ r \in 0..3 /\ i \in 1..n
        /\ j <= m <=> (r \in {0, 1} \/ 3 * g + r <= n)
    <3> HIDE DEF n
    <3> QED
      BY <1>1, PlacesIn DEF n
  <2>2. /\ q[1] \in Sixes /\ q[2] \in Sixes
        /\ IF i + 1 <= n THEN q[3] \in Sixes ELSE q[3] = Pad
        /\ IF i + 2 <= n THEN q[4] \in Sixes ELSE q[4] = Pad
    <3> HIDE DEF i, q
    <3>1. q = Quad(s, i)
      BY DEF q
    <3>2. Signs(s, i, q)
      BY <2>1, <3>1, QuadIs
    <3> QED
      BY <3>2 DEF Signs
  <2>3. i + 1 = 3 * g + 2 /\ i + 2 = 3 * g + 3
    <3> HIDE DEF g
    <3> QED
      BY <2>1
  <2>4. sign(j) = q[r + 1]
    OBVIOUS
  <2> HIDE DEF sign, q, r, i, g, n
  <2>5. CASE r = 0 \/ r = 1
    BY <2>1, <2>2, <2>4, <2>5
  <2>6. CASE r = 2
    BY <2>1, <2>2, <2>3, <2>4, <2>6
  <2>7. CASE r = 3
    BY <2>1, <2>2, <2>3, <2>4, <2>7
  <2> QED
    BY <2>1, <2>5, <2>6, <2>7
<1> HIDE DEF sign, size
<1>4. e \in [1..size -> Sixes \cup {Pad}]
  BY <1>2, <1>3
<1>5. Len(e) = size /\ e \in Seq(Sixes \cup {Pad})
  BY <1>1, <1>4, LenProperties
<1>6. m \in Nat /\ m <= size
  BY <1>1, CodeLengthIs DEF size
<1>7. /\ \A j \in 1..m : e[j] \in Sixes
      /\ \A j \in m + 1..size : e[j] = Pad
  <2> HIDE DEF n
  <2>1. \A j \in 1..size : e[j] = sign(j)
    BY <1>2
  <2>2. ASSUME NEW j \in 1..m
        PROVE  e[j] \in Sixes
    <3>1. j \in 1..size /\ j <= m
      BY <1>1, <1>6
    <3> QED
      BY <1>3, <2>1, <3>1
  <2>3. ASSUME NEW j \in m + 1..size
        PROVE  e[j] = Pad
    <3>1. j \in 1..size /\ ~(j <= m)
      BY <1>1, <1>6
    <3> QED
      BY <1>3, <2>1, <3>1
  <2> QED
    BY <2>2, <2>3
<1> QED
  BY <1>5, <1>7 DEF size

\* The k-th byte can be read from two neighbours, the i-th of the g-th four and the next.
ReadableAt(s, e, k, g, i) ==
  /\ 4 * g + i + 2 <= CodeLength(Len(s)) /\ g \in Nat /\ i \in 0..2
  /\ (e[4 * g + i + 1] * 2^(2 * i + 2)
        + Bits(e[4 * g + i + 2], 4 - 2 * i, 2 * i + 2)) % 256 = s[k]

LEMMA ByteIs ==
  ASSUME NEW s \in Seq(Bytes8), NEW e, e = Base64encode(s), NEW k \in 1..Len(s),
         NEW g, NEW i, g = (k - 1) \div 3, i = (k - 1) % 3
  PROVE  ReadableAt(s, e, k, g, i)
<1> DEFINE n == Len(s)
           q == Quad(s, 3 * g + 1)
<1>1. n \in Nat /\ k \in Nat /\ k <= n /\ 1 <= k
  OBVIOUS
<1>2. g \in Nat /\ i \in 0..2 /\ k = 3 * g + i + 1
  OBVIOUS
<1>3. 4 * g + i + 2 <= CodeLength(n)
  <2> HIDE DEF n
  <2>1. PICK h \in Nat, t \in 0..2 : n = 3 * h + t
    <3>1. n \div 3 \in Nat /\ n % 3 \in 0..2 /\ n = 3 * (n \div 3) + (n % 3)
      BY <1>1
    <3> QED
      BY <3>1
  <2>2. n \div 3 = h /\ n % 3 = t
    BY <2>1
  <2>3. CodeLength(n) = 4 * h + (IF t = 0 THEN 0 ELSE t + 1)
    BY <2>2 DEF CodeLength
  <2> QED
    BY <1>1, <1>2, <2>1, <2>3
<1>4. \A r \in 0..3 : e[4 * g + r + 1] = q[r + 1]
  <2> SUFFICES ASSUME NEW r \in 0..3
               PROVE  e[4 * g + r + 1] = q[r + 1]
    OBVIOUS
  <2> DEFINE j == 4 * g + r + 1
  <2>1. j \in 1..4 * ((n + 2) \div 3)
    <3> HIDE DEF n
    <3>1. 3 * g + 1 <= n
      BY <1>1, <1>2
    <3> QED
      BY <1>1, <1>2, <3>1
  <2>2. (j - 1) \div 4 = g /\ (j - 1) % 4 = r
    BY <1>2
  <2> HIDE DEF j
  <2>3. e[j] = Quad(s, 3 * ((j - 1) \div 4) + 1)[((j - 1) % 4) + 1]
    BY <2>1 DEF Base64encode
  <2> QED
    BY <2>2, <2>3 DEF j
<1>5. 3 * g + 1 \in 1..n
  <2> HIDE DEF n
  <2> QED
    BY <1>1, <1>2
<1>6. /\ (q[1] * 4 + Bits(q[2], 4, 2)) % 256 = s[3 * g + 1]
      /\ 3 * g + 1 + 1 <= n => (q[2] * 16 + Bits(q[3], 2, 4)) % 256 = s[3 * g + 1 + 1]
      /\ 3 * g + 1 + 2 <= n => (q[3] * 64 + Bits(q[4], 0, 6)) % 256 = s[3 * g + 1 + 2]
  <2> DEFINE f == 3 * g + 1
  <2>1. q = Quad(s, f)
    OBVIOUS
  <2> HIDE DEF f, q
  <2>2. f \in 1..Len(s)
    BY <1>5 DEF f
  <2>3. Holding(s, f, q)
    BY <2>1, <2>2, QuadIs
  <2> QED
    BY <2>3 DEF Holding, f
<1> HIDE DEF n, q
<1>7. CASE i = 0
  <2>1. e[4 * g + i + 1] = q[1] /\ e[4 * g + i + 2] = q[2] /\ k = 3 * g + 1
    <3>1. e[4 * g + 0 + 1] = q[0 + 1] /\ e[4 * g + 1 + 1] = q[1 + 1]
      BY <1>4
    <3>2. /\ 4 * g + i + 1 = 4 * g + 0 + 1 /\ 4 * g + i + 2 = 4 * g + 1 + 1
          /\ k = 3 * g + 1
      BY <1>2, <1>7
    <3> QED
      BY <3>1, <3>2
  <2>2. 2^(2 * i + 2) = 4 /\ 4 - 2 * i = 4 /\ 2 * i + 2 = 2
    <3>1. 4 - 2 * i = 4 /\ 2 * i + 2 = 2
      BY <1>7
    <3>2. 2^2 = 4
      OBVIOUS
    <3> QED
      BY <3>1, <3>2
  <2> QED
    BY <1>2, <1>3, <1>6, <2>1, <2>2 DEF n, ReadableAt
<1>8. CASE i = 1
  <2>1. /\ e[4 * g + i + 1] = q[2] /\ e[4 * g + i + 2] = q[3] /\ k = 3 * g + 1 + 1
        /\ 3 * g + 1 + 1 <= n
    BY <1>1, <1>2, <1>4, <1>8
  <2>2. 2^(2 * i + 2) = 16 /\ 4 - 2 * i = 2 /\ 2 * i + 2 = 4
    <3>1. 4 - 2 * i = 2 /\ 2 * i + 2 = 4
      BY <1>8
    <3>2. 2^4 = 16
      OBVIOUS
    <3> QED
      BY <3>1, <3>2
  <2> QED
    BY <1>2, <1>3, <1>6, <2>1, <2>2 DEF n, ReadableAt
<1>9. CASE i = 2
  <2>1. /\ e[4 * g + i + 1] = q[3] /\ e[4 * g + i + 2] = q[4] /\ k = 3 * g + 1 + 2
        /\ 3 * g + 1 + 2 <= n
    BY <1>1, <1>2, <1>4, <1>9
  <2>2. 2^(2 * i + 2) = 64 /\ 4 - 2 * i = 0 /\ 2 * i + 2 = 6
    <3>1. 4 - 2 * i = 0 /\ 2 * i + 2 = 6
      BY <1>9
    <3>2. 2^6 = 64
      OBVIOUS
    <3> QED
      BY <3>1, <3>2
  <2> QED
    BY <1>2, <1>3, <1>6, <2>1, <2>2 DEF n, ReadableAt
<1> QED
  BY <1>2, <1>7, <1>8, <1>9
\* Of a set of numbers one is the least.
\* The characters that are decoded, given where they end.
LEMMA PrefixIs ==
  ASSUME NEW t \in Seq(Nat), NEW from \in Nat \ {0}, NEW m \in Nat, from + m <= Len(t) + 1,
         \A k \in from..from + m - 1 : t[k] <= 63,
         from + m <= Len(t) => t[from + m] > 63
  PROVE  Prefix(t, from) = SubSeq(t, from, from + m - 1)
<1> DEFINE n == Len(t)
           stops == {k \in from..n : pr2six(t[k]) > 63}
           least == CHOOSE k \in stops : \A j \in stops : k <= j
           last == IF stops = {} THEN n ELSE least - 1
<1>1. Prefix(t, from) = SubSeq(t, from, last)
  BY DEF Prefix
<1>2. n \in Nat /\ \A k \in 1..n : t[k] \in Nat
  OBVIOUS
<1> HIDE DEF n
<1>3. \A k \in from..n : k \in stops <=> t[k] > 63
  BY <1>2 DEF pr2six
<1>4. last = from + m - 1
  <2>1. CASE from + m <= n
    <3>1. from + m \in stops
      BY <1>2, <1>3, <2>1 DEF n
    <3>2. \A j \in stops : from + m <= j
      <4> SUFFICES ASSUME NEW j \in stops, ~(from + m <= j)
                   PROVE  FALSE
        BY <1>2
      <4>1. j \in from..n /\ t[j] > 63 /\ t[j] \in Nat
        BY <1>2, <1>3
      <4>2. j \in from..from + m - 1
        BY <1>2, <4>1
      <4> QED
        BY <4>1, <4>2
    <3>3. \A k \in stops : (\A j \in stops : k <= j) => k = from + m
      BY <1>2, <3>1, <3>2
    <3> HIDE DEF stops
    <3>4. least = from + m
      BY <3>1, <3>2, <3>3
    <3> HIDE DEF least
    <3> QED
      BY <3>1, <3>4
  <2>2. CASE ~(from + m <= n)
    <3>1. from + m - 1 = n
      BY <1>2, <2>2 DEF n
    <3>2. \A j \in from..n : ~(t[j] > 63)
      BY <1>2, <3>1
    <3>3. stops = {}
      BY <1>3, <3>2
    <3> QED
      BY <3>1, <3>3
  <2> QED
    BY <2>1, <2>2
<1> QED
  BY <1>1, <1>4

LEMMA PrefixTyped ==
  ASSUME NEW t \in Seq(Nat), NEW from \in Nat \ {0}
  PROVE  Prefix(t, from) \in Seq(Nat)
<1> DEFINE n == Len(t)
           stops == {k \in from..n : pr2six(t[k]) > 63}
           least == CHOOSE k \in stops : \A j \in stops : k <= j
           last == IF stops = {} THEN n ELSE least - 1
<1>1. Prefix(t, from) = SubSeq(t, from, last)
  BY DEF Prefix
<1>2. n \in Nat /\ \A k \in 1..n : t[k] \in Nat
  OBVIOUS
<1>3. last \in Int /\ last <= n
  <2> HIDE DEF n
  <2>1. CASE stops = {}
    BY <1>2, <2>1
  <2>2. CASE stops # {}
    <3>1. stops \in SUBSET Nat /\ \A k \in stops : k <= n
      BY <1>2
    <3> HIDE DEF stops
    <3>2. PICK k \in stops : \A j \in stops : k <= j
      BY <2>2, <3>1, LeastIs
    <3>3. least \in stops
      BY <3>2
    <3> HIDE DEF least
    <3> QED
      BY <1>2, <2>2, <3>1, <3>3
  <2> QED
    BY <2>1, <2>2
<1> HIDE DEF last
<1>4. \A k \in from..last : t[k] \in Nat
  BY <1>2, <1>3
<1> QED
  BY <1>1, <1>3, <1>4, SubSeqProperties

LEMMA FourParts ==
  ASSUME NEW x \in Nat
  PROVE  /\ x \div 4 \in Nat /\ x % 4 \in 0..3 /\ x = 4 * (x \div 4) + (x % 4)
         /\ (x + 3) \div 4 \in Nat
<1>1. x \div 4 \in Nat /\ (x + 3) \div 4 \in Nat
  OBVIOUS
<1>2. x % 4 \in 0..3
  OBVIOUS
<1>3. x = 4 * (x \div 4) + (x % 4)
  OBVIOUS
<1> QED
  BY <1>1, <1>2, <1>3

LEMMA SixIs ==
  ASSUME NEW x \in Sixes
  PROVE  x \in Nat /\ x <= 63
BY DEF Sixes

\* What is decoded is shorter than the length that is tested.
LEMMA DecodedFits ==
  ASSUME NEW t \in Seq(Nat), NEW from \in Nat \ {0}
  PROVE  /\ Len(Base64decode(t, from)) \in Nat
         /\ Len(Base64decode(t, from)) < Base64decode_len(t, from)
         /\ Base64decode_len(t, from) \in Nat
<1> DEFINE d == Len(Prefix(t, from))
           size == 3 * (d \div 4) + (IF d % 4 > 1 THEN (d % 4) - 1 ELSE 0)
<1>1. d \in Nat
  BY PrefixTyped
<1>2. Len(Base64decode(t, from)) = size
  <2>1. size \in Nat
    <3> HIDE DEF d
    <3>1. d \div 4 \in Nat /\ d % 4 \in 0..3
      BY <1>1, FourParts
    <3> QED
      BY <3>1
  <2>2. \E f : Base64decode(t, from) = [k \in 1..size |-> f[k]]
    <3> DEFINE code == Prefix(t, from)
               byte(k) == LET quad == 4 * ((k - 1) \div 3)
                              i == (k - 1) % 3
                          IN  (code[quad + i + 1] * 2^(2 * i + 2)
                                 + Bits(code[quad + i + 2], 4 - 2 * i, 2 * i + 2)) % 256
    <3>1. Base64decode(t, from) = [k \in 1..size |-> byte(k)]
      BY DEF Base64decode
    <3> DEFINE f == [k \in 1..size |-> byte(k)]
    <3> HIDE DEF byte, size
    <3>2. Base64decode(t, from) = [k \in 1..size |-> f[k]]
      BY <3>1
    <3> QED
      BY <3>2
  <2> HIDE DEF size
  <2>3. PICK f : Base64decode(t, from) = [k \in 1..size |-> f[k]]
    BY <2>2
  <2> QED
    BY <2>1, <2>3
<1>3. Base64decode_len(t, from) = 3 * ((d + 3) \div 4) + 1
  BY DEF Base64decode_len
<1> HIDE DEF d
<1>4. size \in Nat /\ size < 3 * ((d + 3) \div 4) + 1
  <2>1. PICK g \in Nat, r \in 0..3 : d = 4 * g + r
    <3>1. d \div 4 \in Nat /\ d % 4 \in 0..3 /\ d = 4 * (d \div 4) + (d % 4)
      BY <1>1, FourParts
    <3> QED
      BY <3>1
  <2>2. d \div 4 = g /\ d % 4 = r /\ (d + 3) \div 4 = (IF r = 0 THEN g ELSE g + 1)
    BY <2>1
  <2> QED
    BY <2>1, <2>2
<1>5. (d + 3) \div 4 \in Nat
  BY <1>1
<1> QED
  BY <1>2, <1>3, <1>4, <1>5

\* A text in which code stands from a place on, up to the end or a colon.
Stored(t, from, code) ==
  /\ t \in Seq(Nat) /\ from \in Nat \ {0} /\ from + Len(code) <= Len(t) + 1
  /\ \A j \in 1..Len(code) : t[from + j - 1] = code[j]
  /\ from + Len(code) <= Len(t) => t[from + Len(code)] = Colon

LEMMA ReadsBack ==
  ASSUME NEW s \in Seq(Bytes8), NEW t, NEW from, Stored(t, from, Base64encode(s))
  PROVE  /\ Base64decode(t, from) = s
         /\ Base64decode_len(t, from) = 3 * ((Len(s) + 2) \div 3) + 1
<1> DEFINE e == Base64encode(s)
           n == Len(s)
           m == CodeLength(n)
           code == Prefix(t, from)
<1>1. /\ t \in Seq(Nat) /\ from \in Nat \ {0} /\ from + Len(e) <= Len(t) + 1
      /\ \A j \in 1..Len(e) : t[from + j - 1] = e[j]
      /\ from + Len(e) <= Len(t) => t[from + Len(e)] = Colon
  BY DEF Stored
<1>2. n \in Nat /\ Len(t) \in Nat
  BY <1>1
<1>3. /\ m \in Nat /\ m <= 4 * ((n + 2) \div 3)
      /\ 3 * (m \div 4) + (IF m % 4 > 1 THEN (m % 4) - 1 ELSE 0) = n
      /\ (m + 3) \div 4 = (n + 2) \div 3
  <2> HIDE DEF m, n
  <2>1. m = CodeLength(n)
    BY DEF m
  <2> QED
    BY <1>2, <2>1, CodeLengthIs
<1>4. /\ Len(e) = 4 * ((n + 2) \div 3) /\ e \in Seq(Sixes \cup {Pad})
      /\ \A j \in 1..m : e[j] \in Sixes
      /\ \A j \in m + 1..Len(e) : e[j] = Pad
  BY EncodedIs
<1> HIDE DEF e, n, m
<1>5. /\ m <= Len(e) /\ Len(e) \in Nat /\ m \in Nat /\ from \in Nat \ {0}
      /\ from + Len(e) <= Len(t) + 1
  BY <1>1, <1>3, <1>4
<1>6. code = SubSeq(t, from, from + m - 1)
  <2>1. from + m <= Len(t) + 1
    BY <1>1, <1>2, <1>3, <1>5
  <2>2. ASSUME NEW k \in from..from + m - 1
        PROVE  t[k] <= 63
    <3> DEFINE j == k - from + 1
    <3>1. j \in 1..m /\ j \in 1..Len(e) /\ from + j - 1 = k
      BY <1>5
    <3> HIDE DEF j
    <3>2. t[k] = e[j] /\ e[j] \in Sixes
      BY <1>1, <1>4, <3>1
    <3> QED
      BY <3>2, SixIs
  <2>3. ASSUME from + m <= Len(t)
        PROVE  t[from + m] > 63
    <3>1. CASE m = Len(e)
      <4>1. t[from + m] = Colon
        BY <1>1, <2>3, <3>1
      <4> QED
        BY <4>1 DEF Colon
    <3>2. CASE m # Len(e)
      <4> DEFINE j == m + 1
      <4>1. j \in 1..Len(e) /\ j \in m + 1..Len(e) /\ from + j - 1 = from + m
        BY <1>5, <3>2
      <4> HIDE DEF j
      <4>2. t[from + m] = Pad
        BY <1>1, <1>4, <4>1
      <4> QED
        BY <4>2 DEF Pad
    <3> QED
      BY <3>1, <3>2
  <2> HIDE DEF code
  <2>4. Prefix(t, from) = SubSeq(t, from, from + m - 1)
    BY <1>1, <1>3, <2>1, <2>2, <2>3, PrefixIs
  <2> QED
    BY <2>4 DEF code
<1>7. /\ Len(code) = m
      /\ \A j \in 1..m : code[j] = e[j]
  <2> DEFINE last == from + m - 1
  <2>1. \A k \in from..last : t[k] \in Nat
    BY <1>1, <1>2, <1>3, <1>5
  <2>2. last \in Int /\ from \in Int
    BY <1>1, <1>3
  <2> HIDE DEF last
  <2>3. /\ Len(SubSeq(t, from, last)) = IF from <= last THEN last - from + 1 ELSE 0
        /\ \A j \in 1..last - from + 1 : SubSeq(t, from, last)[j] = t[from + j - 1]
    BY <2>1, <2>2, SubSeqProperties
  <2>4. last - from + 1 = m /\ (from <= last <=> m > 0)
    BY <1>5 DEF last
  <2> HIDE DEF code
  <2>5. Len(code) = m
    BY <1>5, <1>6, <2>3, <2>4 DEF last
  <2>6. ASSUME NEW j \in 1..m
        PROVE  code[j] = e[j]
    <3>1. code[j] = t[from + j - 1]
      BY <1>6, <2>3, <2>4 DEF last
    <3>2. j \in 1..Len(e)
      BY <1>3, <1>5
    <3> QED
      BY <1>1, <3>1, <3>2
  <2> QED
    BY <2>5, <2>6
<1> DEFINE byte(k) == LET quad == 4 * ((k - 1) \div 3)
                          i == (k - 1) % 3
                      IN  (code[quad + i + 1] * 2^(2 * i + 2)
                             + Bits(code[quad + i + 2], 4 - 2 * i, 2 * i + 2)) % 256
<1>8. Base64decode(t, from)
        = [k \in 1..3 * (Len(code) \div 4) + (IF Len(code) % 4 > 1 THEN (Len(code) % 4) - 1 ELSE 0)
             |-> byte(k)]
  BY DEF Base64decode
<1>9. Base64decode_len(t, from) = 3 * ((Len(code) + 3) \div 4) + 1
  BY DEF Base64decode_len
<1> HIDE DEF code
<1>10. ASSUME NEW k \in 1..n
       PROVE  byte(k) = s[k]
  <2> DEFINE g == (k - 1) \div 3
             i == (k - 1) % 3
  <2>1. /\ 4 * g + i + 2 <= m /\ g \in Nat /\ i \in 0..2
        /\ (e[4 * g + i + 1] * 2^(2 * i + 2)
              + Bits(e[4 * g + i + 2], 4 - 2 * i, 2 * i + 2)) % 256 = s[k]
    <3>1. k \in 1..Len(s) /\ g = (k - 1) \div 3 /\ i = (k - 1) % 3 /\ e = Base64encode(s)
      BY DEF e, n
    <3> HIDE DEF g, i
    <3>2. ReadableAt(s, e, k, g, i)
      BY <3>1, ByteIs
    <3> QED
      BY <3>2 DEF ReadableAt, m, n
  <2>2. 4 * g + i + 1 \in 1..m /\ 4 * g + i + 2 \in 1..m
    <3>1. 4 * g + i + 2 <= m /\ g \in Nat /\ i \in 0..2
      BY <2>1
    <3> HIDE DEF g, i
    <3> QED
      BY <1>5, <3>1
  <2>3. /\ code[4 * g + i + 1] = e[4 * g + i + 1] /\ code[4 * g + i + 2] = e[4 * g + i + 2]
    BY <1>7, <2>2
  <2> QED
    BY <2>1, <2>3
<1> HIDE DEF byte
<1>11. Base64decode(t, from) = [k \in 1..n |-> s[k]]
  <2>1. Base64decode(t, from) = [k \in 1..n |-> byte(k)]
    BY <1>3, <1>7, <1>8
  <2> QED
    BY <1>10, <2>1
<1>12. s = [k \in 1..n |-> s[k]]
  BY DEF n
<1> QED
  BY <1>3, <1>7, <1>9, <1>11, <1>12 DEF n

-----------------------------------------------------------------------------
(* The text of an answer. *)

\* A text stands in another behind a place.
Placed(t, i, u) == \A k \in 1..Len(u) : t[i + k] = u[k]

\* A text of two others, one behind the other.
Joins(t, u, v) ==
  /\ t \in Seq(Nat) /\ Len(t) \in Nat /\ Len(t) = Len(u) + Len(v)
  /\ Placed(t, 0, u) /\ Placed(t, Len(u), v)

LEMMA JoinsIs ==
  ASSUME NEW u \in Seq(Nat), NEW v \in Seq(Nat)
  PROVE  Joins(Then(u, v), u, v)
<1> DEFINE t == Then(u, v)
           m == Len(u)
           n == Len(v)
<1>1. /\ t \in Seq(Nat) /\ Len(t) = m + n
      /\ \A i \in 1..m + n : t[i] = IF i <= m THEN u[i] ELSE v[i - m]
  BY ThenProperties
<1>2. m \in Nat /\ n \in Nat
  OBVIOUS
<1> HIDE DEF t, m, n
<1>3. ASSUME NEW k \in 1..m
      PROVE  t[0 + k] = u[k]
  <2>1. k \in 1..m + n /\ k <= m /\ 0 + k = k
    BY <1>2
  <2> QED
    BY <1>1, <2>1
<1>4. ASSUME NEW k \in 1..n
      PROVE  t[m + k] = v[k]
  <2> DEFINE i == m + k
  <2>1. i \in 1..m + n /\ ~(i <= m) /\ i - m = k
    BY <1>2
  <2> HIDE DEF i
  <2>2. t[i] = v[k]
    BY <1>1, <2>1
  <2> QED
    BY <2>2 DEF i
<1> QED
  BY <1>1, <1>2, <1>3, <1>4 DEF Joins, Placed, t, m, n

LEMMA PlacedWithin ==
  ASSUME NEW t, NEW u, Placed(t, 0, u), Len(u) \in Nat,
         NEW i \in Nat, NEW x, Placed(u, i, x), Len(x) \in Nat, i + Len(x) <= Len(u)
  PROVE  Placed(t, i, x)
<1> DEFINE m == Len(u)
           n == Len(x)
<1>1. m \in Nat /\ n \in Nat /\ i + n <= m
  OBVIOUS
<1>2. (\A k \in 1..m : t[0 + k] = u[k]) /\ (\A k \in 1..n : u[i + k] = x[k])
  BY DEF Placed
<1> HIDE DEF m, n
<1>3. ASSUME NEW k \in 1..n
      PROVE  t[i + k] = x[k]
  <2> DEFINE j == i + k
  <2>1. j \in 1..m /\ 0 + j = j
    BY <1>1
  <2>2. u[j] = x[k]
    BY <1>2
  <2> HIDE DEF j
  <2>3. t[j] = x[k]
    BY <1>2, <2>1, <2>2
  <2> QED
    BY <2>3 DEF j
<1> QED
  BY <1>3 DEF Placed, n

\* Four texts, one behind the other.
FourPlaced(t, h, e, d, f) ==
  /\ t \in Seq(Nat) /\ Len(t) = Len(h) + Len(e) + Len(d) + Len(f)
  /\ Placed(t, 0, h) /\ Placed(t, Len(h), e)
  /\ Placed(t, Len(h) + Len(e), d) /\ Placed(t, Len(h) + Len(e) + Len(d), f)

LEMMA FourJoined ==
  ASSUME NEW h \in Seq(Nat), NEW e \in Seq(Nat), NEW d \in Seq(Nat), NEW f \in Seq(Nat)
  PROVE  FourPlaced(Then(Then(Then(h, e), d), f), h, e, d, f)
<1> DEFINE t == Then(Then(Then(h, e), d), f)
           u == Then(h, e)
           v == Then(u, d)
           l1 == Len(h)
           l2 == Len(e)
           l3 == Len(d)
           l4 == Len(f)
<1>0. l1 \in Nat /\ l2 \in Nat /\ l3 \in Nat /\ l4 \in Nat
  OBVIOUS
<1>1. Joins(u, h, e)
  BY JoinsIs
<1>2. u \in Seq(Nat)
  BY <1>1 DEF Joins
<1> HIDE DEF u
<1>3. Joins(v, u, d)
  BY <1>2, JoinsIs
<1>4. v \in Seq(Nat)
  BY <1>3 DEF Joins
<1> HIDE DEF v
<1>5. Joins(t, v, f)
  <2>1. t = Then(v, f)
    BY DEF u, v
  <2> QED
    BY <1>4, <2>1, JoinsIs
<1> HIDE DEF t
<1> HIDE DEF l1, l2, l3, l4
<1>6. /\ Len(u) = l1 + l2 /\ Len(v) = l1 + l2 + l3 /\ Len(t) = l1 + l2 + l3 + l4
      /\ Len(u) \in Nat /\ Len(v) \in Nat /\ t \in Seq(Nat)
  BY <1>1, <1>3, <1>5 DEF Joins, l1, l2, l3, l4
<1>7. Placed(u, 0, h) /\ Placed(u, l1, e)
  BY <1>1 DEF Joins, l1
<1>8. Placed(v, 0, u) /\ Placed(v, l1 + l2, d)
  BY <1>3, <1>6 DEF Joins
<1>9. Placed(t, 0, v) /\ Placed(t, l1 + l2 + l3, f)
  BY <1>5, <1>6 DEF Joins
<1>10. Placed(t, 0, u)
  <2>1. 0 \in Nat /\ 0 + Len(u) <= Len(v)
    BY <1>0, <1>6
  <2> QED
    BY <1>6, <1>8, <1>9, <2>1, PlacedWithin
<1>11. Placed(t, 0, h)
  <2>1. 0 \in Nat /\ 0 + l1 <= Len(u)
    BY <1>0, <1>6
  <2> QED
    BY <1>0, <1>6, <1>7, <1>10, <2>1, PlacedWithin DEF l1
<1>12. Placed(t, l1, e)
  <2>1. l1 + l2 <= Len(u)
    BY <1>0, <1>6
  <2> QED
    BY <1>0, <1>6, <1>7, <1>10, <2>1, PlacedWithin DEF l2
<1>13. Placed(t, l1 + l2, d)
  <2>1. l1 + l2 \in Nat /\ l1 + l2 + l3 <= Len(v)
    BY <1>0, <1>6
  <2> QED
    BY <1>0, <1>6, <1>8, <1>9, <2>1, PlacedWithin DEF l3
<1> QED
  BY <1>6, <1>9, <1>11, <1>12, <1>13 DEF FourPlaced, t, l1, l2, l3, l4

\* Two texts without colons behind the head, and colons between them.
ApartBy(t, e, d, f, a, gap, b) ==
  /\ Len(e) = a /\ Len(d) = gap /\ Len(f) = b
  /\ Placed(t, 6, e) /\ Placed(t, 6 + a, d) /\ Placed(t, 6 + a + gap, f)
  /\ \A k \in 1..a : e[k] # Colon
  /\ \A k \in 1..gap : d[k] = Colon
  /\ \A k \in 1..b : f[k] # Colon

ColonsBetween(t, a, gap, b) ==
  \A k \in 7..6 + a + gap + b : t[k] = Colon <=> k \in 7 + a..6 + a + gap

LEMMA ColonsAre ==
  ASSUME NEW t, NEW e, NEW d, NEW f, NEW a \in Nat, NEW gap \in Nat, NEW b \in Nat,
         ApartBy(t, e, d, f, a, gap, b)
  PROVE  ColonsBetween(t, a, gap, b)
<1> SUFFICES ASSUME NEW k \in 7..6 + a + gap + b
             PROVE  t[k] = Colon <=> k \in 7 + a..6 + a + gap
  BY DEF ColonsBetween
<1>0. /\ \A i \in 1..a : t[6 + i] = e[i] /\ e[i] # Colon
      /\ \A i \in 1..gap : t[6 + a + i] = d[i] /\ d[i] = Colon
      /\ \A i \in 1..b : t[6 + a + gap + i] = f[i] /\ f[i] # Colon
  BY DEF ApartBy, Placed
<1>1. CASE k < 7 + a
  <2> DEFINE j == k - 6
  <2>1. j \in 1..a /\ 6 + j = k /\ ~(k \in 7 + a..6 + a + gap)
    BY <1>1
  <2> HIDE DEF j
  <2> QED
    BY <1>0, <2>1
<1>2. CASE k \in 7 + a..6 + a + gap
  <2> DEFINE j == k - (6 + a)
  <2>1. j \in 1..gap /\ 6 + a + j = k
    BY <1>2
  <2> HIDE DEF j
  <2> QED
    BY <1>0, <1>2, <2>1
<1>3. CASE k > 6 + a + gap
  <2> DEFINE j == k - (6 + a + gap)
  <2>1. j \in 1..b /\ 6 + a + gap + j = k /\ ~(k \in 7 + a..6 + a + gap)
    BY <1>3
  <2> HIDE DEF j
  <2> QED
    BY <1>0, <2>1
<1>4. k < 7 + a \/ k \in 7 + a..6 + a + gap \/ k > 6 + a + gap
  OBVIOUS
<1> QED
  BY <1>1, <1>2, <1>3, <1>4

\* A head of six characters and two encoded texts with colons between them.
Formed(t, h, gap, s) ==
  LET a == Len(Base64encode(s.password))
  IN  /\ t \in Seq(Nat) /\ a \in Nat
      /\ Len(t) = 6 + a + gap + Len(Base64encode(s.response)) /\ Len(t) >= 6 + a + gap
      /\ Stored(t, 7, Base64encode(s.password)) /\ Stored(t, 7 + a + gap, Base64encode(s.response))
      /\ Placed(t, 0, h)
      /\ \A k \in 7..Len(t) : t[k] = Colon <=> k \in 7 + a..6 + a + gap

Coded(s) == {s.password, s.response} \subseteq Seq(Bytes8)

LEMMA CodeTyped ==
  ASSUME NEW s \in Seq(Bytes8), NEW e, e = Base64encode(s)
  PROVE  e \in Seq(Nat) /\ Len(e) \in Nat /\ \A k \in 1..Len(e) : e[k] # Colon
<1>1. e \in Seq(Sixes \cup {Pad})
  BY EncodedIs
<1>2. \A x \in Sixes \cup {Pad} : x \in Nat /\ x # Colon
  BY DEF Sixes, Pad, Colon
<1> HIDE DEF Sixes, Pad, Colon
<1> QED
  BY <1>1, <1>2, SeqMonotonic

LEMMA GapIs ==
  ASSUME NEW d, d \in {<<Colon>>, <<Colon, Colon>>}
  PROVE  d \in Seq(Nat) /\ Len(d) \in {1, 2} /\ Len(d) > 0 /\ \A k \in 1..Len(d) : d[k] = Colon
<1>0. Colon \in Nat
  BY DEF Colon
<1> HIDE DEF Colon
<1>1. CASE d = <<Colon>>
  BY <1>0, <1>1
<1>2. CASE d = <<Colon, Colon>>
  BY <1>0, <1>2
<1> QED
  BY <1>1, <1>2

LEMMA StoredAt ==
  ASSUME NEW t \in Seq(Nat), NEW i \in Nat, NEW x, NEW n \in Nat, Len(x) = n, Placed(t, i, x),
         i + n <= Len(t), i + n < Len(t) => t[i + 1 + n] = Colon
  PROVE  Stored(t, i + 1, x)
<1>1. i + 1 \in Nat \ {0} /\ i + 1 + n <= Len(t) + 1
      /\ (i + 1 + n <= Len(t) => i + n < Len(t)) /\ \A j \in 1..n : i + 1 + j - 1 = i + j
  OBVIOUS
<1> QED
  BY <1>1 DEF Stored, Placed

\* An answer: the head, two codes, and what is between them.
Composed(t, h, d, s) ==
  /\ Coded(s) /\ d \in {<<Colon>>, <<Colon, Colon>>} /\ h \in Seq(Nat) /\ Len(h) = 6
  /\ t = Then(Then(Then(h, Base64encode(s.password)), d), Base64encode(s.response))

\* The same by the places.
Laid(t, h, e, d, f, a, gap, b) ==
  /\ t \in Seq(Nat) /\ Len(t) = 6 + a + gap + b /\ Placed(t, 0, h)
  /\ a \in Nat /\ gap \in Nat /\ b \in Nat
  /\ ApartBy(t, e, d, f, a, gap, b)
  /\ gap > 0

LEMMA LaidIs ==
  ASSUME NEW h \in Seq(Nat), NEW e \in Seq(Nat), NEW d \in Seq(Nat), NEW f \in Seq(Nat), Len(h) = 6,
         NEW t, t = Then(Then(Then(h, e), d), f), Len(d) > 0,
         \A k \in 1..Len(e) : e[k] # Colon, \A k \in 1..Len(d) : d[k] = Colon,
         \A k \in 1..Len(f) : f[k] # Colon
  PROVE  Laid(t, h, e, d, f, Len(e), Len(d), Len(f))
<1>1. FourPlaced(t, h, e, d, f)
  BY FourJoined
<1>2. Len(e) \in Nat /\ Len(d) \in Nat /\ Len(f) \in Nat
  OBVIOUS
<1>3. ApartBy(t, e, d, f, Len(e), Len(d), Len(f))
  BY <1>1 DEF ApartBy, FourPlaced
<1> QED
  BY <1>1, <1>2, <1>3 DEF Laid, FourPlaced

LEMMA ComposedIs ==
  ASSUME NEW t, NEW h, NEW d, NEW s, Composed(t, h, d, s)
  PROVE  LET e == Base64encode(s.password)
             f == Base64encode(s.response)
         IN  Laid(t, h, e, d, f, Len(e), Len(d), Len(f))
<1> DEFINE e == Base64encode(s.password)
           f == Base64encode(s.response)
<1>1. /\ s.password \in Seq(Bytes8) /\ s.response \in Seq(Bytes8)
  BY DEF Coded, Composed
<1>2. /\ e \in Seq(Nat) /\ \A k \in 1..Len(e) : e[k] # Colon
      /\ f \in Seq(Nat) /\ \A k \in 1..Len(f) : f[k] # Colon
  <2> HIDE DEF e, f
  <2> QED
    BY <1>1, CodeTyped DEF e, f
<1>3. d \in Seq(Nat) /\ Len(d) > 0 /\ \A k \in 1..Len(d) : d[k] = Colon
  <2>1. d \in {<<Colon>>, <<Colon, Colon>>}
    BY DEF Composed
  <2> QED
    BY <2>1, GapIs
<1>4. h \in Seq(Nat) /\ Len(h) = 6 /\ t = Then(Then(Then(h, e), d), f)
  BY DEF Composed
<1> HIDE DEF e, f
<1>5. Laid(t, h, e, d, f, Len(e), Len(d), Len(f))
  BY <1>2, <1>3, <1>4, LaidIs
<1> QED
  BY <1>5 DEF e, f

LEMMA LaidStored ==
  ASSUME NEW t, NEW h, NEW e, NEW d, NEW f, NEW a, NEW gap, NEW b,
         Laid(t, h, e, d, f, a, gap, b)
  PROVE  /\ Stored(t, 7, e) /\ Stored(t, 7 + a + gap, f)
         /\ \A k \in 7..6 + a + gap + b : t[k] = Colon <=> k \in 7 + a..6 + a + gap
<1>1. /\ t \in Seq(Nat) /\ a \in Nat /\ gap \in Nat /\ b \in Nat
      /\ ApartBy(t, e, d, f, a, gap, b)
  BY DEF Laid
<1>2. \A k \in 7..6 + a + gap + b : t[k] = Colon <=> k \in 7 + a..6 + a + gap
  <2>1. a \in Nat /\ gap \in Nat /\ b \in Nat /\ ApartBy(t, e, d, f, a, gap, b)
    BY <1>1
  <2>2. ColonsBetween(t, a, gap, b)
    BY <2>1, ColonsAre
  <2> QED
    BY <2>2 DEF ColonsBetween
<1>3. /\ Len(e) = a /\ Len(f) = b /\ Placed(t, 6, e) /\ Placed(t, 6 + a + gap, f)
      /\ Len(t) = 6 + a + gap + b /\ gap > 0
  BY DEF Laid, ApartBy
<1>4. Stored(t, 7, e)
  <2> DEFINE i == 6
  <2>1. /\ i \in Nat /\ i + a <= Len(t) /\ i + 1 = 7
        /\ i + 1 + a \in 7 + a..6 + a + gap /\ i + 1 + a \in 7..6 + a + gap + b
    BY <1>1, <1>3
  <2>2. t[i + 1 + a] = Colon /\ Placed(t, i, e)
    BY <1>2, <1>3, <2>1
  <2> HIDE DEF i
  <2>3. Stored(t, i + 1, e)
    BY <1>1, <1>3, <2>1, <2>2, StoredAt
  <2> QED
    BY <2>1, <2>3
<1>5. Stored(t, 7 + a + gap, f)
  <2> DEFINE i == 6 + a + gap
  <2>1. /\ i \in Nat /\ i + b = Len(t) /\ i + b <= Len(t) /\ ~(i + b < Len(t))
        /\ i + 1 = 7 + a + gap
    BY <1>1, <1>3
  <2>2. Placed(t, i, f)
    BY <1>3
  <2> HIDE DEF i
  <2>3. Stored(t, i + 1, f)
    BY <1>1, <1>3, <2>1, <2>2, StoredAt
  <2> QED
    BY <2>1, <2>3
<1> QED
  BY <1>2, <1>4, <1>5

LEMMA TextFormed ==
  ASSUME NEW t, NEW h, NEW d, NEW s, Composed(t, h, d, s)
  PROVE  Formed(t, h, Len(d), s)
<1> DEFINE e == Base64encode(s.password)
           f == Base64encode(s.response)
           a == Len(e)
           b == Len(f)
           gap == Len(d)
<1>1. Laid(t, h, e, d, f, a, gap, b)
  BY ComposedIs
<1> HIDE DEF e, f, a, b, gap
<1>2. /\ Stored(t, 7, e) /\ Stored(t, 7 + a + gap, f)
      /\ \A k \in 7..6 + a + gap + b : t[k] = Colon <=> k \in 7 + a..6 + a + gap
  BY <1>1, LaidStored
<1>3. /\ t \in Seq(Nat) /\ Len(t) = 6 + a + gap + b /\ Placed(t, 0, h)
      /\ a \in Nat /\ gap \in Nat /\ b \in Nat
  BY <1>1 DEF Laid
<1>4. Len(t) >= 6 + a + gap
  BY <1>3
<1> QED
  BY <1>2, <1>3, <1>4 DEF Formed, a, b, e, f, gap

-----------------------------------------------------------------------------
(* The starts of the tokens. *)

\* The places of all colons of a text, in order.
Lists(places, t) ==
  /\ places \in Seq(Nat)
  /\ \A i, j \in 1..Len(places) : i < j => places[i] < places[j]
  /\ \A i \in 1..Len(places) : places[i] <= Len(t)
  /\ \A k \in 1..Len(t) : t[k] = Colon <=> \E i \in 1..Len(places) : places[i] = k

\* A token starts behind each of them that was passed.
Started(indexes, places, k) ==
  LET n == Len(indexes) - 1
  IN  /\ indexes \in Seq(Nat \ {0}) /\ n >= 0 /\ n <= Len(places)
      /\ \A i \in 1..n : indexes[i + 1] = places[i] + 1 /\ places[i] < k
      /\ \A i \in n + 1..Len(places) : k <= places[i]

LEMMA ElementsIn ==
  ASSUME NEW S, NEW s \in Seq(S)
  PROVE  Len(s) \in Nat /\ \A i \in 1..Len(s) : s[i] \in S
OBVIOUS

LEMMA StartedOn ==
  ASSUME NEW t, Len(t) \in Nat, NEW places, Lists(places, t), NEW k \in 1..Len(t),
         NEW indexes, Started(indexes, places, k)
  PROVE  Started(IF t[k] = Colon THEN Append(indexes, k + 1) ELSE indexes, places, k + 1)
<1> DEFINE n == Len(indexes) - 1
           m == Len(places)
           more == Append(indexes, k + 1)
<1>1. /\ indexes \in Seq(Nat \ {0}) /\ n \in Nat /\ n <= m /\ m \in Nat /\ k \in Nat
      /\ Len(indexes) = n + 1 /\ \A i \in 1..m : places[i] \in Nat
  <2>1. places \in Seq(Nat) /\ indexes \in Seq(Nat \ {0}) /\ n >= 0 /\ n <= m
    BY DEF Lists, Started
  <2>2. m \in Nat /\ Len(indexes) \in Nat /\ \A i \in 1..m : places[i] \in Nat
    BY <2>1, ElementsIn
  <2>3. n \in Nat /\ Len(indexes) = n + 1
    BY <2>1, <2>2
  <2> QED
    BY <2>1, <2>2, <2>3
<1>2. /\ \A i \in 1..n : indexes[i + 1] = places[i] + 1 /\ places[i] < k
      /\ \A i \in n + 1..m : k <= places[i]
  BY DEF Started
<1>3. /\ \A i, j \in 1..m : i < j => places[i] < places[j]
      /\ t[k] = Colon <=> \E i \in 1..m : places[i] = k
  BY DEF Lists
<1>4. CASE t[k] = Colon
  <2>1. PICK i \in 1..m : places[i] = k
    BY <1>3, <1>4
  <2> HIDE DEF n, m
  <2>2. ~(i \in 1..n)
    BY <1>1, <1>2, <2>1
  <2>3. i = n + 1
    <3>1. CASE i > n + 1
      <4>1. n + 1 \in 1..m /\ n + 1 \in n + 1..m
        BY <1>1, <3>1
      <4>2. places[n + 1] < k /\ k <= places[n + 1]
        BY <1>2, <1>3, <2>1, <3>1, <4>1
      <4> QED
        BY <1>1, <4>1, <4>2
    <3> QED
      BY <1>1, <2>2, <3>1
  <2>4. /\ more \in Seq(Nat \ {0}) /\ Len(more) = n + 1 + 1
        /\ more[n + 1 + 1] = k + 1 /\ \A j \in 1..n + 1 : more[j] = indexes[j]
    <3>1. k + 1 \in Nat \ {0}
      BY <1>1
    <3> QED
      BY <1>1, <3>1, AppendProperties
  <2> HIDE DEF more
  <2>5. \A j \in 1..n + 1 : more[j + 1] = places[j] + 1 /\ places[j] < k + 1
    <3> SUFFICES ASSUME NEW j \in 1..n + 1
                 PROVE  more[j + 1] = places[j] + 1 /\ places[j] < k + 1
      OBVIOUS
    <3>1. CASE j = n + 1
      BY <1>1, <2>1, <2>3, <2>4, <3>1
    <3>2. CASE j # n + 1
      <4>1. j \in 1..n /\ j + 1 \in 1..n + 1 /\ j \in 1..m
        BY <1>1, <3>2
      <4>2. more[j + 1] = places[j] + 1 /\ places[j] < k /\ places[j] \in Nat
        BY <1>1, <1>2, <2>4, <4>1
      <4>3. places[j] < k + 1
        BY <4>2
      <4> QED
        BY <4>2, <4>3
    <3> QED
      BY <3>1, <3>2
  <2>6. \A j \in n + 1 + 1..m : k + 1 <= places[j]
    <3> SUFFICES ASSUME NEW j \in n + 1 + 1..m
                 PROVE  k + 1 <= places[j]
      OBVIOUS
    <3>1. j \in 1..m /\ i < j /\ places[j] \in Nat
      BY <1>1, <2>3
    <3>2. k < places[j]
      BY <1>3, <2>1, <3>1
    <3> QED
      BY <1>1, <3>1, <3>2
  <2>7. n + 1 <= m /\ n + 1 >= 0 /\ Len(more) - 1 = n + 1
    BY <1>1, <2>1, <2>3, <2>4
  <2>8. Started(more, places, k + 1)
    BY <2>4, <2>5, <2>6, <2>7 DEF Started, m
  <2> QED
    BY <1>4, <2>8 DEF more
<1>5. CASE t[k] # Colon
  <2> HIDE DEF n, m
  <2>1. \A i \in 1..n : places[i] < k + 1
    <3> SUFFICES ASSUME NEW i \in 1..n
                 PROVE  places[i] < k + 1
      OBVIOUS
    <3>1. i \in 1..m
      BY <1>1
    <3> QED
      BY <1>1, <1>2, <3>1
  <2>2. \A i \in n + 1..m : k + 1 <= places[i]
    <3> SUFFICES ASSUME NEW i \in n + 1..m
                 PROVE  k + 1 <= places[i]
      OBVIOUS
    <3>1. i \in 1..m
      BY <1>1
    <3>2. k <= places[i] /\ places[i] # k /\ places[i] \in Nat
      BY <1>1, <1>2, <1>3, <1>5, <3>1
    <3> QED
      BY <1>1, <3>2
  <2>3. Started(indexes, places, k + 1)
    BY <1>1, <1>2, <2>1, <2>2 DEF Started, n, m
  <2> QED
    BY <1>5, <2>3
<1> QED
  BY <1>4, <1>5

\* Behind the last character all have been passed.
LEMMA StartedAll ==
  ASSUME NEW t, Len(t) \in Nat, NEW places, Lists(places, t), NEW k \in Nat, k > Len(t),
         NEW indexes, Started(indexes, places, k)
  PROVE  Len(indexes) = Len(places) + 1 /\ \A i \in 1..Len(places) : indexes[i + 1] = places[i] + 1
<1> DEFINE n == Len(indexes) - 1
           m == Len(places)
<1>1. /\ indexes \in Seq(Nat \ {0}) /\ n >= 0 /\ n <= m /\ places \in Seq(Nat)
      /\ \A i \in 1..n : indexes[i + 1] = places[i] + 1
      /\ \A i \in n + 1..m : k <= places[i]
      /\ \A i \in 1..m : places[i] <= Len(t)
  BY DEF Lists, Started
<1>2. n \in Nat /\ m \in Nat /\ Len(indexes) = n + 1 /\ \A i \in 1..m : places[i] \in Nat
  <2>1. m \in Nat /\ Len(indexes) \in Nat /\ \A i \in 1..m : places[i] \in Nat
    BY <1>1, ElementsIn
  <2>2. n \in Nat /\ Len(indexes) = n + 1
    BY <1>1, <2>1
  <2> QED
    BY <2>1, <2>2
<1> HIDE DEF n, m
<1>3. n = m
  <2> SUFFICES ASSUME n # m
               PROVE  FALSE
    OBVIOUS
  <2>1. m \in n + 1..m /\ m \in 1..m
    BY <1>1, <1>2
  <2>2. k <= places[m] /\ places[m] <= Len(t) /\ places[m] \in Nat
    BY <1>1, <1>2, <2>1
  <2> QED
    BY <2>2
<1> QED
  BY <1>1, <1>2, <1>3 DEF m

-----------------------------------------------------------------------------
(* What is sent. *)

LEMMA StaticHead ==
  ASSUME NEW d \in Nat
  PROVE  Then(<<18, 2, 17, 21, 53>>, <<d>>) = <<18, 2, 17, 21, 53, d>>
<1> DEFINE l == <<18, 2, 17, 21, 53>>
           g == <<d>>
           w == <<18, 2, 17, 21, 53, d>>
<1>1. /\ l \in Seq(Nat) /\ Len(l) = 5 /\ g \in Seq(Nat) /\ Len(g) = 1
      /\ w \in Seq(Nat) /\ Len(w) = 6 /\ \A i \in 1..6 : w[i] = IF i <= 5 THEN l[i] ELSE g[i - 5]
  OBVIOUS
<1> HIDE DEF l, g, w
<1> DEFINE t == Then(l, g)
<1>2. /\ t \in Seq(Nat) /\ Len(t) = Len(l) + Len(g)
      /\ \A i \in 1..Len(l) + Len(g) : t[i] = IF i <= Len(l) THEN l[i] ELSE g[i - Len(l)]
  <2>1. l \in Seq(Nat) /\ g \in Seq(Nat)
    BY <1>1
  <2> QED
    BY <2>1, ThenProperties
<1> HIDE DEF t
<1>3. t \in Seq(Nat) /\ Len(t) = Len(w) /\ \A i \in 1..Len(t) : t[i] = w[i]
  BY <1>1, <1>2
<1>4. t = w
  <2>1. w \in Seq(Nat)
    BY <1>1
  <2> QED
    BY <1>3, <2>1, SeqEqual
<1> QED
  BY <1>4 DEF t, l, g, w

LEMMA DynamicHead ==
  ASSUME NEW d \in Nat
  PROVE  Then(<<2, 17, 21, 53>>, <<d, d>>) = <<2, 17, 21, 53, d, d>>
<1> DEFINE l == <<2, 17, 21, 53>>
           g == <<d, d>>
           w == <<2, 17, 21, 53, d, d>>
<1>1. /\ l \in Seq(Nat) /\ Len(l) = 4 /\ g \in Seq(Nat) /\ Len(g) = 2
      /\ w \in Seq(Nat) /\ Len(w) = 6 /\ \A i \in 1..6 : w[i] = IF i <= 4 THEN l[i] ELSE g[i - 4]
  OBVIOUS
<1> HIDE DEF l, g, w
<1> DEFINE t == Then(l, g)
<1>2. /\ t \in Seq(Nat) /\ Len(t) = Len(l) + Len(g)
      /\ \A i \in 1..Len(l) + Len(g) : t[i] = IF i <= Len(l) THEN l[i] ELSE g[i - Len(l)]
  <2>1. l \in Seq(Nat) /\ g \in Seq(Nat)
    BY <1>1
  <2> QED
    BY <2>1, ThenProperties
<1> HIDE DEF t
<1>3. t \in Seq(Nat) /\ Len(t) = Len(w) /\ \A i \in 1..Len(t) : t[i] = w[i]
  BY <1>1, <1>2
<1>4. t = w
  <2>1. w \in Seq(Nat)
    BY <1>1
  <2> QED
    BY <1>3, <2>1, SeqEqual
<1> QED
  BY <1>4 DEF t, l, g, w

LEMMA HeadsAre ==
  /\ Then(static_cr_label, <<Colon>>) = <<18, 2, 17, 21, 53, 100>>
  /\ Then(dynamic_cr_label, <<Colon, Colon>>) = <<2, 17, 21, 53, 100, 100>>
<1>1. 100 \in Nat
  OBVIOUS
<1>2. Then(<<18, 2, 17, 21, 53>>, <<100>>) = <<18, 2, 17, 21, 53, 100>>
  BY <1>1, StaticHead
<1>3. Then(<<2, 17, 21, 53>>, <<100, 100>>) = <<2, 17, 21, 53, 100, 100>>
  BY <1>1, DynamicHead
<1> QED
  BY <1>2, <1>3 DEF static_cr_label, dynamic_cr_label, Colon

Genuine(s) == s.kind \in {"static", "dynamic"} /\ Coded(s)

HeadOf(s) == IF s.kind = "static" THEN <<18, 2, 17, 21, 53, 100>> ELSE <<2, 17, 21, 53, 100, 100>>
GapOf(s) == IF s.kind = "static" THEN <<Colon>> ELSE <<Colon, Colon>>

\* The places of its colons, the password behind the head.
ColonsOf(s) ==
  LET a == Len(Base64encode(s.password))
  IN  IF s.kind = "static" THEN <<6, 7 + a>> ELSE <<5, 6, 7 + a, 8 + a>>

LEMMA TextComposed ==
  ASSUME NEW s, Genuine(s)
  PROVE  Composed(TextOf(s), HeadOf(s), GapOf(s), s)
<1> DEFINE e == Base64encode(s.password)
           f == Base64encode(s.response)
<1>0. s.kind \in {"static", "dynamic"}
  BY DEF Genuine
<1>1. TextOf(s) = Then(Then(Then(HeadOf(s), e), GapOf(s)), f)
  <2> HIDE DEF e, f
  <2>1. CASE s.kind = "static"
    <3>1. TextOf(s) = Then(Then(Then(Then(static_cr_label, <<Colon>>), e), <<Colon>>), f)
      BY <2>1 DEF TextOf, Then, e, f
    <3>2. HeadOf(s) = Then(static_cr_label, <<Colon>>) /\ GapOf(s) = <<Colon>>
      BY <2>1, HeadsAre DEF HeadOf, GapOf
    <3> QED
      BY <3>1, <3>2
  <2>2. CASE s.kind = "dynamic"
    <3>1. TextOf(s)
            = Then(Then(Then(Then(dynamic_cr_label, <<Colon, Colon>>), e), <<Colon, Colon>>), f)
      BY <2>2 DEF TextOf, Then, e, f
    <3>2. HeadOf(s) = Then(dynamic_cr_label, <<Colon, Colon>>) /\ GapOf(s) = <<Colon, Colon>>
      BY <2>2, HeadsAre DEF HeadOf, GapOf
    <3> QED
      BY <3>1, <3>2
  <2> QED
    BY <1>0, <2>1, <2>2
<1>2. HeadOf(s) \in Seq(Nat) /\ Len(HeadOf(s)) = 6
  BY DEF HeadOf
<1>3. GapOf(s) \in {<<Colon>>, <<Colon, Colon>>}
  BY DEF GapOf
<1> HIDE DEF e, f
<1> QED
  BY <1>1, <1>2, <1>3 DEF Composed, Genuine, e, f

\* Numbers in order.
LEMMA TwoInOrder ==
  ASSUME NEW n \in Nat, 6 < n
  PROVE  LET q == <<6, n>>
         IN  /\ q \in Seq(Nat) /\ Len(q) = 2 /\ \A i, j \in 1..2 : i < j => q[i] < q[j]
             /\ \A k : (\E i \in 1..2 : q[i] = k) <=> k \in {6, n}
  OBVIOUS

LEMMA FourInOrder ==
  ASSUME NEW n \in Nat, 6 < n
  PROVE  LET q == <<5, 6, n, n + 1>>
         IN  /\ q \in Seq(Nat) /\ Len(q) = 4 /\ \A i, j \in 1..4 : i < j => q[i] < q[j]
             /\ \A k : (\E i \in 1..4 : q[i] = k) <=> k \in {5, 6, n, n + 1}
<1> DEFINE q == <<5, 6, n, n + 1>>
<1>1. q \in Seq(Nat) /\ Len(q) = 4 /\ q[1] = 5 /\ q[2] = 6 /\ q[3] = n /\ q[4] = n + 1
  OBVIOUS
<1> HIDE DEF q
<1>2. 1..4 = {1, 2, 3, 4}
  OBVIOUS
<1>3. \A i, j \in 1..4 : i < j => q[i] < q[j]
  BY <1>1, <1>2
<1>4. \A k : (\E i \in 1..4 : q[i] = k) <=> k \in {5, 6, n, n + 1}
  BY <1>1, <1>2
<1> QED
  BY <1>1, <1>3, <1>4 DEF q

LEMMA GenuineFormed ==
  ASSUME NEW s, Genuine(s)
  PROVE  Formed(TextOf(s), HeadOf(s), IF s.kind = "static" THEN 1 ELSE 2, s)
<1>1. Formed(TextOf(s), HeadOf(s), Len(GapOf(s)), s)
  BY TextComposed, TextFormed
<1>2. Len(GapOf(s)) = IF s.kind = "static" THEN 1 ELSE 2
  BY DEF GapOf
<1> QED
  BY <1>1, <1>2

\* The characters of the head, and that no other one before the gap is a colon.
LEMMA StaticColons ==
  ASSUME NEW t, NEW n \in Nat, NEW a \in Nat, n >= 7 + a,
         Placed(t, 0, <<18, 2, 17, 21, 53, 100>>),
         \A k \in 7..n : t[k] = Colon <=> k \in 7 + a..7 + a
  PROVE  /\ \A k \in 1..n : t[k] = Colon <=> k \in {6, 7 + a}
         /\ t[1] = 18 /\ t[2] = 2 /\ t[3] = 17 /\ t[4] = 21 /\ t[5] = 53
<1>1. t[1] = 18 /\ t[2] = 2 /\ t[3] = 17 /\ t[4] = 21 /\ t[5] = 53 /\ t[6] = 100
  <2>1. \A k \in 1..6 : t[0 + k] = <<18, 2, 17, 21, 53, 100>>[k]
    BY DEF Placed
  <2> QED
    BY <2>1
<1>2. ASSUME NEW k \in 1..n
      PROVE  t[k] = Colon <=> k \in {6, 7 + a}
  <2>1. CASE k \in 1..6
    <3>1. t[k] = Colon <=> k = 6
      BY <1>1, <2>1 DEF Colon
    <3> QED
      BY <2>1, <3>1
  <2>2. CASE k \in 7..n
    <3>1. k \in 7 + a..7 + a <=> k = 7 + a
      BY <2>2
    <3>2. k # 6
      BY <2>2
    <3> QED
      BY <2>2, <3>1, <3>2
  <2>3. k \in 1..6 \/ k \in 7..n
    OBVIOUS
  <2> QED
    BY <2>1, <2>2, <2>3
<1> QED
  BY <1>1, <1>2

LEMMA DynamicColons ==
  ASSUME NEW t, NEW n \in Nat, NEW a \in Nat, n >= 8 + a,
         Placed(t, 0, <<2, 17, 21, 53, 100, 100>>),
         \A k \in 7..n : t[k] = Colon <=> k \in 7 + a..8 + a
  PROVE  /\ \A k \in 1..n : t[k] = Colon <=> k \in {5, 6, 7 + a, 8 + a}
         /\ t[1] = 2 /\ t[2] = 17 /\ t[3] = 21 /\ t[4] = 53
<1>1. t[1] = 2 /\ t[2] = 17 /\ t[3] = 21 /\ t[4] = 53 /\ t[5] = 100 /\ t[6] = 100
  <2>1. \A k \in 1..6 : t[0 + k] = <<2, 17, 21, 53, 100, 100>>[k]
    BY DEF Placed
  <2> QED
    BY <2>1
<1>2. ASSUME NEW k \in 1..n
      PROVE  t[k] = Colon <=> k \in {5, 6, 7 + a, 8 + a}
  <2>1. CASE k \in 1..6
    <3>1. t[k] = Colon <=> k \in {5, 6}
      BY <1>1, <2>1 DEF Colon
    <3> QED
      BY <2>1, <3>1
  <2>2. CASE k \in 7..n
    <3>1. k \in 7 + a..8 + a <=> k \in {7 + a, 8 + a}
      BY <2>2
    <3>2. k # 5 /\ k # 6
      BY <2>2
    <3> QED
      BY <2>2, <3>1, <3>2
  <2>3. k \in 1..6 \/ k \in 7..n
    OBVIOUS
  <2> QED
    BY <2>1, <2>2, <2>3
<1> QED
  BY <1>1, <1>2

\* What the code asks of the label.
LEMMA LabelBegins ==
  ASSUME NEW t \in Seq(Nat), NEW l \in Seq(Nat), Len(l) <= Len(t), \A k \in 1..Len(l) : t[k] = l[k]
  PROVE  IsPrefix(l, t)
<1> DEFINE n == Len(l)
           u == SubSeq(l, 1, n)
           v == SubSeq(t, 1, n)
<1>1. n \in Nat /\ n <= Len(t) /\ Len(t) \in Nat
  OBVIOUS
<1>2. \A k \in 1..n : l[k] \in Nat /\ t[k] \in Nat
  <2>1. \A k \in 1..n : k \in 1..Len(t)
    BY <1>1
  <2>2. (\A k \in 1..Len(l) : l[k] \in Nat) /\ (\A k \in 1..Len(t) : t[k] \in Nat)
    BY ElementsIn
  <2> QED
    BY <2>1, <2>2
<1>3. /\ u \in Seq(Nat) /\ Len(u) = (IF 1 <= n THEN n - 1 + 1 ELSE 0)
      /\ \A k \in 1..n - 1 + 1 : u[k] = l[1 + k - 1]
  BY <1>1, <1>2, SubSeqProperties
<1>4. /\ v \in Seq(Nat) /\ Len(v) = (IF 1 <= n THEN n - 1 + 1 ELSE 0)
      /\ \A k \in 1..n - 1 + 1 : v[k] = t[1 + k - 1]
  BY <1>1, <1>2, SubSeqProperties
<1> HIDE DEF n, u, v
<1>5. Len(u) = n /\ Len(v) = n
  BY <1>1, <1>3, <1>4
<1>6. \A k \in 1..n : u[k] = v[k]
  <2> SUFFICES ASSUME NEW k \in 1..n
               PROVE  u[k] = v[k]
    OBVIOUS
  <2>1. k \in 1..n - 1 + 1 /\ 1 + k - 1 = k
    BY <1>1
  <2>2. u[k] = l[k] /\ v[k] = t[k]
    BY <1>3, <1>4, <2>1
  <2> QED
    BY <2>2 DEF n
<1>7. u = v
  BY <1>3, <1>4, <1>5, <1>6, SeqEqual
<1> QED
  BY <1>1, <1>7 DEF IsPrefix, n, u, v

LabelOf(s) == IF s.kind = "static" THEN static_cr_label ELSE dynamic_cr_label

\* What is read of a text made for s, and where.
Readable(s, t) ==
  LET places == ColonsOf(s)
      n == Len(places)
  IN  /\ t \in Seq(Nat) /\ Lists(places, t) /\ IsPrefix(LabelOf(s), t)
      /\ n = IF s.kind = "static" THEN 2 ELSE 4
      /\ Stored(t, places[IF s.kind = "static" THEN 1 ELSE 2] + 1, Base64encode(s.password))
      /\ Stored(t, places[IF s.kind = "static" THEN 2 ELSE 4] + 1, Base64encode(s.response))

LEMMA StaticReadable ==
  ASSUME NEW s, Genuine(s), s.kind = "static"
  PROVE  Readable(s, TextOf(s))
<1> DEFINE t == TextOf(s)
           e == Base64encode(s.password)
           f == Base64encode(s.response)
           a == Len(e)
           n == Len(t)
           places == <<6, 7 + a>>
<1> HIDE DEF t
<1>1. Formed(t, HeadOf(s), 1, s)
  BY GenuineFormed DEF t
<1>2. /\ t \in Seq(Nat) /\ a \in Nat /\ n >= 6 + a + 1
      /\ Stored(t, 7, e) /\ Stored(t, 7 + a + 1, f)
      /\ Placed(t, 0, HeadOf(s))
      /\ \A k \in 7..n : t[k] = Colon <=> k \in 7 + a..6 + a + 1
  BY <1>1 DEF Formed
<1>3. n \in Nat /\ n >= 7 + a
  BY <1>2
<1> HIDE DEF a, n, e, f
<1>4. Placed(t, 0, <<18, 2, 17, 21, 53, 100>>)
  BY <1>2 DEF HeadOf
<1>5. \A k \in 7..n : t[k] = Colon <=> k \in 7 + a..7 + a
  <2>1. 6 + a + 1 = 7 + a
    BY <1>2
  <2> QED
    BY <1>2, <2>1
<1>6. /\ \A k \in 1..n : t[k] = Colon <=> k \in {6, 7 + a}
      /\ t[1] = 18 /\ t[2] = 2 /\ t[3] = 17 /\ t[4] = 21 /\ t[5] = 53
  BY <1>2, <1>3, <1>4, <1>5, StaticColons
<1>7. /\ places \in Seq(Nat) /\ Len(places) = 2
      /\ \A i, j \in 1..2 : i < j => places[i] < places[j]
      /\ \A k : (\E i \in 1..2 : places[i] = k) <=> k \in {6, 7 + a}
  <2>1. 7 + a \in Nat /\ 6 < 7 + a
    BY <1>2
  <2> QED
    BY <2>1, TwoInOrder
<1>8. places[1] = 6 /\ places[2] = 7 + a
  OBVIOUS
<1> HIDE DEF places
<1>9. Lists(places, t)
  <2>1. \A i \in 1..2 : places[i] <= n
    BY <1>2, <1>3, <1>8
  <2>2. \A k \in 1..n : t[k] = Colon <=> \E i \in 1..2 : places[i] = k
    <3>1. \A k : (\E i \in 1..2 : places[i] = k) <=> k \in {6, 7 + a}
      BY <1>7
    <3> QED
      BY <1>6, <3>1
  <2>3. /\ places \in Seq(Nat) /\ Len(places) = 2
        /\ \A i, j \in 1..2 : i < j => places[i] < places[j]
    BY <1>7
  <2> QED
    BY <2>1, <2>2, <2>3 DEF Lists, n
<1>10. IsPrefix(static_cr_label, t)
  <2> DEFINE l == static_cr_label
  <2>1. /\ l \in Seq(Nat) /\ Len(l) = 5
        /\ l[1] = 18 /\ l[2] = 2 /\ l[3] = 17 /\ l[4] = 21 /\ l[5] = 53
    BY DEF static_cr_label
  <2> HIDE DEF l
  <2>2. \A k \in 1..5 : t[k] = l[k]
    BY <1>6, <2>1
  <2>3. Len(l) <= Len(t) /\ \A k \in 1..Len(l) : t[k] = l[k]
    BY <1>2, <1>3, <2>1, <2>2 DEF n
  <2>4. t \in Seq(Nat) /\ l \in Seq(Nat)
    BY <1>2, <2>1
  <2>5. IsPrefix(l, t)
    BY <2>3, <2>4, LabelBegins
  <2> QED
    BY <2>5 DEF l
<1>11. ColonsOf(s) = places
  BY DEF ColonsOf, places, a, e
<1>12. 6 + 1 = 7 /\ 7 + a + 1 = 7 + a + 1
  OBVIOUS
<1>13. Stored(t, places[1] + 1, e) /\ Stored(t, places[2] + 1, f)
  BY <1>2, <1>8, <1>12
<1> QED
  BY <1>2, <1>7, <1>9, <1>10, <1>11, <1>13 DEF Readable, LabelOf, t, e, f

LEMMA DynamicReadable ==
  ASSUME NEW s, Genuine(s), s.kind = "dynamic"
  PROVE  Readable(s, TextOf(s))
<1> DEFINE t == TextOf(s)
           e == Base64encode(s.password)
           f == Base64encode(s.response)
           a == Len(e)
           n == Len(t)
           places == <<5, 6, 7 + a, 8 + a>>
<1> HIDE DEF t
<1>1. Formed(t, HeadOf(s), 2, s)
  BY GenuineFormed DEF t
<1>2. /\ t \in Seq(Nat) /\ a \in Nat /\ n >= 6 + a + 2
      /\ Stored(t, 7, e) /\ Stored(t, 7 + a + 2, f)
      /\ Placed(t, 0, HeadOf(s))
      /\ \A k \in 7..n : t[k] = Colon <=> k \in 7 + a..6 + a + 2
  BY <1>1 DEF Formed
<1>3. n \in Nat /\ n >= 8 + a
  BY <1>2
<1> HIDE DEF a, n, e, f
<1>4. Placed(t, 0, <<2, 17, 21, 53, 100, 100>>)
  BY <1>2 DEF HeadOf
<1>5. \A k \in 7..n : t[k] = Colon <=> k \in 7 + a..8 + a
  <2>1. 6 + a + 2 = 8 + a
    BY <1>2
  <2> QED
    BY <1>2, <2>1
<1>6. /\ \A k \in 1..n : t[k] = Colon <=> k \in {5, 6, 7 + a, 8 + a}
      /\ t[1] = 2 /\ t[2] = 17 /\ t[3] = 21 /\ t[4] = 53
  BY <1>2, <1>3, <1>4, <1>5, DynamicColons
<1>7. /\ places \in Seq(Nat) /\ Len(places) = 4
      /\ \A i, j \in 1..4 : i < j => places[i] < places[j]
      /\ \A k : (\E i \in 1..4 : places[i] = k) <=> k \in {5, 6, 7 + a, 8 + a}
  <2>1. 7 + a \in Nat /\ 6 < 7 + a /\ 7 + a + 1 = 8 + a
    BY <1>2
  <2> QED
    BY <2>1, FourInOrder
<1>8. places[1] = 5 /\ places[2] = 6 /\ places[3] = 7 + a /\ places[4] = 8 + a
  OBVIOUS
<1> HIDE DEF places
<1>9. Lists(places, t)
  <2>1. \A i \in 1..4 : places[i] <= n
    BY <1>2, <1>3, <1>8
  <2>2. \A k \in 1..n : t[k] = Colon <=> \E i \in 1..4 : places[i] = k
    <3>1. \A k : (\E i \in 1..4 : places[i] = k) <=> k \in {5, 6, 7 + a, 8 + a}
      BY <1>7
    <3> QED
      BY <1>6, <3>1
  <2>3. /\ places \in Seq(Nat) /\ Len(places) = 4
        /\ \A i, j \in 1..4 : i < j => places[i] < places[j]
    BY <1>7
  <2> QED
    BY <2>1, <2>2, <2>3 DEF Lists, n
<1>10. IsPrefix(dynamic_cr_label, t)
  <2> DEFINE l == dynamic_cr_label
  <2>1. /\ l \in Seq(Nat) /\ Len(l) = 4
        /\ l[1] = 2 /\ l[2] = 17 /\ l[3] = 21 /\ l[4] = 53
    BY DEF dynamic_cr_label
  <2> HIDE DEF l
  <2>2. \A k \in 1..4 : t[k] = l[k]
    BY <1>6, <2>1
  <2>3. Len(l) <= Len(t) /\ \A k \in 1..Len(l) : t[k] = l[k]
    BY <1>2, <1>3, <2>1, <2>2 DEF n
  <2>4. t \in Seq(Nat) /\ l \in Seq(Nat)
    BY <1>2, <2>1
  <2>5. IsPrefix(l, t)
    BY <2>3, <2>4, LabelBegins
  <2> QED
    BY <2>5 DEF l
<1>11. ColonsOf(s) = places
  BY DEF ColonsOf, places, a, e
<1>12. 6 + 1 = 7 /\ 8 + a + 1 = 7 + a + 2
  BY <1>2
<1>13. Stored(t, places[2] + 1, e) /\ Stored(t, places[4] + 1, f)
  BY <1>2, <1>8, <1>12
<1> QED
  BY <1>2, <1>7, <1>9, <1>10, <1>11, <1>13 DEF Readable, LabelOf, t, e, f

-----------------------------------------------------------------------------
(* The answer as it is taken apart. *)

StaticIn(t, indexes) == Len(indexes) = 3 /\ IsPrefix(static_cr_label, t)
DynamicIn(t, indexes) == Len(indexes) = 5 /\ IsPrefix(dynamic_cr_label, t)

PasswordAt(t, indexes) == indexes[IF StaticIn(t, indexes) THEN 2 ELSE 3]
ResponseAt(t, indexes) == indexes[IF StaticIn(t, indexes) THEN 3 ELSE 5]

Long(bytes) == 3 * ((Len(bytes) + 2) \div 3) + 1 >= MAXTOKENLENGTH

\* What is kept has its fields, and they fit.
Fields(res) ==
  /\ \E x, y, w : res = [protocol |-> x, password |-> y, response |-> w]
  /\ Len(res.password) < MAXTOKENLENGTH /\ Len(res.response) < MAXTOKENLENGTH

\* What holds of an answer to s, of the text t, when it is looked at place k,
\* tokens start at indexes, and the code is at where.
Asked(s, t, k, indexes, where, res) ==
  /\ Genuine(s) \/ s.kind = "typed"
  /\ t \in Seq(Nat) /\ k \in Nat \ {0} /\ indexes \in Seq(Nat \ {0}) /\ Fields(res)
  /\ Genuine(s) => Readable(s, t) /\ Started(indexes, ColonsOf(s), k)
  /\ where \in {"tokens", "overrun", "password", "response", "accepted", "refused"}
  /\ where \in {"password", "response", "accepted"} =>
       k > Len(t) /\ (StaticIn(t, indexes) \/ DynamicIn(t, indexes))
  /\ Genuine(s) =>
       /\ where \in {"response", "accepted"} => res.password = s.password
       /\ where = "accepted" => res.response = s.response
       /\ where = "refused" => Long(s.password) \/ Long(s.response)

\* At the end of a text that was made for s, the code knows its parts.
LEMMA PartsKnown ==
  ASSUME NEW s, Genuine(s), NEW t, Readable(s, t), NEW k \in Nat, k > Len(t),
         NEW indexes, Started(indexes, ColonsOf(s), k)
  PROVE  /\ StaticIn(t, indexes) \/ DynamicIn(t, indexes)
         /\ Stored(t, PasswordAt(t, indexes), Base64encode(s.password))
         /\ Stored(t, ResponseAt(t, indexes), Base64encode(s.response))
<1> DEFINE places == ColonsOf(s)
<1>1. Lists(places, t) /\ Len(t) \in Nat
  BY DEF Readable
<1>2. Len(indexes) = Len(places) + 1 /\ \A i \in 1..Len(places) : indexes[i + 1] = places[i] + 1
  BY <1>1, StartedAll
<1>3. /\ IsPrefix(LabelOf(s), t)
      /\ Len(places) = IF s.kind = "static" THEN 2 ELSE 4
      /\ Stored(t, places[IF s.kind = "static" THEN 1 ELSE 2] + 1, Base64encode(s.password))
      /\ Stored(t, places[IF s.kind = "static" THEN 2 ELSE 4] + 1, Base64encode(s.response))
  BY DEF Readable
<1> HIDE DEF places
<1>4. CASE s.kind = "static"
  <2>1. Len(places) = 2 /\ Len(indexes) = 3
    BY <1>2, <1>3, <1>4
  <2>2. indexes[2] = places[1] + 1 /\ indexes[3] = places[2] + 1
    <3>1. 1 \in 1..2 /\ 2 \in 1..2 /\ 1 + 1 = 2 /\ 2 + 1 = 3
      OBVIOUS
    <3> QED
      BY <1>2, <2>1, <3>1
  <2>3. StaticIn(t, indexes)
    BY <1>3, <1>4, <2>1 DEF StaticIn, LabelOf
  <2> QED
    BY <1>3, <1>4, <2>2, <2>3 DEF PasswordAt, ResponseAt
<1>5. CASE s.kind # "static"
  <2>1. Len(places) = 4 /\ Len(indexes) = 5
    BY <1>2, <1>3, <1>5
  <2>2. indexes[3] = places[2] + 1 /\ indexes[5] = places[4] + 1
    <3>1. 2 \in 1..4 /\ 4 \in 1..4 /\ 2 + 1 = 3 /\ 4 + 1 = 5
      OBVIOUS
    <3> QED
      BY <1>2, <2>1, <3>1
  <2>3. DynamicIn(t, indexes) /\ ~StaticIn(t, indexes)
    BY <1>3, <1>5, <2>1 DEF DynamicIn, StaticIn, LabelOf
  <2> QED
    BY <1>3, <1>5, <2>2, <2>3 DEF PasswordAt, ResponseAt
<1> QED
  BY <1>4, <1>5

\* A character is passed.
LEMMA CharacterPassed ==
  ASSUME NEW s, NEW t, NEW k, NEW indexes, NEW res, Asked(s, t, k, indexes, "tokens", res),
         k \in 1..Len(t),
         NEW more, more = (IF t[k] = Colon THEN Append(indexes, k + 1) ELSE indexes),
         NEW where, where \in {"tokens", "overrun"}
  PROVE  Asked(s, t, k + 1, more, where, res)
<1>1. /\ Genuine(s) \/ s.kind = "typed"
      /\ t \in Seq(Nat) /\ k \in Nat \ {0} /\ indexes \in Seq(Nat \ {0}) /\ Fields(res)
      /\ Genuine(s) => Readable(s, t) /\ Started(indexes, ColonsOf(s), k)
  BY DEF Asked
<1>2. k + 1 \in Nat \ {0} /\ Len(t) \in Nat
  BY <1>1
<1>3. more \in Seq(Nat \ {0})
  BY <1>1, <1>2
<1>4. ASSUME Genuine(s)
      PROVE  Started(more, ColonsOf(s), k + 1)
  <2>1. Lists(ColonsOf(s), t) /\ Started(indexes, ColonsOf(s), k)
    BY <1>1, <1>4 DEF Readable
  <2> QED
    BY <1>2, <2>1, StartedOn
<1> QED
  BY <1>1, <1>2, <1>3, <1>4 DEF Asked

\* A field is set.
WithProtocol(res, v) == [res EXCEPT !.protocol = v, !.password = <<>>]
WithField(res, field, v) == [res EXCEPT ![field] = v]

LEMMA FieldsSet ==
  ASSUME NEW res, Fields(res), NEW v
  PROVE  /\ LET new == WithProtocol(res, v)
            IN  new.response = res.response /\ new.password = <<>> /\ Fields(new)
         /\ LET new == WithField(res, "password", v)
            IN  /\ new.response = res.response /\ new.password = v
                /\ Len(v) < MAXTOKENLENGTH => Fields(new)
         /\ LET new == WithField(res, "response", v)
            IN  /\ new.password = res.password /\ new.response = v
                /\ Len(v) < MAXTOKENLENGTH => Fields(new)
<1>1. PICK x, y, w : res = [protocol |-> x, password |-> y, response |-> w]
  BY DEF Fields
<1>2. Len(y) < MAXTOKENLENGTH /\ Len(w) < MAXTOKENLENGTH
  BY <1>1 DEF Fields
<1>3. Len(<<>>) = 0 /\ 0 < MAXTOKENLENGTH
  BY AnswerAssumption
<1> DEFINE r1 == WithProtocol(res, v)
           r2 == WithField(res, "password", v)
           r3 == WithField(res, "response", v)
<1>4. /\ r1 = [protocol |-> v, password |-> <<>>, response |-> w]
      /\ r2 = [protocol |-> x, password |-> v, response |-> w]
      /\ r3 = [protocol |-> x, password |-> y, response |-> v]
  <2>1. r1 = [protocol |-> v, password |-> <<>>, response |-> w]
    <3> DEFINE r0 == [res EXCEPT !.protocol = v]
    <3>1. r0 = [protocol |-> v, password |-> y, response |-> w]
      BY <1>1
    <3>2. r1 = [r0 EXCEPT !.password = <<>>]
      BY DEF WithProtocol
    <3> HIDE DEF r0, r1
    <3> QED
      BY <3>1, <3>2
  <2>2. r2 = [protocol |-> x, password |-> v, response |-> w]
    BY <1>1 DEF WithField
  <2>3. r3 = [protocol |-> x, password |-> y, response |-> v]
    BY <1>1 DEF WithField
  <2> QED
    BY <2>1, <2>2, <2>3
<1> HIDE DEF r1, r2, r3
<1>5. Fields(r1)
  BY <1>2, <1>3, <1>4 DEF Fields
<1>6. Len(v) < MAXTOKENLENGTH => Fields(r2) /\ Fields(r3)
  BY <1>2, <1>4 DEF Fields
<1> QED
  BY <1>1, <1>4, <1>5, <1>6 DEF r1, r2, r3

\* The end is reached.
LEMMA ProtocolKnown ==
  ASSUME NEW s, NEW t, NEW k, NEW indexes, NEW res, Asked(s, t, k, indexes, "tokens", res),
         k \notin 1..Len(t)
  PROVE  /\ StaticIn(t, indexes) \/ DynamicIn(t, indexes) =>
              \A label : Asked(s, t, k, indexes, "password",
                               WithProtocol(res, label))
         /\ ~(StaticIn(t, indexes) \/ DynamicIn(t, indexes)) =>
              Asked(s, t, k, indexes, "refused", res)
<1>1. /\ Genuine(s) \/ s.kind = "typed"
      /\ t \in Seq(Nat) /\ k \in Nat \ {0} /\ indexes \in Seq(Nat \ {0}) /\ Fields(res)
      /\ Genuine(s) => Readable(s, t) /\ Started(indexes, ColonsOf(s), k)
  BY DEF Asked
<1>2. k \in Nat /\ k > Len(t)
  <2>1. Len(t) \in Nat /\ k \in Nat \ {0}
    BY <1>1
  <2> QED
    BY <2>1
<1>3. ASSUME NEW label
      PROVE  Fields(WithProtocol(res, label))
  BY <1>1, FieldsSet
<1>4. ASSUME Genuine(s)
      PROVE  StaticIn(t, indexes) \/ DynamicIn(t, indexes)
  BY <1>1, <1>2, <1>4, PartsKnown
<1>5. ASSUME StaticIn(t, indexes) \/ DynamicIn(t, indexes), NEW label
      PROVE  Asked(s, t, k, indexes, "password",
                   WithProtocol(res, label))
  BY <1>1, <1>2, <1>3, <1>5 DEF Asked
<1>6. ASSUME ~(StaticIn(t, indexes) \/ DynamicIn(t, indexes))
      PROVE  Asked(s, t, k, indexes, "refused", res)
  BY <1>1, <1>4, <1>6 DEF Asked
<1> QED
  BY <1>5, <1>6

\* A token that is decoded starts somewhere in the text.
LEMMA TokenPlaces ==
  ASSUME NEW t, NEW indexes \in Seq(Nat \ {0}), StaticIn(t, indexes) \/ DynamicIn(t, indexes)
  PROVE  PasswordAt(t, indexes) \in Nat \ {0} /\ ResponseAt(t, indexes) \in Nat \ {0}
<1>0. \A i \in 1..Len(indexes) : indexes[i] \in Nat \ {0}
  BY ElementsIn
<1>1. CASE StaticIn(t, indexes)
  <2>1. Len(indexes) = 3
    BY <1>1 DEF StaticIn
  <2>2. indexes[2] \in Nat \ {0} /\ indexes[3] \in Nat \ {0}
    BY <1>0, <2>1
  <2>3. PasswordAt(t, indexes) = indexes[2] /\ ResponseAt(t, indexes) = indexes[3]
    BY <1>1 DEF PasswordAt, ResponseAt
  <2> QED
    BY <2>2, <2>3
<1>2. CASE ~StaticIn(t, indexes)
  <2>1. Len(indexes) = 5
    BY <1>2 DEF DynamicIn
  <2>2. indexes[3] \in Nat \ {0} /\ indexes[5] \in Nat \ {0}
    BY <1>0, <2>1
  <2>3. PasswordAt(t, indexes) = indexes[3] /\ ResponseAt(t, indexes) = indexes[5]
    BY <1>2 DEF PasswordAt, ResponseAt
  <2> QED
    BY <2>2, <2>3
<1> QED
  BY <1>1, <1>2

\* A token is decoded, or too long.
LEMMA PasswordTaken ==
  ASSUME NEW s, NEW t, NEW k, NEW indexes, NEW res, Asked(s, t, k, indexes, "password", res),
         NEW from, from = PasswordAt(t, indexes)
  PROVE  /\ Base64decode_len(t, from) < MAXTOKENLENGTH =>
              Asked(s, t, k, indexes, "response", WithField(res, "password", Base64decode(t, from)))
         /\ ~(Base64decode_len(t, from) < MAXTOKENLENGTH) => Asked(s, t, k, indexes, "refused", res)
<1> DEFINE new == WithField(res, "password", Base64decode(t, from))
           size == Base64decode_len(t, from)
<1>1. /\ Genuine(s) \/ s.kind = "typed"
      /\ t \in Seq(Nat) /\ k \in Nat \ {0} /\ indexes \in Seq(Nat \ {0}) /\ Fields(res)
      /\ Genuine(s) => Readable(s, t) /\ Started(indexes, ColonsOf(s), k)
      /\ k > Len(t) /\ (StaticIn(t, indexes) \/ DynamicIn(t, indexes))
  BY DEF Asked
<1>2. from \in Nat \ {0}
  BY <1>1, TokenPlaces
<1>3. ASSUME Genuine(s)
      PROVE  /\ Base64decode(t, from) = s.password
             /\ size = 3 * ((Len(s.password) + 2) \div 3) + 1
  <2>1. Stored(t, from, Base64encode(s.password)) /\ s.password \in Seq(Bytes8)
    BY <1>1, <1>3, PartsKnown DEF Genuine, Coded
  <2> QED
    BY <2>1, ReadsBack
<1>4. /\ Len(Base64decode(t, from)) \in Nat /\ size \in Nat /\ Len(Base64decode(t, from)) < size
  BY <1>1, <1>2, DecodedFits
<1> HIDE DEF new, size
<1>5. ASSUME size < MAXTOKENLENGTH
      PROVE  Asked(s, t, k, indexes, "response", new)
  <2>1. Len(Base64decode(t, from)) < MAXTOKENLENGTH
    BY <1>4, <1>5, AnswerAssumption
  <2>2. Fields(new) /\ new.password = Base64decode(t, from)
    BY <1>1, <2>1, FieldsSet DEF new
  <2> QED
    BY <1>1, <1>3, <2>2 DEF Asked
<1>6. ASSUME ~(size < MAXTOKENLENGTH)
      PROVE  Asked(s, t, k, indexes, "refused", res)
  <2>1. Genuine(s) => Long(s.password)
    <3> SUFFICES ASSUME Genuine(s)
                 PROVE  Long(s.password)
      OBVIOUS
    <3>1. size >= MAXTOKENLENGTH
      BY <1>4, <1>6, AnswerAssumption
    <3> QED
      BY <1>3, <3>1 DEF Long
  <2> QED
    BY <1>1, <2>1 DEF Asked
<1> QED
  BY <1>5, <1>6 DEF new, size

LEMMA ResponseTaken ==
  ASSUME NEW s, NEW t, NEW k, NEW indexes, NEW res, Asked(s, t, k, indexes, "response", res),
         NEW from, from = ResponseAt(t, indexes)
  PROVE  /\ Base64decode_len(t, from) < MAXTOKENLENGTH =>
              Asked(s, t, k, indexes, "accepted", WithField(res, "response", Base64decode(t, from)))
         /\ ~(Base64decode_len(t, from) < MAXTOKENLENGTH) => Asked(s, t, k, indexes, "refused", res)
<1> DEFINE new == WithField(res, "response", Base64decode(t, from))
           size == Base64decode_len(t, from)
<1>1. /\ Genuine(s) \/ s.kind = "typed"
      /\ t \in Seq(Nat) /\ k \in Nat \ {0} /\ indexes \in Seq(Nat \ {0}) /\ Fields(res)
      /\ Genuine(s) => Readable(s, t) /\ Started(indexes, ColonsOf(s), k)
      /\ k > Len(t) /\ (StaticIn(t, indexes) \/ DynamicIn(t, indexes))
      /\ Genuine(s) => res.password = s.password
  BY DEF Asked
<1>2. from \in Nat \ {0}
  BY <1>1, TokenPlaces
<1>3. ASSUME Genuine(s)
      PROVE  /\ Base64decode(t, from) = s.response
             /\ size = 3 * ((Len(s.response) + 2) \div 3) + 1
  <2>1. Stored(t, from, Base64encode(s.response)) /\ s.response \in Seq(Bytes8)
    BY <1>1, <1>3, PartsKnown DEF Genuine, Coded
  <2> QED
    BY <2>1, ReadsBack
<1>4. /\ Len(Base64decode(t, from)) \in Nat /\ size \in Nat /\ Len(Base64decode(t, from)) < size
  BY <1>1, <1>2, DecodedFits
<1> HIDE DEF new, size
<1>5. ASSUME size < MAXTOKENLENGTH
      PROVE  Asked(s, t, k, indexes, "accepted", new)
  <2>1. Len(Base64decode(t, from)) < MAXTOKENLENGTH
    BY <1>4, <1>5, AnswerAssumption
  <2>2. Fields(new) /\ new.response = Base64decode(t, from) /\ new.password = res.password
    BY <1>1, <2>1, FieldsSet DEF new
  <2> QED
    BY <1>1, <1>3, <2>2 DEF Asked
<1>6. ASSUME ~(size < MAXTOKENLENGTH)
      PROVE  Asked(s, t, k, indexes, "refused", res)
  <2>1. Genuine(s) => Long(s.response)
    <3> SUFFICES ASSUME Genuine(s)
                 PROVE  Long(s.response)
      OBVIOUS
    <3>1. size >= MAXTOKENLENGTH
      BY <1>4, <1>6, AnswerAssumption
    <3> QED
      BY <1>3, <3>1 DEF Long
  <2> QED
    BY <1>1, <2>1 DEF Asked
<1> QED
  BY <1>5, <1>6 DEF new, size

AnswerInv == Asked(sent, response, p, tokenIndexes, parsing, result)

LEMMA SendingsFit ==
  ASSUME NEW s \in Sendings \cup {Idle}
  PROVE  Genuine(s) \/ (s.kind = "typed" /\ s.password \in Seq(Nat))
<1>1. CASE s \in Sendings
  BY <1>1, SendingsAssumption DEF Genuine, Coded, Bytes8
<1>2. CASE s = Idle
  BY <1>2, EmptySeq DEF Idle
<1> QED
  BY <1>1, <1>2

LEMMA AnswerInitial ==
  ASSUME NEW s, Genuine(s) \/ (s.kind = "typed" /\ s.password \in Seq(Nat))
  PROVE  Asked(s, TextOf(s), 1, <<1>>, "tokens", NoResult)
<1>1. Fields(NoResult)
  <2>1. Len(<<>>) = 0 /\ 0 < MAXTOKENLENGTH
    BY AnswerAssumption
  <2> QED
    BY <2>1 DEF Fields, NoResult
<1>2. <<1>> \in Seq(Nat \ {0}) /\ Len(<<1>>) = 1 /\ 1 \in Nat \ {0}
  OBVIOUS
<1>3. CASE Genuine(s)
  <2>1. Readable(s, TextOf(s))
    BY <1>3, StaticReadable, DynamicReadable DEF Genuine
  <2>2. Lists(ColonsOf(s), TextOf(s)) /\ TextOf(s) \in Seq(Nat)
    BY <2>1 DEF Readable
  <2>3. Started(<<1>>, ColonsOf(s), 1)
    <3> DEFINE places == ColonsOf(s)
               one == <<1>>
    <3> HIDE DEF places, one
    <3>1. places \in Seq(Nat)
      BY <2>2 DEF Lists, places
    <3>2. \A i \in 1..Len(places) : 1 <= places[i]
      <4>1. s.kind \in {"static", "dynamic"} /\ Len(Base64encode(s.password)) \in Nat
        <5>1. s.password \in Seq(Bytes8)
          BY <1>3 DEF Genuine, Coded
        <5> QED
          BY <1>3, <5>1, CodeTyped DEF Genuine
      <4> QED
        BY <4>1 DEF places, ColonsOf
    <3>3. Len(one) - 1 = 0 /\ one \in Seq(Nat \ {0}) /\ Len(places) \in Nat
      BY <1>2, <3>1, ElementsIn DEF one
    <3>4. 0 <= Len(places) /\ 0 >= 0 /\ 0 + 1 = 1 /\ 1..0 = {}
      BY <3>3
    <3>5. Started(one, places, 1)
      BY <3>2, <3>3, <3>4 DEF Started
    <3> QED
      BY <3>5 DEF one, places
  <2> QED
    BY <1>1, <1>2, <1>3, <2>1, <2>2, <2>3 DEF Asked
<1>4. CASE s.kind = "typed" /\ s.password \in Seq(Nat)
  <2>1. TextOf(s) = s.password /\ ~Genuine(s)
    BY <1>4 DEF TextOf, Genuine
  <2> QED
    BY <1>1, <1>2, <1>4, <2>1 DEF Asked
<1> QED
  BY <1>3, <1>4

LEMMA AnswerKept ==
  ASSUME AnswerInv, CRNext
  PROVE  AnswerInv'
<1>0. PICK s, t, k, indexes, where, res :
        /\ s = sent /\ t = response /\ k = p /\ indexes = tokenIndexes
        /\ where = parsing /\ res = result
  OBVIOUS
<1>1. Asked(s, t, k, indexes, where, res)
  BY <1>0 DEF AnswerInv
<1>2. t \in Seq(Nat) /\ DOMAIN t = 1..Len(t)
  <2>1. t \in Seq(Nat)
    BY <1>1 DEF Asked
  <2> QED
    BY <2>1
<1>3. IsStatic = StaticIn(t, indexes) /\ IsDynamic = DynamicIn(t, indexes)
  BY <1>0 DEF IsStatic, IsDynamic, StaticIn, DynamicIn
<1>4. CASE NextCharacter
  <2>1. /\ where = "tokens" /\ k \in 1..Len(t)
        /\ tokenIndexes' = (IF t[k] = Colon THEN Append(indexes, k + 1) ELSE indexes)
        /\ p' = k + 1 /\ parsing' \in {"tokens", "overrun"}
        /\ sent' = s /\ response' = t /\ result' = res
    BY <1>0, <1>2, <1>4 DEF NextCharacter
  <2>2. PICK more, now : more = tokenIndexes' /\ now = parsing'
    OBVIOUS
  <2>3. Asked(s, t, k + 1, more, now, res)
    BY <1>1, <2>1, <2>2, CharacterPassed
  <2> QED
    BY <2>1, <2>2, <2>3 DEF AnswerInv
<1>5. CASE SetProtocol
  <2>1. /\ where = "tokens" /\ k \notin 1..Len(t)
        /\ sent' = s /\ response' = t /\ p' = k /\ tokenIndexes' = indexes
    BY <1>0, <1>2, <1>5 DEF SetProtocol
  <2>2. CASE IsStatic \/ IsDynamic
    <3> DEFINE label == IF IsStatic THEN static_cr_label ELSE dynamic_cr_label
    <3>1. /\ parsing' = "password"
          /\ result' = [result EXCEPT !.protocol = label, !.password = <<>>]
      BY <1>5, <2>2 DEF SetProtocol
    <3> HIDE DEF label
    <3>2. result' = WithProtocol(res, label)
      BY <1>0, <3>1 DEF WithProtocol
    <3>3. Asked(s, t, k, indexes, "password", WithProtocol(res, label))
      BY <1>1, <1>3, <2>1, <2>2, ProtocolKnown
    <3> QED
      BY <2>1, <3>1, <3>2, <3>3 DEF AnswerInv
  <2>3. CASE ~(IsStatic \/ IsDynamic)
    <3>1. parsing' = "refused" /\ result' = res
      BY <1>0, <1>5, <2>3 DEF SetProtocol
    <3>2. Asked(s, t, k, indexes, "refused", res)
      BY <1>1, <1>3, <2>1, <2>3, ProtocolKnown
    <3> QED
      BY <2>1, <3>1, <3>2 DEF AnswerInv
  <2> QED
    BY <2>2, <2>3
<1>6. CASE SetPassword
  <2> DEFINE from == PasswordAt(t, indexes)
  <2>1. /\ where = "password"
        /\ sent' = s /\ response' = t /\ p' = k /\ tokenIndexes' = indexes
        /\ IF Base64decode_len(t, from) < MAXTOKENLENGTH
           THEN result' = WithField(res, "password", Base64decode(t, from)) /\ parsing' = "response"
           ELSE result' = res /\ parsing' = "refused"
    BY <1>0, <1>3, <1>6 DEF SetPassword, SetToken, Fits, WithField, PasswordAt
  <2> HIDE DEF from
  <2>2. CASE Base64decode_len(t, from) < MAXTOKENLENGTH
    <3>1. Asked(s, t, k, indexes, "response", WithField(res, "password", Base64decode(t, from)))
      BY <1>1, <2>1, <2>2, PasswordTaken DEF from
    <3> QED
      BY <2>1, <2>2, <3>1 DEF AnswerInv
  <2>3. CASE ~(Base64decode_len(t, from) < MAXTOKENLENGTH)
    <3>1. Asked(s, t, k, indexes, "refused", res)
      BY <1>1, <2>1, <2>3, PasswordTaken DEF from
    <3> QED
      BY <2>1, <2>3, <3>1 DEF AnswerInv
  <2> QED
    BY <2>2, <2>3
<1>7. CASE SetResponse
  <2> DEFINE from == ResponseAt(t, indexes)
  <2>1. /\ where = "response"
        /\ sent' = s /\ response' = t /\ p' = k /\ tokenIndexes' = indexes
        /\ IF Base64decode_len(t, from) < MAXTOKENLENGTH
           THEN result' = WithField(res, "response", Base64decode(t, from)) /\ parsing' = "accepted"
           ELSE result' = res /\ parsing' = "refused"
    BY <1>0, <1>3, <1>7 DEF SetResponse, SetToken, Fits, WithField, ResponseAt
  <2> HIDE DEF from
  <2>2. CASE Base64decode_len(t, from) < MAXTOKENLENGTH
    <3>1. Asked(s, t, k, indexes, "accepted", WithField(res, "response", Base64decode(t, from)))
      BY <1>1, <2>1, <2>2, ResponseTaken DEF from
    <3> QED
      BY <2>1, <2>2, <3>1 DEF AnswerInv
  <2>3. CASE ~(Base64decode_len(t, from) < MAXTOKENLENGTH)
    <3>1. Asked(s, t, k, indexes, "refused", res)
      BY <1>1, <2>1, <2>3, ResponseTaken DEF from
    <3> QED
      BY <2>1, <2>3, <3>1 DEF AnswerInv
  <2> QED
    BY <2>2, <2>3
<1> QED
  BY <1>4, <1>5, <1>6, <1>7 DEF CRNext

LEMMA AnswerInvExact ==
  ASSUME AnswerInv
  PROVE  AnswersExact
<1>1. sent.kind # "typed" => Genuine(sent)
  BY DEF AnswerInv, Asked
<1>2. Len(result.password) < MAXTOKENLENGTH /\ Len(result.response) < MAXTOKENLENGTH
  BY DEF AnswerInv, Asked, Fields
<1>3. parsing = "accepted" =>
        \E label \in {static_cr_label, dynamic_cr_label} : IsPrefix(label, response)
  BY DEF AnswerInv, Asked, StaticIn, DynamicIn
<1>4. Genuine(sent) =>
        /\ parsing \in {"response", "accepted"} => result.password = sent.password
        /\ parsing = "accepted" => result.response = sent.response
        /\ parsing = "refused" => Long(sent.password) \/ Long(sent.response)
  BY DEF AnswerInv, Asked
<1> QED
  BY <1>1, <1>2, <1>3, <1>4 DEF AnswersExact, Long

(* A client's answer gives exactly the password and the response that were  *)
(* encoded, whatever bytes they are made of and however many, or is refused *)
(* as too long, and what is decoded fits its place whatever was typed:      *)
(* extract_openvpn_cr, set_token_b64, openvpn_base64_decode.                *)
THEOREM AnswersAreExact == Spec => []AnswersExact
<1>1. Init => AnswerInv
  <2> SUFFICES ASSUME Init
               PROVE  AnswerInv
    OBVIOUS
  <2>1. CRInit(Of("answer", Sendings, Idle))
    BY DEF Init
  <2>2. PICK s : s = sent
    OBVIOUS
  <2>3. /\ s \in Sendings \cup {Idle} /\ response = TextOf(s) /\ p = 1 /\ tokenIndexes = <<1>>
        /\ parsing = "tokens" /\ result = NoResult
    BY <2>1, <2>2 DEF CRInit, Of
  <2> QED
    BY <2>2, <2>3, SendingsFit, AnswerInitial DEF AnswerInv
<1>2. AnswerInv /\ [Next]_textVars => AnswerInv'
  <2> SUFFICES ASSUME AnswerInv, [Next]_textVars
               PROVE  AnswerInv'
    OBVIOUS
  <2>1. CASE CRNext
    BY <2>1, AnswerKept
  <2>2. CASE UNCHANGED crVars
    <3>1. /\ parsing' = parsing /\ sent' = sent /\ response' = response /\ p' = p
          /\ tokenIndexes' = tokenIndexes /\ result' = result
      BY <2>2 DEF crVars
    <3> QED
      BY <3>1 DEF AnswerInv
  <2> QED
    BY <2>1, <2>2 DEF Next, textVars
<1>3. AnswerInv => AnswersExact
  BY AnswerInvExact
<1> QED
  BY <1>1, <1>2, <1>3, PTL DEF Spec

-----------------------------------------------------------------------------
(* Numbers in decimal. *)

\* What a step makes of a number, one place after the other from a first value.
Along(n, first, step, f) ==
  f = [i \in 0..n |-> IF i = 0 THEN first ELSE step[<<i, f[i - 1]>>]]

LEMMA AlongExists ==
  ASSUME NEW n \in Nat, NEW first \in Nat, NEW step \in [(1..n) \X Nat -> Nat]
  PROVE  \E f : /\ Along(n, first, step, f)
                /\ f[0] = first /\ \A i \in 0..n : f[i] \in Nat
                /\ \A i \in 1..n : f[i] = step[<<i, f[i - 1]>>]
<1> DEFINE Right(f, k) == /\ f \in [0..k -> Nat] /\ f[0] = first
                          /\ \A i \in 1..k : f[i] = step[<<i, f[i - 1]>>]
           D == {k \in Nat : k <= n => \E f : Right(f, k)}
<1>1. 0 \in D
  <2> DEFINE f == [i \in 0..0 |-> first]
  <2>1. Right(f, 0)
    OBVIOUS
  <2> QED
    BY <2>1
<1>2. ASSUME NEW k \in Nat, k \in D
      PROVE  k + 1 \in D
  <2> SUFFICES ASSUME k + 1 <= n
               PROVE  \E f : Right(f, k + 1)
    OBVIOUS
  <2>1. PICK f : Right(f, k)
    BY <1>2
  <2> DEFINE new == step[<<k + 1, f[k]>>]
             g == [i \in 0..k + 1 |-> IF i = k + 1 THEN new ELSE f[i]]
  <2>2. new \in Nat
    <3>1. f[k] \in Nat /\ k + 1 \in 1..n
      BY <2>1
    <3> QED
      BY <3>1
  <2>3. g \in [0..k + 1 -> Nat] /\ g[0] = first /\ g[k + 1] = new
        /\ \A i \in 0..k : g[i] = f[i]
    <3> HIDE DEF new
    <3> QED
      BY <2>1, <2>2
  <2>4. ASSUME NEW i \in 1..k + 1
        PROVE  g[i] = step[<<i, g[i - 1]>>]
    <3> HIDE DEF g
    <3>1. CASE i = k + 1
      <4>1. g[i - 1] = f[k]
        BY <2>3, <3>1
      <4> QED
        BY <2>3, <3>1, <4>1
    <3>2. CASE i \in 1..k
      <4>1. g[i - 1] = f[i - 1] /\ g[i] = f[i]
        BY <2>3, <3>2
      <4> QED
        BY <2>1, <3>2, <4>1
    <3> QED
      BY <3>1, <3>2
  <2> QED
    BY <2>3, <2>4
<1>3. n \in D
  <2> HIDE DEF D
  <2> QED
    BY <1>1, <1>2, Climbing
<1>4. PICK f : Right(f, n)
  BY <1>3
<1>5. Along(n, first, step, f)
  <2>1. \A i \in 0..n : f[i] = IF i = 0 THEN first ELSE step[<<i, f[i - 1]>>]
    BY <1>4
  <2>2. f = [i \in 0..n |-> f[i]]
    BY <1>4
  <2> QED
    BY <2>1, <2>2 DEF Along
<1> QED
  BY <1>4, <1>5

AllDigits(digits) == digits \in Seq(STRING) /\ \A i \in 1..Len(digits) : Contains(Digits, digits[i])

LEMMA DigitIs ==
  ASSUME NEW ch, Contains(Digits, ch)
  PROVE  DigitOf(ch) \in Nat
<1>1. Len(Digits) = 10
  BY DEF Digits
<1>2. PICK i \in 1..10 : Digits[i] = ch
  BY <1>1 DEF Contains
<1>3. i - 1 \in 0..9 /\ Digits[i - 1 + 1] = ch
  BY <1>2
<1>4. \E d \in 0..9 : Digits[d + 1] = ch
  BY <1>3
<1>5. DigitOf(ch) \in 0..9
  BY <1>4 DEF DigitOf
<1> QED
  BY <1>5

\* Ten times what is before.
LEMMA DecimalIs ==
  ASSUME NEW digits, AllDigits(digits)
  PROVE  \E f : /\ Decimal(digits) = f[Len(digits)]
                /\ f[0] = 0 /\ \A i \in 0..Len(digits) : f[i] \in Nat
                /\ \A i \in 1..Len(digits) : f[i] = 10 * f[i - 1] + DigitOf(digits[i])
<1> DEFINE n == Len(digits)
           step == [w \in (1..n) \X Nat |-> 10 * w[2] + DigitOf(digits[w[1]])]
<1>1. n \in Nat /\ \A i \in 1..n : DigitOf(digits[i]) \in Nat
  BY DigitIs DEF AllDigits
<1>2. step \in [(1..n) \X Nat -> Nat]
  <2> HIDE DEF n
  <2> QED
    BY <1>1
<1>3. \A i \in 1..n, m \in Nat : step[<<i, m>>] = 10 * m + DigitOf(digits[i])
  <2> HIDE DEF n
  <2> QED
    OBVIOUS
<1>4. PICK f : /\ Along(n, 0, step, f)
               /\ f[0] = 0 /\ \A i \in 0..n : f[i] \in Nat
               /\ \A i \in 1..n : f[i] = step[<<i, f[i - 1]>>]
  <2> HIDE DEF n, step
  <2> QED
    BY <1>1, <1>2, AlongExists
<1>5. \A i \in 1..n : f[i - 1] \in Nat /\ step[<<i, f[i - 1]>>] = 10 * f[i - 1] + DigitOf(digits[i])
  <2> HIDE DEF n, step
  <2> QED
    BY <1>1, <1>3, <1>4
<1> DEFINE Fixed(h) == h = [i \in 0..n |-> IF i = 0 THEN 0 ELSE 10 * h[i - 1] + DigitOf(digits[i])]
<1>6. Fixed(f)
  <2>1. f = [i \in 0..n |-> IF i = 0 THEN 0 ELSE step[<<i, f[i - 1]>>]]
    BY <1>4 DEF Along
  <2>2. \A i \in 0..n : (IF i = 0 THEN 0 ELSE step[<<i, f[i - 1]>>])
                         = (IF i = 0 THEN 0 ELSE 10 * f[i - 1] + DigitOf(digits[i]))
    <3> HIDE DEF n, step
    <3> QED
      BY <1>1, <1>5
  <2> HIDE DEF n, step
  <2> QED
    BY <2>1, <2>2, Zenon
<1>7. Decimal(digits) = (CHOOSE h : Fixed(h))[n]
  BY DEF Decimal
<1>8. \A h : Fixed(h) => h[0] = 0 /\ \A i \in 1..n : h[i] = 10 * h[i - 1] + DigitOf(digits[i])
  <2> HIDE DEF n
  <2> QED
    BY <1>1
<1> DEFINE h == CHOOSE h : Fixed(h)
<1>9. Fixed(h)
  <2> HIDE DEF Fixed
  <2> QED
    BY <1>6
<1>10. h[0] = 0 /\ \A i \in 1..n : h[i] = 10 * h[i - 1] + DigitOf(digits[i])
  BY <1>8, <1>9
<1> DEFINE E == {i \in Nat : i <= n => h[i] \in Nat}
<1>11. 0 \in E /\ \A i \in Nat : i \in E => i + 1 \in E
  <2>1. 0 \in E
    BY <1>10
  <2>2. ASSUME NEW i \in Nat, i \in E, i + 1 <= n
        PROVE  h[i + 1] \in Nat
    <3>1. h[i] \in Nat /\ i + 1 \in 1..n
      BY <1>1, <2>2
    <3>2. h[i + 1] = 10 * h[i + 1 - 1] + DigitOf(digits[i + 1])
      BY <1>10, <3>1
    <3> HIDE DEF h, n
    <3> QED
      BY <1>1, <3>1, <3>2
  <2> QED
    BY <2>1, <2>2
<1>12. \A i \in Nat : i \in E
  <2> HIDE DEF E
  <2> QED
    BY <1>11, Climbing
<1>13. \A i \in 0..n : h[i] \in Nat
  BY <1>12
<1>14. Decimal(digits) = h[n]
  BY <1>7
<1> HIDE DEF h
<1> QED
  BY <1>10, <1>13, <1>14

\* The digits, each by its weight.
LEMMA WeighedIs ==
  ASSUME NEW digits, AllDigits(digits)
  PROVE  \E w, f : LET n == Len(digits)
                   IN  /\ Weighed(digits) = f[n]
                       /\ w[0] = 1 /\ \A i \in 0..n : w[i] \in Nat
                       /\ \A i \in 1..n : w[i] = 10 * w[i - 1]
                       /\ f[0] = 0
                       /\ \A i \in 1..n : f[i] = f[i - 1] + DigitOf(digits[i]) * w[n - i]
<1> DEFINE n == Len(digits)
<1>1. n \in Nat /\ \A i \in 1..n : DigitOf(digits[i]) \in Nat
  BY DigitIs DEF AllDigits
<1> DEFINE FixedW(h) == h = [k \in 0..n |-> IF k = 0 THEN 1 ELSE 10 * h[k - 1]]
           w == CHOOSE h : FixedW(h)
           FixedF(h) == h = [i \in 0..n |-> IF i = 0 THEN 0
                                          ELSE h[i - 1] + DigitOf(digits[i]) * w[n - i]]
           f == CHOOSE h : FixedF(h)
<1>2. Weighed(digits) = f[n]
  BY DEF Weighed
<1>3. \E h : FixedW(h)
  <2> DEFINE step == [x \in (1..n) \X Nat |-> 10 * x[2]]
  <2> HIDE DEF n
  <2>1. step \in [(1..n) \X Nat -> Nat] /\ \A i \in 1..n, m \in Nat : step[<<i, m>>] = 10 * m
    BY <1>1
  <2> HIDE DEF step
  <2>2. PICK g : /\ Along(n, 1, step, g)
                 /\ g[0] = 1 /\ \A i \in 0..n : g[i] \in Nat
                 /\ \A i \in 1..n : g[i] = step[<<i, g[i - 1]>>]
    BY <1>1, <2>1, AlongExists
  <2>3. \A i \in 1..n : g[i - 1] \in Nat /\ step[<<i, g[i - 1]>>] = 10 * g[i - 1]
    BY <1>1, <2>1, <2>2
  <2>4. g = [i \in 0..n |-> IF i = 0 THEN 1 ELSE step[<<i, g[i - 1]>>]]
    BY <2>2 DEF Along
  <2>5. \A i \in 0..n : (IF i = 0 THEN 1 ELSE step[<<i, g[i - 1]>>])
                         = (IF i = 0 THEN 1 ELSE 10 * g[i - 1])
    BY <1>1, <2>3
  <2> QED
    BY <2>4, <2>5, Zenon
<1>4. FixedW(w)
  <2> HIDE DEF FixedW
  <2> QED
    BY <1>3
<1>5. w[0] = 1 /\ \A i \in 1..n : w[i] = 10 * w[i - 1]
  <2> HIDE DEF n, w
  <2> QED
    BY <1>1, <1>4
<1>6. \A i \in 0..n : w[i] \in Nat
  <2> DEFINE E == {i \in Nat : i <= n => w[i] \in Nat}
  <2> HIDE DEF w, n
  <2>1. 0 \in E
    BY <1>5
  <2>2. ASSUME NEW i \in Nat, i \in E, i + 1 <= n
        PROVE  w[i + 1] \in Nat
    <3>1. w[i] \in Nat /\ i + 1 \in 1..n /\ i + 1 - 1 = i
      BY <1>1, <2>2
    <3>2. w[i + 1] = 10 * w[i]
      BY <1>5, <3>1
    <3> QED
      BY <3>1, <3>2
  <2>3. \A i \in Nat : i \in E => i + 1 \in E
    BY <2>2
  <2>4. \A i \in Nat : i \in E
    <3> HIDE DEF E
    <3> QED
      BY <2>1, <2>3, Climbing
  <2> QED
    BY <1>1, <2>4
<1> HIDE DEF w, FixedW
<1>7. \A i \in 1..n : DigitOf(digits[i]) * w[n - i] \in Nat
  <2> SUFFICES ASSUME NEW i \in 1..n
               PROVE  DigitOf(digits[i]) * w[n - i] \in Nat
    OBVIOUS
  <2>1. n - i \in 0..n
    BY <1>1
  <2>2. \A x, y \in Nat : x * y \in Nat
    OBVIOUS
  <2> QED
    BY <1>1, <1>6, <2>1, <2>2
<1>8. \E h : FixedF(h)
  <2> DEFINE part(i) == DigitOf(digits[i]) * w[n - i]
             step == [x \in (1..n) \X Nat |-> x[2] + part(x[1])]
  <2>0. \A i \in 1..n : part(i) \in Nat
    BY <1>7
  <2>1. step \in [(1..n) \X Nat -> Nat] /\ \A i \in 1..n, m \in Nat : step[<<i, m>>] = m + part(i)
    <3> HIDE DEF n, part
    <3> QED
      BY <1>1, <2>0
  <2> HIDE DEF step, n
  <2>2. PICK g : /\ Along(n, 0, step, g)
                 /\ g[0] = 0 /\ \A i \in 0..n : g[i] \in Nat
                 /\ \A i \in 1..n : g[i] = step[<<i, g[i - 1]>>]
    <3>1. step \in [(1..n) \X Nat -> Nat] /\ 0 \in Nat
      BY <2>1
    <3> HIDE DEF part
    <3> QED
      BY <1>1, <3>1, AlongExists
  <2>3. \A i \in 1..n : g[i - 1] \in Nat /\ step[<<i, g[i - 1]>>] = g[i - 1] + part(i)
    <3> HIDE DEF part
    <3> QED
      BY <1>1, <2>1, <2>2
  <2>4. g = [i \in 0..n |-> IF i = 0 THEN 0 ELSE step[<<i, g[i - 1]>>]]
    BY <2>2 DEF Along
  <2>5. \A i \in 0..n : (IF i = 0 THEN 0 ELSE step[<<i, g[i - 1]>>])
                         = (IF i = 0 THEN 0 ELSE g[i - 1] + part(i))
    <3> HIDE DEF part
    <3> QED
      BY <1>1, <2>3
  <2> QED
    BY <2>4, <2>5, Zenon
<1>9. FixedF(f)
  <2> HIDE DEF FixedF
  <2> QED
    BY <1>8
<1>10. f[0] = 0 /\ \A i \in 1..n : f[i] = f[i - 1] + DigitOf(digits[i]) * w[n - i]
  <2> DEFINE part(i) == DigitOf(digits[i]) * w[n - i]
  <2>1. f = [i \in 0..n |-> IF i = 0 THEN 0 ELSE f[i - 1] + part(i)]
    BY <1>9
  <2> HIDE DEF n, f, part
  <2>2. f[0] = 0 /\ \A i \in 1..n : f[i] = f[i - 1] + part(i)
    BY <1>1, <2>1
  <2> QED
    BY <2>2 DEF part
<1> HIDE DEF f, FixedF
<1> QED
  BY <1>2, <1>5, <1>6, <1>10

\* Both are the same number: what is read so far, times the weight of its end.
LEMMA WeighedIsDecimal ==
  ASSUME NEW digits, AllDigits(digits)
  PROVE  Weighed(digits) = Decimal(digits) /\ Decimal(digits) \in Nat
<1> DEFINE n == Len(digits)
           d(i) == DigitOf(digits[i])
<1>1. PICK u : /\ Decimal(digits) = u[n]
               /\ u[0] = 0 /\ \A i \in 0..n : u[i] \in Nat
               /\ \A i \in 1..n : u[i] = 10 * u[i - 1] + d(i)
  BY DecimalIs
<1>2. PICK w, f : /\ Weighed(digits) = f[n]
                  /\ w[0] = 1 /\ \A i \in 0..n : w[i] \in Nat
                  /\ \A i \in 1..n : w[i] = 10 * w[i - 1]
                  /\ f[0] = 0 /\ \A i \in 1..n : f[i] = f[i - 1] + d(i) * w[n - i]
  BY WeighedIs
<1>3. n \in Nat /\ \A i \in 1..n : d(i) \in Nat
  BY DigitIs DEF AllDigits
<1> HIDE DEF n, d
<1>4. \A a, b, e \in Nat : a * (10 * e) + b * e = (10 * a + b) * e
  OBVIOUS
<1> DEFINE D == {i \in Nat : i <= n => f[i] = u[i] * w[n - i]}
<1>5. 0 \in D
  <2>1. w[n] \in Nat /\ n - 0 = n
    BY <1>2, <1>3
  <2> QED
    BY <1>1, <1>2, <2>1
<1>6. ASSUME NEW i \in Nat, i \in D, i + 1 <= n
      PROVE  f[i + 1] = u[i + 1] * w[n - (i + 1)]
  <2> DEFINE k == n - (i + 1)
  <2>1. /\ k \in 0..n /\ n - i \in 1..n /\ n - i - 1 = k
        /\ i \in 0..n /\ i + 1 \in 1..n /\ i + 1 - 1 = i
    BY <1>3, <1>6
  <2>2. f[i] = u[i] * w[n - i] /\ w[n - i] = 10 * w[k]
    BY <1>2, <1>6, <2>1
  <2>3. f[i + 1] = f[i] + d(i + 1) * w[k] /\ u[i + 1] = 10 * u[i] + d(i + 1)
    BY <1>1, <1>2, <2>1
  <2>4. u[i] \in Nat /\ d(i + 1) \in Nat /\ w[k] \in Nat
    BY <1>1, <1>2, <1>3, <2>1
  <2> HIDE DEF k
  <2>5. f[i + 1] = u[i] * (10 * w[k]) + d(i + 1) * w[k]
    BY Zenon, <2>2, <2>3
  <2>6. u[i] * (10 * w[k]) + d(i + 1) * w[k] = (10 * u[i] + d(i + 1)) * w[k]
    BY Zenon, <1>4, <2>4
  <2> QED
    BY Zenon, <2>3, <2>5, <2>6 DEF k
<1>7. \A i \in Nat : i \in D => i + 1 \in D
  BY <1>6
<1>8. n \in D
  <2> HIDE DEF D
  <2> QED
    BY <1>3, <1>5, <1>7, Climbing
<1>9. f[n] = u[n] * w[0] /\ u[n] \in Nat
  <2>1. n - n = 0 /\ n <= n /\ n \in 0..n
    BY <1>3
  <2> QED
    BY <1>1, <1>8, <2>1
<1> QED
  BY <1>1, <1>2, <1>9

\* Where the first of some places is, or where a text ends without one.
StopOf(stops, n) == IF stops = {} THEN n + 1 ELSE CHOOSE i \in stops : \A j \in stops : i <= j

LEMMA FirstStop ==
  ASSUME NEW n \in Nat, NEW from \in Nat \ {0}, from <= n + 1, NEW stops \in SUBSET (from..n)
  PROVE  LET e == StopOf(stops, n)
         IN  e \in from..n + 1 /\ (e <= n => e \in stops) /\ \A j \in from..e - 1 : j \notin stops
<1>1. CASE stops = {}
  BY <1>1 DEF StopOf
<1>2. CASE stops # {}
  <2>1. stops \in SUBSET Nat
    OBVIOUS
  <2>2. PICK e \in stops : e = StopOf(stops, n) /\ \A j \in stops : e <= j
    <3>1. \E i \in stops : \A j \in stops : i <= j
      BY <1>2, <2>1, LeastIs
    <3> QED
      BY <1>2, <3>1 DEF StopOf
  <2> QED
    BY <2>2
<1> QED
  BY <1>1, <1>2

\* The parts of a text that is read as a number: where the blanks end, where the
\* digits begin, and where they end.
Start(text) == Span(text, 1, LAMBDA ch : ch = Space)
HasSign(text) == Start(text) \in DOMAIN text /\ text[Start(text)] \in {"+", "-"}
First(text) == IF HasSign(text) THEN Start(text) + 1 ELSE Start(text)
End(text) == Span(text, First(text), LAMBDA ch : Contains(Digits, ch))
Digit(ch) == Contains(Digits, ch)

LEMMA PartsAre ==
  ASSUME NEW text \in Seq(STRING)
  PROVE  LET n == Len(text)
         IN  /\ n \in Nat /\ DOMAIN text = 1..n
             /\ Start(text) \in 1..n + 1 /\ First(text) \in 1..n + 1 /\ Start(text) <= First(text)
             /\ End(text) \in First(text)..n + 1
             /\ \A j \in 1..Start(text) - 1 : text[j] = Space
             /\ Start(text) <= n => text[Start(text)] # Space
             /\ \A j \in First(text)..End(text) - 1 : Digit(text[j])
             /\ End(text) <= n => ~Digit(text[End(text)])
<1> DEFINE n == Len(text)
<1>1. n \in Nat /\ DOMAIN text = 1..n
  OBVIOUS
<1>2. /\ Start(text) \in 1..n + 1
      /\ \A j \in 1..Start(text) - 1 : text[j] = Space
      /\ Start(text) <= n => text[Start(text)] # Space
  <2> DEFINE stops == {i \in 1..n : ~(text[i] = Space)}
             e == StopOf(stops, n)
  <2>1. Start(text) = e
    BY DEF Start, Span, StopOf
  <2>2. stops \in SUBSET (1..n) /\ 1 <= n + 1 /\ 1 \in Nat \ {0}
    BY <1>1
  <2>3. e \in 1..n + 1 /\ (e <= n => e \in stops) /\ \A j \in 1..e - 1 : j \notin stops
    <3> HIDE DEF stops, n
    <3> QED
      BY <1>1, <2>2, FirstStop
  <2> HIDE DEF e
  <2>4. \A j \in 1..e - 1 : j \in 1..n
    BY <1>1, <2>3
  <2> QED
    BY <2>1, <2>3, <2>4
<1>3. First(text) \in 1..n + 1 /\ Start(text) <= First(text)
  BY <1>1, <1>2 DEF First, HasSign
<1>4. /\ End(text) \in First(text)..n + 1
      /\ \A j \in First(text)..End(text) - 1 : Digit(text[j])
      /\ End(text) <= n => ~Digit(text[End(text)])
  <2> DEFINE from == First(text)
             stops == {i \in from..n : ~Contains(Digits, text[i])}
             e == StopOf(stops, n)
  <2>1. End(text) = e
    BY DEF End, Span, StopOf
  <2>2. stops \in SUBSET (from..n) /\ from <= n + 1 /\ from \in Nat \ {0}
    BY <1>1, <1>3
  <2> HIDE DEF from
  <2>3. e \in from..n + 1 /\ (e <= n => e \in stops) /\ \A j \in from..e - 1 : j \notin stops
    <3> HIDE DEF stops, n
    <3> QED
      BY <1>1, <2>2, FirstStop
  <2> HIDE DEF e
  <2>4. \A j \in from..e - 1 : j \in from..n
    BY <1>1, <2>2, <2>3
  <2> QED
    BY <2>1, <2>3, <2>4 DEF Digit, from
<1> QED
  BY <1>1, <1>2, <1>3, <1>4

\* The reference finds the same parts.
DigitsOf(text) == SubSeq(text, First(text), Len(text))

Blanks(text) == Cardinality({i \in DOMAIN text : \A j \in 1..i : text[j] = Space})

LEMMA BlanksAre ==
  ASSUME NEW text \in Seq(STRING)
  PROVE  Blanks(text) = Start(text) - 1
<1> DEFINE e == Start(text)
<1>1. /\ Len(text) \in Nat /\ DOMAIN text = 1..Len(text) /\ e \in 1..Len(text) + 1
      /\ \A j \in 1..e - 1 : text[j] = Space /\ (e <= Len(text) => text[e] # Space)
  BY PartsAre
<1>2. e <= Len(text) => text[e] # Space
  BY PartsAre
<1> HIDE DEF e
<1>3. {i \in DOMAIN text : \A j \in 1..i : text[j] = Space} = 1..e - 1
  <2>1. ASSUME NEW i \in 1..Len(text), \A j \in 1..i : text[j] = Space
        PROVE  i \in 1..e - 1
    <3>1. ~(e <= i)
      BY <1>1, <1>2, <2>1
    <3> QED
      BY <1>1, <3>1
  <2>2. ASSUME NEW i \in 1..e - 1
        PROVE  i \in 1..Len(text) /\ \A j \in 1..i : text[j] = Space
    BY <1>1
  <2> QED
    BY <1>1, <2>1, <2>2
<1>4. Cardinality(1..e - 1) = e - 1
  BY <1>1, FS_Interval
<1> QED
  BY <1>3, <1>4 DEF Blanks, e

LEMMA ReferenceParts ==
  ASSUME NEW text \in Seq(STRING)
  PROVE  LET plain == SubSeq(text, Blanks(text) + 1, Len(text))
             signed == plain # <<>> /\ Head(plain) \in {"+", "-"}
         IN  /\ signed <=> HasSign(text)
             /\ (IF signed THEN Tail(plain) ELSE plain) = DigitsOf(text)
             /\ signed => Head(plain) = text[Start(text)]
<1> DEFINE e == Start(text)
           n == Len(text)
           plain == SubSeq(text, Blanks(text) + 1, Len(text))
           signed == plain # <<>> /\ Head(plain) \in {"+", "-"}
<1>1. n \in Nat /\ DOMAIN text = 1..n /\ e \in 1..n + 1
  BY PartsAre
<1>2. plain = SubSeq(text, e, n)
  <2>1. Blanks(text) + 1 = e
    BY <1>1, BlanksAre
  <2> QED
    BY <2>1
<1>3. \A i \in e..n : text[i] \in STRING
  BY <1>1
<1>4. /\ plain \in Seq(STRING) /\ Len(plain) = n - e + 1
      /\ \A i \in 1..n - e + 1 : plain[i] = text[e + i - 1]
  <2> HIDE DEF plain, n, e
  <2> QED
    BY <1>1, <1>2, <1>3, SubSeqProperties
<1>5. plain # <<>> <=> e <= n
  <2>1. plain = <<>> <=> Len(plain) = 0
    BY <1>4, EmptySeq
  <2> HIDE DEF plain, e, n
  <2> QED
    BY <1>1, <1>4, <2>1
<1>6. e <= n => Head(plain) = text[e]
  <2> SUFFICES ASSUME e <= n
               PROVE  Head(plain) = text[e]
    OBVIOUS
  <2>1. Head(plain) = plain[1]
    BY <1>4, <1>5
  <2>2. 1 \in 1..n - e + 1 /\ e + 1 - 1 = e
    BY <1>1
  <2> QED
    BY <1>4, <2>1, <2>2
<1>7. signed <=> HasSign(text)
  <2>1. e \in 1..n <=> e <= n
    BY <1>1
  <2> QED
    BY <1>1, <1>5, <1>6, <2>1 DEF HasSign
<1>8. CASE signed
  <2>1. e <= n /\ First(text) = e + 1
    BY <1>5, <1>7, <1>8 DEF First
  <2>2. Tail(plain) = SubSeq(text, e + 1, n)
    <3> HIDE DEF e, n, plain
    <3>1. /\ Tail(plain) \in Seq(STRING) /\ Len(Tail(plain)) = Len(plain) - 1
          /\ \A i \in 1..Len(plain) - 1 : Tail(plain)[i] = plain[i + 1]
      BY <1>4, <1>5, <2>1, HeadTailProperties
    <3>2. \A i \in e + 1..n : text[i] \in STRING
      BY <1>1, <1>3
    <3>3. /\ SubSeq(text, e + 1, n) \in Seq(STRING) /\ Len(SubSeq(text, e + 1, n)) = n - e
          /\ \A i \in 1..n - e : SubSeq(text, e + 1, n)[i] = text[e + 1 + i - 1]
      BY <1>1, <2>1, <3>2, SubSeqProperties
    <3>4. \A i \in 1..n - e : Tail(plain)[i] = SubSeq(text, e + 1, n)[i]
      <4> SUFFICES ASSUME NEW i \in 1..n - e
                   PROVE  Tail(plain)[i] = SubSeq(text, e + 1, n)[i]
        OBVIOUS
      <4>1. i \in 1..Len(plain) - 1 /\ i + 1 \in 1..n - e + 1 /\ e + (i + 1) - 1 = e + 1 + i - 1
        BY <1>1, <1>4
      <4> QED
        BY <1>4, <3>1, <3>3, <4>1
    <3> QED
      BY <1>1, <1>4, <3>1, <3>3, <3>4, SeqEqual
  <2> QED
    BY <1>6, <1>7, <1>8, <2>1, <2>2 DEF DigitsOf
<1>9. CASE ~signed
  <2>1. First(text) = e
    BY <1>7, <1>9 DEF First
  <2> QED
    BY <1>2, <1>7, <1>9, <2>1 DEF DigitsOf
<1> QED
  BY <1>7, <1>8, <1>9

\* A number, held within a long.
Held(n) == IF n > LONG_MAX THEN LONG_MAX ELSE IF n < -LONG_MAX THEN -LONG_MAX - 1 ELSE n

Minus(text) == HasSign(text) /\ text[Start(text)] = "-"

Size(text) == Decimal(SubSeq(text, First(text), End(text) - 1))

LEMMA StrtolReads ==
  ASSUME NEW text
  PROVE  Strtol(text) =
           IF End(text) = First(text) THEN [value |-> 0, all |-> text = <<>>]
           ELSE [value |-> IF Minus(text)
                           THEN IF Size(text) > LONG_MAX THEN -LONG_MAX - 1 ELSE -Size(text)
                           ELSE IF Size(text) > LONG_MAX THEN LONG_MAX ELSE Size(text),
                 all |-> End(text) > Len(text)]
BY DEF Strtol, Size, Minus, End, First, HasSign, Start

LEMMA NumeralReads ==
  ASSUME NEW text \in Seq(STRING)
  PROVE  LET digits == DigitsOf(text)
             numeric == digits # <<>> /\ \A i \in DOMAIN digits : Digit(digits[i])
         IN  Numeral(text) = CASE text = <<>> -> {0}
                               [] text # <<>> /\ ~numeric -> {}
                               [] OTHER -> {IF Minus(text) THEN -Weighed(digits) ELSE Weighed(digits)}
<1> DEFINE plain == SubSeq(text, Blanks(text) + 1, Len(text))
           signed == plain # <<>> /\ Head(plain) \in {"+", "-"}
           digits == IF signed THEN Tail(plain) ELSE plain
           numeric(d) == d # <<>> /\ \A i \in DOMAIN d : Digit(d[i])
           said(d, neg) == CASE text = <<>> -> {0}
                             [] text # <<>> /\ ~numeric(d) -> {}
                             [] OTHER -> {IF neg THEN -Weighed(d) ELSE Weighed(d)}
<1>1. Numeral(text) = said(digits, signed /\ Head(plain) = "-")
  BY DEF Numeral, Blanks, Digit
<1>2. /\ signed <=> HasSign(text)
      /\ digits = DigitsOf(text)
      /\ signed => Head(plain) = text[Start(text)]
  BY ReferenceParts
<1>3. (signed /\ Head(plain) = "-") = Minus(text)
  BY <1>2 DEF Minus
<1> HIDE DEF signed, digits, plain
<1>4. Numeral(text) = said(DigitsOf(text), Minus(text))
  <2> HIDE DEF said
  <2> QED
    BY Zenon, <1>1, <1>2, <1>3
<1> QED
  BY <1>4

\* strtol gives the number of the reference, held within a long, or finds none too.
LEMMA NumberIsRead ==
  ASSUME NEW text \in Seq(STRING)
  PROVE  \/ ~Strtol(text).all /\ Numeral(text) = {}
         \/ Strtol(text).all /\ \E n \in Int : Numeral(text) = {n} /\ Strtol(text).value = Held(n)
<1> DEFINE n == Len(text)
           first == First(text)
           end == End(text)
           digits == DigitsOf(text)
           numeric == digits # <<>> /\ \A i \in DOMAIN digits : Digit(digits[i])
<1>1. /\ n \in Nat /\ DOMAIN text = 1..n /\ first \in 1..n + 1 /\ end \in first..n + 1
      /\ \A j \in first..end - 1 : Digit(text[j])
      /\ end <= n => ~Digit(text[end])
  BY PartsAre
<1>2. /\ digits \in Seq(STRING) /\ Len(digits) = n + 1 - first
      /\ \A i \in 1..n + 1 - first : digits[i] = text[first + i - 1]
  <2>1. \A i \in first..n : text[i] \in STRING
    BY <1>1
  <2>2. /\ digits \in Seq(STRING) /\ Len(digits) = IF first <= n THEN n - first + 1 ELSE 0
        /\ \A i \in 1..n - first + 1 : digits[i] = text[first + i - 1]
    <3>1. first \in Int /\ n \in Int /\ digits = SubSeq(text, first, n)
      BY <1>1 DEF DigitsOf
    <3> HIDE DEF digits, first, n
    <3> QED
      BY <2>1, <3>1, SubSeqProperties
  <2> HIDE DEF digits, first, n
  <2> QED
    BY <1>1, <2>2
<1>3. text = <<>> <=> n = 0
  BY EmptySeq
<1>4. digits = <<>> <=> first = n + 1
  <2>1. digits = <<>> <=> Len(digits) = 0
    BY <1>2, EmptySeq
  <2> HIDE DEF digits, first, n
  <2> QED
    BY <1>1, <1>2, <2>1
<1>5. numeric <=> end = n + 1 /\ end # first
  <2> HIDE DEF digits, first, end, n
  <2>1. CASE end <= n
    <3>1. end - first + 1 \in 1..n + 1 - first /\ first + (end - first + 1) - 1 = end
      BY <1>1, <2>1
    <3>2. ~Digit(digits[end - first + 1])
      BY <1>1, <1>2, <2>1, <3>1
    <3>3. end - first + 1 \in DOMAIN digits
      BY <1>2, <3>1
    <3> QED
      BY <1>1, <2>1, <3>2, <3>3
  <2>2. CASE end = n + 1
    <3>1. \A i \in DOMAIN digits : i \in 1..n + 1 - first /\ first + i - 1 \in first..end - 1
      BY <1>1, <1>2, <2>2
    <3>2. \A i \in DOMAIN digits : Digit(digits[i])
      BY <1>1, <1>2, <3>1
    <3> QED
      BY <1>4, <2>2, <3>2
  <2> QED
    BY <1>1, <2>1, <2>2
<1>6. CASE n = 0
  <2>1. end = first /\ text = <<>>
    <3> HIDE DEF digits, first, end
    <3> QED
      BY <1>1, <1>3, <1>6
  <2>2. Strtol(text).all /\ Strtol(text).value = 0
    BY <2>1, StrtolReads
  <2>3. Numeral(text) = {0}
    BY <2>1, NumeralReads
  <2>4. Held(0) = 0
    BY TokenAssumption DEF Held
  <2> QED
    BY <2>2, <2>3, <2>4
<1>7. CASE n # 0 /\ ~numeric
  <2>1. Numeral(text) = {}
    BY <1>3, <1>7, NumeralReads
  <2>2. ~Strtol(text).all
    <3>1. CASE end = first
      BY <1>3, <1>7, <3>1, StrtolReads
    <3>2. CASE end # first
      <4>1. ~(end > n)
        <5> HIDE DEF digits, first, end, n, numeric
        <5> QED
          BY <1>1, <1>5, <1>7, <3>2
      <4> QED
        BY <3>2, <4>1, StrtolReads
    <3> QED
      BY <3>1, <3>2
  <2> QED
    BY <2>1, <2>2
<1>8. CASE n # 0 /\ numeric
  <2>1. end = n + 1 /\ end # first /\ text # <<>>
    BY <1>3, <1>5, <1>8
  <2>2. end - 1 = n /\ end > n
    <3> HIDE DEF end, n
    <3> QED
      BY <1>1, <2>1
  <2>3. Size(text) = Decimal(digits)
    BY Zenon, <2>2 DEF Size, DigitsOf
  <2>4. AllDigits(digits)
    <3>1. \A i \in DOMAIN digits : Contains(Digits, digits[i])
      BY <1>8 DEF Digit
    <3> HIDE DEF digits
    <3> QED
      BY <1>2, <3>1 DEF AllDigits
  <2>5. Weighed(digits) = Size(text) /\ Size(text) \in Nat
    <3> HIDE DEF digits
    <3> QED
      BY <2>3, <2>4, WeighedIsDecimal
  <2> DEFINE size == Size(text)
             number == IF Minus(text) THEN -size ELSE size
  <2>6. Numeral(text) = {number}
    <3>1. Numeral(text) = {IF Minus(text) THEN -Weighed(digits) ELSE Weighed(digits)}
      BY <1>8, <2>1, NumeralReads
    <3> QED
      BY <2>5, <3>1
  <2>7. /\ Strtol(text).all
        /\ Strtol(text).value = IF Minus(text) THEN IF size > LONG_MAX THEN -LONG_MAX - 1 ELSE -size
                                ELSE IF size > LONG_MAX THEN LONG_MAX ELSE size
    BY <2>1, <2>2, StrtolReads
  <2>8. number \in Int /\ Strtol(text).value = Held(number)
    <3> HIDE DEF size
    <3>1. size \in Nat
      BY <2>5 DEF size
    <3> QED
      BY <2>7, <3>1, TokenAssumption DEF Held
  <2> QED
    BY <2>6, <2>7, <2>8
<1> QED
  BY <1>6, <1>7, <1>8

\* What a token is asked for is answered from its text.
LEMMA NumberIsExact ==
  ASSUME NEW text \in Seq(STRING)
  PROVE  LET r == StringIntValue(text)
         IN  /\ r = [ok |-> r.ok, value |-> r.value] /\ r.ok \in BOOLEAN
             /\ IF Numeral(text) = {} THEN r.ok = FALSE /\ r.value = 0
                ELSE \A n \in Numeral(text) :
                       CASE n >= INT_MAX -> r.ok = FALSE /\ r.value = INT_MAX
                         [] n <= INT_MIN -> r.ok = FALSE /\ r.value = INT_MIN
                         [] OTHER -> r.ok /\ r.value = n
<1> DEFINE i == Strtol(text)
           r == StringIntValue(text)
<1>1. r = CASE ~i.all -> [ok |-> FALSE, value |-> 0]
            [] i.all /\ i.value >= INT_MAX -> [ok |-> FALSE, value |-> INT_MAX]
            [] i.all /\ i.value <= INT_MIN -> [ok |-> FALSE, value |-> INT_MIN]
            [] OTHER -> [ok |-> TRUE, value |-> i.value]
  BY DEF StringIntValue
<1> HIDE DEF i, r
<1>2. CASE ~i.all /\ Numeral(text) = {}
  <2>1. r = [ok |-> FALSE, value |-> 0]
    BY <1>1, <1>2
  <2> QED
    BY <1>2, <2>1 DEF r
<1>3. CASE i.all /\ \E n \in Int : Numeral(text) = {n} /\ i.value = Held(n)
  <2>1. PICK n \in Int : Numeral(text) = {n} /\ i.value = Held(n)
    BY <1>3
  <2>2. CASE n >= INT_MAX
    <3>1. Held(n) >= INT_MAX /\ ~(Held(n) <= INT_MIN) /\ ~(n <= INT_MIN)
      BY <2>2, TokenAssumption DEF Held, INT_MIN
    <3>2. r = [ok |-> FALSE, value |-> INT_MAX]
      BY <1>1, <1>3, <2>1, <3>1
    <3> QED
      BY <2>1, <2>2, <3>1, <3>2 DEF r
  <2>3. CASE n <= INT_MIN
    <3>1. Held(n) <= INT_MIN /\ ~(Held(n) >= INT_MAX) /\ ~(n >= INT_MAX)
      BY <2>3, TokenAssumption DEF Held, INT_MIN
    <3>2. r = [ok |-> FALSE, value |-> INT_MIN]
      BY <1>1, <1>3, <2>1, <3>1
    <3> QED
      BY <2>1, <2>3, <3>1, <3>2 DEF r
  <2>4. CASE ~(n >= INT_MAX) /\ ~(n <= INT_MIN)
    <3>1. Held(n) = n
      BY <2>4, TokenAssumption DEF Held, INT_MIN
    <3>2. r = [ok |-> TRUE, value |-> n]
      BY <1>1, <1>3, <2>1, <2>4, <3>1
    <3> QED
      BY <2>1, <2>4, <3>2 DEF r
  <2> QED
    BY <2>2, <2>3, <2>4
<1> QED
  BY <1>2, <1>3, NumberIsRead DEF i

LEMMA TruthIsExact ==
  ASSUME NEW text
  PROVE  LET r == StringBoolValue(text)
             word == CaseFold(text)
         IN  /\ r = [ok |-> r.ok, value |-> r.value] /\ r.ok \in BOOLEAN /\ r.value \in {0, 1}
             /\ r.ok <=> word \in Yes \cup No
             /\ r.value = IF word \in Yes THEN 1 ELSE 0
<1> DEFINE r == StringBoolValue(text)
<1>1. r = [ok |-> CaseFold(text) \in Yes \cup No,
           value |-> IF CaseFold(text) \in Yes THEN 1 ELSE 0]
  BY DEF StringBoolValue
<1> HIDE DEF r
<1>2. r.ok = (CaseFold(text) \in Yes \cup No) /\ r.value = IF CaseFold(text) \in Yes THEN 1 ELSE 0
  BY <1>1
<1>3. r = [ok |-> r.ok, value |-> r.value]
  BY Zenon, <1>1, <1>2
<1>4. r.ok \in BOOLEAN /\ (r.ok <=> CaseFold(text) \in Yes \cup No)
  <2>1. (CaseFold(text) \in Yes \cup No) \in BOOLEAN
    OBVIOUS
  <2> QED
    BY <1>2, <2>1
<1> QED
  BY <1>2, <1>3, <1>4 DEF r

\* What a token keeps of a conversion, and what it answered last, is what its
\* text is converted to, as the type says.
Converts(type, text) == IF type = "int" THEN StringIntValue(text) ELSE StringBoolValue(text)

AnswersAs(token, given) ==
  /\ DOMAIN token = {"text", "dataType", "internalRep"}
  /\ token.text \in Seq(STRING)
  /\ token.dataType \in {"string", "int", "bool"}
  /\ token.dataType # "string" =>
       Converts(token.dataType, token.text) = [ok |-> TRUE, value |-> token.internalRep]
  /\ given.asked \in {"nothing", "int", "bool"}
  /\ given.asked # "nothing" =>
       Converts(given.asked, token.text) = [ok |-> given.ok, value |-> given.value]

ConversionInv == AnswersAs(configToken, answer)

LEMMA ConvertKeeps ==
  ASSUME ConversionInv, NEW type \in {"int", "bool"},
         Convert(type, Converts(type, configToken.text))
  PROVE  ConversionInv'
<1> DEFINE t == configToken
           r == Converts(type, t.text)
<1>1. /\ DOMAIN t = {"text", "dataType", "internalRep"}
      /\ t.text \in Seq(STRING) /\ t.dataType \in {"string", "int", "bool"}
      /\ t.dataType # "string" => Converts(t.dataType, t.text) = [ok |-> TRUE, value |-> t.internalRep]
  BY DEF ConversionInv, AnswersAs
<1>2. r = [ok |-> r.ok, value |-> r.value] /\ r.ok \in BOOLEAN
  BY <1>1, NumberIsExact, TruthIsExact DEF Converts
<1>3. CASE Kept(type)
  <2>1. /\ t.dataType = type /\ configToken' = t
        /\ answer' = [asked |-> type, ok |-> TRUE, value |-> t.internalRep]
    BY <1>3 DEF Convert, Kept
  <2>2. answer'.asked = type /\ answer'.ok = TRUE /\ answer'.value = t.internalRep
    BY <2>1
  <2>3. AnswersAs(t, answer')
    BY <1>1, <2>1, <2>2 DEF AnswersAs
  <2> QED
    BY <2>1, <2>3 DEF ConversionInv
<1>4. CASE ~Kept(type)
  <2>1. /\ answer' = [asked |-> type, ok |-> r.ok, value |-> r.value]
        /\ configToken' = IF r.ok THEN [t EXCEPT !.dataType = type, !.internalRep = r.value] ELSE t
    BY <1>4 DEF Convert
  <2> HIDE DEF r
  <2>2. answer'.asked = type /\ answer'.ok = r.ok /\ answer'.value = r.value
    BY <2>1
  <2>3. CASE r.ok
    <3> DEFINE u == [t EXCEPT !.dataType = type, !.internalRep = r.value]
    <3>1. DOMAIN u = DOMAIN t /\ u.text = t.text /\ u.dataType = type /\ u.internalRep = r.value
      <4> HIDE DEF t
      <4> QED
        BY <1>1
    <3>2. configToken' = u
      BY <2>1, <2>3
    <3>3. Converts(type, t.text) = [ok |-> TRUE, value |-> r.value]
      BY <1>2, <2>3 DEF r
    <3> HIDE DEF u
    <3>4. AnswersAs(u, answer')
      BY <1>1, <1>2, <2>2, <2>3, <3>1, <3>3 DEF AnswersAs
    <3> QED
      BY <3>2, <3>4 DEF ConversionInv
  <2>4. CASE ~r.ok
    <3>1. configToken' = t
      BY <2>1, <2>4
    <3>2. Converts(type, t.text) = [ok |-> answer'.ok, value |-> answer'.value]
      BY <1>2, <2>2 DEF r
    <3>3. AnswersAs(t, answer')
      BY <1>1, <2>2, <3>2 DEF AnswersAs
    <3> QED
      BY <3>1, <3>3 DEF ConversionInv
  <2> QED
    BY <2>3, <2>4
<1> QED
  BY <1>3, <1>4

LEMMA ConversionsFollow == ConversionInv => ConversionsExact
<1> SUFFICES ASSUME ConversionInv
             PROVE  ConversionsExact
  OBVIOUS
<1> DEFINE text == configToken.text
<1>1. /\ text \in Seq(STRING)
      /\ answer.asked # "nothing" =>
           Converts(answer.asked, text) = [ok |-> answer.ok, value |-> answer.value]
  BY DEF ConversionInv, AnswersAs
<1> HIDE DEF text
<1>2. CASE answer.asked = "int"
  <2> DEFINE r == StringIntValue(text)
  <2>1. r = [ok |-> answer.ok, value |-> answer.value]
    BY <1>1, <1>2 DEF Converts
  <2>2. r.ok = answer.ok /\ r.value = answer.value
    <3> HIDE DEF r
    <3> QED
      BY <2>1
  <2>3. IF Numeral(text) = {} THEN r.ok = FALSE /\ r.value = 0
        ELSE \A n \in Numeral(text) :
               CASE n >= INT_MAX -> r.ok = FALSE /\ r.value = INT_MAX
                 [] n <= INT_MIN -> r.ok = FALSE /\ r.value = INT_MIN
                 [] OTHER -> r.ok /\ r.value = n
    BY <1>1, NumberIsExact
  <2> HIDE DEF r
  <2> QED
    BY <1>2, <2>2, <2>3 DEF ConversionsExact, text
<1>3. CASE answer.asked = "bool"
  <2> DEFINE r == StringBoolValue(text)
  <2>1. r = [ok |-> answer.ok, value |-> answer.value]
    BY <1>1, <1>3 DEF Converts
  <2>2. r.ok = answer.ok /\ r.value = answer.value
    <3> HIDE DEF r
    <3> QED
      BY <2>1
  <2>3. /\ r.ok <=> CaseFold(text) \in Yes \cup No
        /\ r.value = IF CaseFold(text) \in Yes THEN 1 ELSE 0
    BY TruthIsExact
  <2> HIDE DEF r
  <2> QED
    BY <1>3, <2>2, <2>3 DEF ConversionsExact, text
<1> QED
  BY <1>2, <1>3 DEF ConversionsExact

(* However often and in whatever order a token is asked for a number and    *)
(* for a truth value, each answer is what its text says, for texts of any   *)
(* length: a number held to the limits of an int, and never what was kept   *)
(* of the other type.  -[TRConfigToken intValue:], boolValue:.              *)
THEOREM ConversionsAreExact == Spec => []ConversionsExact
<1>1. Init => ConversionInv
  <2> SUFFICES ASSUME Init
               PROVE  ConversionInv
    OBVIOUS
  <2>1. TokenInit(Of("token", Texts, <<>>))
    BY DEF Init
  <2>2. PICK x \in Of("token", Texts, <<>>) :
          configToken = [text |-> x, dataType |-> "string", internalRep |-> 0]
    BY <2>1 DEF TokenInit
  <2>3. x \in Seq(STRING)
    <3>1. <<>> \in Seq(STRING)
      BY EmptySeq
    <3> QED
      BY <2>2, <3>1, TextsAssumption DEF Of
  <2>4. answer.asked = "nothing"
    BY <2>1 DEF TokenInit, NotAsked
  <2>5. /\ configToken.text = x /\ configToken.dataType = "string"
        /\ DOMAIN configToken = {"text", "dataType", "internalRep"}
    BY <2>2
  <2> QED
    BY <2>3, <2>4, <2>5 DEF ConversionInv, AnswersAs
<1>2. ConversionInv /\ [Next]_textVars => ConversionInv'
  <2> SUFFICES ASSUME ConversionInv, [Next]_textVars
               PROVE  ConversionInv'
    OBVIOUS
  <2>1. CASE TokenNext
    <3>1. CASE IntValue
      <4>1. Convert("int", Converts("int", configToken.text))
        BY <3>1 DEF IntValue, Converts
      <4> QED
        BY <4>1, ConvertKeeps
    <3>2. CASE BoolValue
      <4>1. Convert("bool", Converts("bool", configToken.text))
        BY <3>2 DEF BoolValue, Converts
      <4> QED
        BY <4>1, ConvertKeeps
    <3> QED
      BY <2>1, <3>1, <3>2 DEF TokenNext
  <2>2. CASE UNCHANGED tokenVars
    BY <2>2 DEF tokenVars, ConversionInv
  <2> QED
    BY <2>1, <2>2 DEF Next, textVars
<1>3. ConversionInv => ConversionsExact
  BY ConversionsFollow
<1> QED
  BY <1>1, <1>2, <1>3, PTL DEF Spec

-----------------------------------------------------------------------------
(* Directives.  How deep a place is in blocks, seen from another one. *)

Count(S, i, j) == Cardinality(S \cap i + 1..j)

LEMMA CountIs ==
  ASSUME NEW S, NEW i \in Nat, NEW j \in Nat, i <= j
  PROVE  /\ Count(S, i, i) = 0 /\ Count(S, i, j) \in Nat
         /\ Count(S, i, j + 1) = Count(S, i, j) + (IF j + 1 \in S THEN 1 ELSE 0)
<1> DEFINE between == S \cap i + 1..j
<1>1. IsFiniteSet(between)
  <2>1. IsFiniteSet(i + 1..j) /\ between \in SUBSET (i + 1..j)
    BY FS_Interval
  <2> QED
    BY <2>1, FS_Subset
<1>2. Count(S, i, j) \in Nat
  BY <1>1, FS_CardinalityType DEF Count
<1>3. Count(S, i, i) = 0
  <2>1. S \cap i + 1..i = {}
    OBVIOUS
  <2> QED
    BY <2>1, FS_EmptySet DEF Count
<1>4. CASE j + 1 \in S
  <2>1. S \cap i + 1..j + 1 = between \cup {j + 1} /\ j + 1 \notin between
    BY <1>4
  <2>2. Cardinality(between \cup {j + 1}) = Cardinality(between) + 1
    <3> HIDE DEF between
    <3> QED
      BY <1>1, <2>1, FS_AddElement
  <2> QED
    BY <1>2, <1>3, <1>4, <2>1, <2>2 DEF Count
<1>5. CASE j + 1 \notin S
  <2>1. S \cap i + 1..j + 1 = between
    BY <1>5
  <2> QED
    BY <1>2, <1>3, <1>5, <2>1 DEF Count
<1> QED
  BY <1>4, <1>5

Depth(i, j) == Count(Ifs, i, j) - Count(Endifs, i, j)

LEMMA DirectivesApart == Ifs \cap Endifs = {}
BY DEF Ifs, Endifs, Directive

LEMMA DepthSteps ==
  ASSUME NEW i \in Nat, NEW j \in Nat, i <= j
  PROVE  /\ Depth(i, i) = 0 /\ Depth(i, j) \in Int
         /\ j + 1 \in Ifs => Depth(i, j + 1) = Depth(i, j) + 1
         /\ j + 1 \in Endifs => Depth(i, j + 1) = Depth(i, j) - 1
         /\ j + 1 \notin Ifs \cup Endifs => Depth(i, j + 1) = Depth(i, j)
<1>1. /\ Count(Ifs, i, i) = 0 /\ Count(Ifs, i, j) \in Nat
      /\ Count(Ifs, i, j + 1) = Count(Ifs, i, j) + (IF j + 1 \in Ifs THEN 1 ELSE 0)
  BY CountIs
<1>2. /\ Count(Endifs, i, i) = 0 /\ Count(Endifs, i, j) \in Nat
      /\ Count(Endifs, i, j + 1) = Count(Endifs, i, j) + (IF j + 1 \in Endifs THEN 1 ELSE 0)
  BY CountIs
<1> QED
  BY <1>1, <1>2, DirectivesApart DEF Depth

LEMMA DepthAdds ==
  ASSUME NEW i \in Nat, NEW j \in Nat, NEW k \in Nat, i <= j, j <= k
  PROVE  Depth(i, k) = Depth(i, j) + Depth(j, k)
<1> DEFINE D == {d \in Nat : Depth(i, j + d) = Depth(i, j) + Depth(j, j + d)}
<1>1. 0 \in D
  <2>1. j + 0 = j /\ Depth(j, j) = 0 /\ Depth(i, j) \in Int
    BY DepthSteps
  <2> QED
    BY <2>1
<1>2. ASSUME NEW d \in Nat, d \in D
      PROVE  d + 1 \in D
  <2>1. j + d \in Nat /\ i <= j + d /\ j <= j + d /\ j + (d + 1) = j + d + 1
    OBVIOUS
  <2> DEFINE m == j + d
  <2>2. Depth(i, m) = Depth(i, j) + Depth(j, m)
    BY <1>2
  <2>3. Depth(i, j) \in Int
    BY DepthSteps
  <2> HIDE DEF m
  <2>4. m \in Nat /\ i <= m /\ j <= m /\ j + (d + 1) = m + 1
    BY <2>1 DEF m
  <2>5. /\ Depth(i, m) \in Int
        /\ m + 1 \in Ifs => Depth(i, m + 1) = Depth(i, m) + 1
        /\ m + 1 \in Endifs => Depth(i, m + 1) = Depth(i, m) - 1
        /\ m + 1 \notin Ifs \cup Endifs => Depth(i, m + 1) = Depth(i, m)
    BY <2>4, DepthSteps
  <2>6. /\ Depth(j, m) \in Int
        /\ m + 1 \in Ifs => Depth(j, m + 1) = Depth(j, m) + 1
        /\ m + 1 \in Endifs => Depth(j, m + 1) = Depth(j, m) - 1
        /\ m + 1 \notin Ifs \cup Endifs => Depth(j, m + 1) = Depth(j, m)
    BY <2>4, DepthSteps
  <2>7. Depth(i, m + 1) = Depth(i, j) + Depth(j, m + 1)
    BY <2>2, <2>3, <2>5, <2>6
  <2> QED
    BY <2>4, <2>7
<1>3. k - j \in D
  <2>1. k - j \in Nat
    OBVIOUS
  <2> HIDE DEF D
  <2> QED
    BY <1>1, <1>2, <2>1, Climbing
<1>4. j + (k - j) = k
  OBVIOUS
<1> QED
  BY <1>3, <1>4

LEMMA EndsAre ==
  ASSUME file \in Seq(STRING), NEW i \in Nat
  PROVE  /\ \A e : e \in EndsOf(i) <=> e \in Endifs /\ e > i /\ Depth(i, e - 1) = 0
         /\ EndsOf(i) \in SUBSET Endifs
<1>1. Endifs \in SUBSET Nat
  <2>1. DOMAIN file \in SUBSET Nat
    OBVIOUS
  <2> QED
    BY <2>1 DEF Endifs
<1>2. ASSUME NEW e \in Endifs, e > i
      PROVE  Cardinality(Ifs \cap i + 1..e - 1) = Cardinality(Endifs \cap i + 1..e - 1)
             <=> Depth(i, e - 1) = 0
  <2>1. e - 1 \in Nat /\ i <= e - 1
    BY <1>1, <1>2
  <2>2. Count(Ifs, i, e - 1) \in Nat /\ Count(Endifs, i, e - 1) \in Nat
    BY <2>1, CountIs
  <2>3. Count(Ifs, i, e - 1) = Count(Endifs, i, e - 1) <=> Depth(i, e - 1) = 0
    BY <2>2 DEF Depth
  <2> QED
    BY <2>3 DEF Count
<1> QED
  BY <1>2 DEF EndsOf

\* Where a block has been left, it has ended.
LEMMA LeftHasEnded ==
  ASSUME file \in Seq(STRING), NEW i \in Nat, NEW k \in Nat, i <= k, Depth(i, k) < 0
  PROVE  \E e \in EndsOf(i) : e <= k
<1> DEFINE L == {j \in Nat : j >= i /\ Depth(i, j) < 0}
<1>1. L \in SUBSET Nat /\ L # {}
  OBVIOUS
<1>2. PICK m \in L : \A j \in L : m <= j
  <2> HIDE DEF L
  <2> QED
    BY <1>1, LeastIs
<1>3. m \in Nat /\ m > i /\ m <= k
  <2>1. Depth(i, i) = 0
    BY DepthSteps
  <2>2. m # i /\ m >= i /\ k \in L
    BY <1>2, <2>1
  <2> QED
    BY <1>2, <2>2
<1>4. m - 1 \in Nat /\ i <= m - 1 /\ m - 1 \notin L /\ m - 1 + 1 = m
  <2>1. m - 1 \in Nat /\ i <= m - 1 /\ ~(m <= m - 1) /\ m - 1 + 1 = m
    BY <1>3
  <2> HIDE DEF L
  <2> QED
    BY <1>2, <2>1
<1>5. ~(Depth(i, m - 1) < 0) /\ Depth(i, m) < 0
  BY <1>2, <1>4
<1>6. /\ Depth(i, m - 1) \in Int
      /\ m \in Ifs => Depth(i, m) = Depth(i, m - 1) + 1
      /\ m \in Endifs => Depth(i, m) = Depth(i, m - 1) - 1
      /\ m \notin Ifs \cup Endifs => Depth(i, m) = Depth(i, m - 1)
  <2> DEFINE j == m - 1
  <2>1. j \in Nat /\ i <= j /\ j + 1 = m
    BY <1>4
  <2> HIDE DEF j
  <2>2. /\ Depth(i, j) \in Int
        /\ j + 1 \in Ifs => Depth(i, j + 1) = Depth(i, j) + 1
        /\ j + 1 \in Endifs => Depth(i, j + 1) = Depth(i, j) - 1
        /\ j + 1 \notin Ifs \cup Endifs => Depth(i, j + 1) = Depth(i, j)
    BY <2>1, DepthSteps
  <2>3. j + 1 = m /\ j = m - 1
    BY <2>1 DEF j
  <2> QED
    BY <2>2, <2>3
<1>7. m \in Endifs /\ Depth(i, m - 1) = 0
  BY <1>5, <1>6
<1> QED
  BY <1>3, <1>7, EndsAre

-----------------------------------------------------------------------------
(* What is read of a text of which some lines and blocks have been blanked. *)

Directives == Ifs \cup Endifs

\* What is gone once the places up to i were looked at, and the blocks that are
\* left out and begin up to b have ended.
Gone(i, b) ==
  {k \in DOMAIN Text : \/ \E d \in Directives : d <= i /\ k \in LineOf(d)
                       \/ \E j \in LeftOut : j <= b /\ k \in j..Min(EndsOf(j))}

Shown(places) == [k \in DOMAIN Text |-> IF k \in places /\ Text[k] # "\n" THEN Blank ELSE Text[k]]

Settled(b) == \A j \in LeftOut : j <= b => EndsOf(j) # {} /\ Min(EndsOf(j)) <= b

LEMMA TextIs ==
  ASSUME file \in Seq(STRING)
  PROVE  /\ Len(Text) = Len(file) + 1 /\ Len(Text) \in Nat \ {0} /\ DOMAIN Text = 1..Len(Text)
         /\ Text[Len(Text)] = NUL
         /\ \A i \in DOMAIN file : i \in 1..Len(Text) - 1 /\ Text[i] = file[i]
         /\ DOMAIN file = 1..Len(Text) - 1
<1> DEFINE S == STRING \cup {NUL}
<1>1. Len(file) \in Nat /\ DOMAIN file = 1..Len(file) /\ file \in Seq(S) /\ NUL \in S
  <2>1. \A i \in 1..Len(file) : file[i] \in S
    BY ElementOfSeq
  <2> QED
    BY <2>1
<1>2. /\ Append(file, NUL) \in Seq(S) /\ Len(Append(file, NUL)) = Len(file) + 1
      /\ \A i \in 1..Len(file) : Append(file, NUL)[i] = file[i]
      /\ Append(file, NUL)[Len(file) + 1] = NUL
  <2> HIDE DEF S
  <2> QED
    BY <1>1, AppendProperties
<1> QED
  BY <1>1, <1>2 DEF Text

LEMMA LeastOf ==
  ASSUME NEW S \in SUBSET Nat, S # {}
  PROVE  Min(S) \in S /\ \A k \in S : Min(S) <= k
<1>1. \E x \in S : \A y \in S : x <= y
  BY LeastIs
<1> QED
  BY <1>1 DEF Min

\* Where a line ends.
LEMMA LineIs ==
  ASSUME file \in Seq(STRING), NEW i \in DOMAIN Text
  PROVE  LET e == Until(Text, i, {"\n"})
         IN  /\ e \in i..Len(Text) /\ Text[e] \in {"\n", NUL}
             /\ \A k \in i..e - 1 : Text[k] # "\n" /\ Text[k] # NUL
             /\ LineOf(i) = i..e - 1
<1> DEFINE S == {k \in i..Len(Text) : Text[k] \in {"\n"} \cup {NUL}}
           e == Until(Text, i, {"\n"})
<1>1. Len(Text) \in Nat /\ i \in 1..Len(Text) /\ Text[Len(Text)] = NUL
  BY TextIs
<1>2. S \in SUBSET Nat /\ Len(Text) \in S
  BY <1>1
<1>3. e = Min(S)
  BY DEF Until
<1>4. e \in S /\ \A k \in S : e <= k
  <2> HIDE DEF S, e
  <2> QED
    BY <1>2, <1>3, LeastOf
<1>5. \A k \in i..e - 1 : k \in i..Len(Text) /\ ~(e <= k)
  BY <1>1, <1>4
<1>6. \A k \in i..e - 1 : k \notin S
  BY <1>4, <1>5
<1>7. LineOf(i) = i..e - 1
  BY DEF LineOf
<1>8. /\ e \in i..Len(Text) /\ Text[e] \in {"\n", NUL}
      /\ \A k \in i..e - 1 : Text[k] # "\n" /\ Text[k] # NUL
  <2> HIDE DEF e
  <2> QED
    BY <1>4, <1>5, <1>6
<1> QED
  BY <1>7, <1>8

\* A directive is where a line begins, and ends before the text does.
LEMMA DirectiveIs ==
  ASSUME file \in Seq(STRING), NEW i \in DOMAIN Text,
         NEW words \in SUBSET {"ifdef", "ifndef", "endif"}, Directive(Text, i, words)
  PROVE  /\ i + 2 <= Len(Text) /\ i \in DOMAIN file
         /\ i = 1 \/ (i - 1 \in DOMAIN Text /\ Text[i - 1] = "\n")
<1>1. Len(Text) \in Nat /\ DOMAIN Text = 1..Len(Text) /\ Text[Len(Text)] = NUL
      /\ DOMAIN file = 1..Len(Text) - 1
  BY TextIs
<1>2. Text[i] = "%" /\ (i = 1 \/ Text[i - 1] = "\n") /\ Text[i + 1] \in words
  BY DEF Directive
<1>3. i # Len(Text) /\ i + 1 # Len(Text)
  BY <1>1, <1>2 DEF NUL
<1> QED
  BY <1>1, <1>2, <1>3

LEMMA DirectivesAre ==
  ASSUME file \in Seq(STRING)
  PROVE  /\ Directives \in SUBSET DOMAIN Text /\ Directives \in SUBSET Nat
         /\ Ifs \in SUBSET DOMAIN file /\ Endifs \in SUBSET DOMAIN file /\ LeftOut \in SUBSET Ifs
         /\ \A i \in DOMAIN Text :
              /\ i \in Ifs <=> Directive(Text, i, {"ifdef", "ifndef"})
              /\ i \in Endifs <=> Directive(Text, i, {"endif"})
<1>1. DOMAIN file \in SUBSET DOMAIN Text /\ DOMAIN file \in SUBSET Nat
  BY TextIs
<1>2. \A i \in DOMAIN Text : Directive(Text, i, {"ifdef", "ifndef"}) => i \in DOMAIN file
  BY DirectiveIs
<1>3. \A i \in DOMAIN Text : Directive(Text, i, {"endif"}) => i \in DOMAIN file
  BY DirectiveIs
<1> QED
  BY <1>1, <1>2, <1>3 DEF Directives, Ifs, Endifs, LeftOut

\* Where a line begins, nothing is gone that is to come.
LEMMA NothingGoneAhead ==
  ASSUME file \in Seq(STRING), NEW i \in Nat, NEW b \in Nat, b <= i, Settled(b),
         i + 1 \in DOMAIN Text, i = 0 \/ Text[i] = "\n", NEW k \in DOMAIN Text, k > i
  PROVE  k \notin Gone(i, b)
<1>1. Len(Text) \in Nat /\ DOMAIN Text = 1..Len(Text)
  BY TextIs
<1>2. ASSUME NEW d \in Directives, d <= i
      PROVE  k \notin LineOf(d)
  <2> DEFINE e == Until(Text, d, {"\n"})
  <2>1. d \in DOMAIN Text /\ d \in Nat \ {0}
    BY <1>1, DirectivesAre
  <2>2. e \in d..Len(Text) /\ (\A j \in d..e - 1 : Text[j] # "\n") /\ LineOf(d) = d..e - 1
    BY <2>1, LineIs
  <2> HIDE DEF e
  <2>3. Text[i] = "\n" /\ i \in Nat
    BY <1>2, <2>1
  <2>4. ~(i <= e - 1)
    BY <1>1, <1>2, <2>1, <2>2, <2>3
  <2> QED
    BY <1>1, <2>2, <2>4
<1>3. ASSUME NEW j \in LeftOut, j <= b
      PROVE  k \notin j..Min(EndsOf(j))
  <2>1. Min(EndsOf(j)) <= b /\ EndsOf(j) # {}
    BY <1>3 DEF Settled
  <2>2. j \in Nat /\ EndsOf(j) \in SUBSET Nat
    <3>1. j \in Nat
      BY DirectivesAre DEF Directives
    <3>2. EndsOf(j) \in SUBSET Endifs
      BY <3>1, EndsAre
    <3> QED
      BY <3>1, <3>2, DirectivesAre DEF Directives
  <2>3. Min(EndsOf(j)) \in Nat
    BY <2>1, <2>2, LeastOf
  <2> QED
    BY <1>1, <2>1, <2>3
<1> QED
  BY <1>2, <1>3 DEF Gone

LEMMA ShownIs ==
  ASSUME NEW G
  PROVE  /\ DOMAIN Shown(G) = DOMAIN Text
         /\ \A k \in DOMAIN Text : /\ k \notin G => Shown(G)[k] = Text[k]
                                   /\ Shown(G)[k] = "\n" <=> Text[k] = "\n"
<1>1. Blank # "\n"
  BY DEF Blank
<1> QED
  BY <1>1 DEF Shown

\* What is blanked is gone, too.
LEMMA BlankedIsGone ==
  ASSUME NEW G, NEW from, NEW to, NEW H, H = G \cup (from..to)
  PROVE  Blanked(Shown(G), from, to) = Shown(H)
<1>1. Blank # "\n"
  BY DEF Blank
<1>2. \A k \in DOMAIN Text :
        (IF k \in from..to /\ Shown(G)[k] # "\n" THEN Blank ELSE Shown(G)[k])
        = (IF k \in H /\ Text[k] # "\n" THEN Blank ELSE Text[k])
  BY <1>1 DEF Shown
<1>3. DOMAIN Shown(G) = DOMAIN Text
  BY ShownIs
<1> QED
  BY <1>2, <1>3 DEF Blanked, Shown

\* What is found ahead of a place depends on what is ahead of it.
AlikeFrom(S, t, u, m, n) ==
  /\ n \in Nat /\ Len(t) = n /\ Len(u) = n /\ m \in 1..n /\ m + 2 <= n /\ u[n] = NUL
  /\ \A k \in m..n : t[k] = u[k] /\ u[k] \in S

LEMMA FoundAhead ==
  ASSUME NEW S, NEW t, NEW u, NEW n, NEW m, AlikeFrom(S, t, u, m, n)
  PROVE  /\ Until(t, m, {"\n"}) = Until(u, m, {"\n"})
         /\ MacroAt(t, m) = MacroAt(u, m)
<1>0. /\ n \in Nat /\ Len(t) = n /\ Len(u) = n /\ m \in 1..n /\ m + 2 <= n /\ u[n] = NUL
      /\ \A k \in m..n : t[k] = u[k] /\ u[k] \in S
  BY DEF AlikeFrom
<1>1. \A j \in m..n : \A stops : Until(t, j, stops) = Until(u, j, stops)
  <2> SUFFICES ASSUME NEW j \in m..n, NEW stops
               PROVE  Until(t, j, stops) = Until(u, j, stops)
    OBVIOUS
  <2>1. {k \in j..n : t[k] \in stops \cup {NUL}} = {k \in j..n : u[k] \in stops \cup {NUL}}
    BY <1>0
  <2> QED
    BY Zenon, <1>0, <2>1 DEF Until
<1> DEFINE P(x) == {k \in m + 2..n : x[k] \notin Spaces}
           j == Min(P(u))
           e == Until(u, j, Spaces) - 1
<1>2. Past(t, m + 2, Spaces) = j /\ Past(u, m + 2, Spaces) = j
  <2>1. P(t) = P(u)
    BY <1>0
  <2> QED
    BY Zenon, <1>0, <2>1 DEF Past
<1>3. NUL \notin Spaces
  BY DEF NUL, Spaces, Blank
<1>4. j \in m + 2..n
  <2>1. P(u) \in SUBSET Nat /\ n \in P(u)
    BY <1>0, <1>3
  <2>2. j \in P(u)
    <3> HIDE DEF P
    <3> QED
      BY <2>1, LeastOf
  <2> QED
    BY <1>0, <2>2
<1> HIDE DEF j
<1>5. Until(u, j, Spaces) \in j..n
  <2> DEFINE Q == {k \in j..n : u[k] \in Spaces \cup {NUL}}
  <2>1. Q \in SUBSET Nat /\ n \in Q
    BY <1>0, <1>4
  <2>2. Min(Q) \in Q
    <3> HIDE DEF Q
    <3> QED
      BY <2>1, LeastOf
  <2>3. Until(u, j, Spaces) = Min(Q)
    BY <1>0 DEF Until
  <2> QED
    BY <2>2, <2>3
<1>6. Until(t, j, Spaces) = Until(u, j, Spaces)
  BY <1>0, <1>1, <1>4
<1>7. SubSeq(t, j, e) = SubSeq(u, j, e)
  <2>1. e \in Int /\ j \in Int /\ \A k \in j..e : k \in m..n
    BY <1>0, <1>4, <1>5
  <2> HIDE DEF e
  <2>2. \A k \in j..e : t[k] \in S /\ u[k] \in S /\ t[k] = u[k]
    BY <1>0, <2>1
  <2>3. /\ SubSeq(t, j, e) \in Seq(S)
        /\ Len(SubSeq(t, j, e)) = IF j <= e THEN e - j + 1 ELSE 0
        /\ \A i \in 1..e - j + 1 : SubSeq(t, j, e)[i] = t[j + i - 1]
    BY <2>1, <2>2, SubSeqProperties
  <2>4. /\ SubSeq(u, j, e) \in Seq(S)
        /\ Len(SubSeq(u, j, e)) = IF j <= e THEN e - j + 1 ELSE 0
        /\ \A i \in 1..e - j + 1 : SubSeq(u, j, e)[i] = u[j + i - 1]
    BY <2>1, <2>2, SubSeqProperties
  <2>5. \A i \in 1..Len(SubSeq(t, j, e)) : SubSeq(t, j, e)[i] = SubSeq(u, j, e)[i]
    <3> SUFFICES ASSUME NEW i \in 1..Len(SubSeq(t, j, e))
                 PROVE  SubSeq(t, j, e)[i] = SubSeq(u, j, e)[i]
      OBVIOUS
    <3>1. i \in 1..e - j + 1 /\ j + i - 1 \in j..e
      BY <2>1, <2>3
    <3> QED
      BY <2>2, <2>3, <2>4, <3>1
  <2> QED
    BY <2>3, <2>4, <2>5, SeqEqual
<1>8. MacroAt(t, m) = SubSeq(t, j, Until(t, j, Spaces) - 1) /\ MacroAt(u, m) = SubSeq(u, j, e)
  BY Zenon, <1>2 DEF MacroAt
<1>9. MacroAt(t, m) = MacroAt(u, m)
  BY Zenon, <1>6, <1>7, <1>8
<1> QED
  BY <1>0, <1>1, <1>9

\* The code finds the directives of the file in what it has blanked.
LEMMA DirectiveSeen ==
  ASSUME file \in Seq(STRING), NEW i \in Nat, NEW b \in Nat, b <= i, Settled(b),
         i + 1 \in DOMAIN Text, NEW t, t = Shown(Gone(i, b))
  PROVE  LET m == i + 1
         IN  /\ m \in Ifs <=> Directive(t, m, {"ifdef", "ifndef"})
             /\ m \in Endifs <=> Directive(t, m, {"endif"})
             /\ m \in Directives => /\ Until(t, m, {"\n"}) - 1 = Until(Text, m, {"\n"}) - 1
                                    /\ MacroAt(t, m) = MacroAt(Text, m)
                                    /\ t[m + 1] = Text[m + 1]
<1> DEFINE m == i + 1
           n == Len(Text)
           S == STRING \cup {NUL, Blank}
<1>1. n \in Nat \ {0} /\ DOMAIN Text = 1..n /\ m \in 1..n /\ Text[n] = NUL
  BY TextIs
<1>2. \A k \in 1..n : Text[k] \in S
  <2>1. /\ \A k \in DOMAIN file : Text[k] = file[k]
        /\ DOMAIN file = 1..n - 1
    BY TextIs
  <2>2. \A k \in DOMAIN file : file[k] \in STRING
    BY ElementOfSeq
  <2> QED
    BY <1>1, <2>1, <2>2
<1>3. Len(t) = n
  <2>1. t \in [1..n -> S]
    BY <1>1, <1>2 DEF Shown
  <2>2. t \in Seq(S)
    BY <1>1, <2>1
  <2> HIDE DEF n, S
  <2> QED
    BY <1>1, <2>1, <2>2
<1>4. /\ \A k \in 1..n : t[k] = "\n" <=> Text[k] = "\n"
      /\ \A k \in 1..n : k \notin Gone(i, b) => t[k] = Text[k]
  BY <1>1, ShownIs
<1>5. ASSUME m = 1 \/ Text[m - 1] = "\n"
      PROVE  \A k \in m..n : t[k] = Text[k]
  <2> SUFFICES ASSUME NEW k \in m..n
               PROVE  t[k] = Text[k]
    OBVIOUS
  <2>1. k \in DOMAIN Text /\ k > i /\ k \in 1..n /\ (i = 0 \/ Text[i] = "\n")
    BY <1>1, <1>5
  <2>2. k \notin Gone(i, b)
    BY <2>1, NothingGoneAhead
  <2> QED
    BY <1>4, <2>1, <2>2
<1>6. (m = 1 \/ t[m - 1] = "\n") <=> (m = 1 \/ Text[m - 1] = "\n")
  <2>1. m # 1 => m - 1 \in 1..n
    BY <1>1
  <2> QED
    BY <1>4, <2>1
<1>7. ASSUME NEW words \in SUBSET {"ifdef", "ifndef", "endif"}
      PROVE  Directive(t, m, words) <=> Directive(Text, m, words)
  <2>1. CASE ~(m = 1 \/ Text[m - 1] = "\n")
    BY <1>6, <2>1 DEF Directive
  <2>2. CASE m = 1 \/ Text[m - 1] = "\n"
    <3>1. \A k \in m..n : t[k] = Text[k]
      BY <1>5, <2>2
    <3>2. CASE m + 2 <= n
      <4>1. t[m] = Text[m] /\ t[m + 1] = Text[m + 1] /\ t[m + 2] = Text[m + 2]
        <5> HIDE DEF m, n
        <5>1. m \in m..n /\ m + 1 \in m..n /\ m + 2 \in m..n
          BY <1>1, <3>2
        <5> QED
          BY <3>1, <5>1
      <4> QED
        BY <1>6, <4>1 DEF Directive
    <3>3. CASE ~(m + 2 <= n)
      <4>1. ~Directive(Text, m, words)
        BY <1>1, <3>3, DirectiveIs
      <4>2. ~Directive(t, m, words)
        <5> HIDE DEF m, n
        <5>1. m = n \/ m + 1 = n
          BY <1>1, <3>3
        <5>2. t[n] = NUL /\ NUL # "%" /\ NUL \notin words
          BY <1>1, <3>1 DEF NUL
        <5> QED
          BY <5>1, <5>2 DEF Directive
      <4> QED
        BY <4>1, <4>2
    <3> QED
      BY <3>2, <3>3
  <2> QED
    BY <2>1, <2>2
<1>8. /\ m \in Ifs <=> Directive(t, m, {"ifdef", "ifndef"})
      /\ m \in Endifs <=> Directive(t, m, {"endif"})
  <2>1. /\ m \in Ifs <=> Directive(Text, m, {"ifdef", "ifndef"})
        /\ m \in Endifs <=> Directive(Text, m, {"endif"})
    BY <1>1, DirectivesAre
  <2>2. {"ifdef", "ifndef"} \in SUBSET {"ifdef", "ifndef", "endif"}
        /\ {"endif"} \in SUBSET {"ifdef", "ifndef", "endif"}
    OBVIOUS
  <2> HIDE DEF m
  <2> QED
    BY <1>7, <2>1, <2>2
<1>9. ASSUME m \in Directives
      PROVE  /\ Until(t, m, {"\n"}) = Until(Text, m, {"\n"})
             /\ MacroAt(t, m) = MacroAt(Text, m)
             /\ t[m + 1] = Text[m + 1]
  <2>1. \E words \in SUBSET {"ifdef", "ifndef", "endif"} : Directive(Text, m, words)
    <3>1. Directive(Text, m, {"ifdef", "ifndef"}) \/ Directive(Text, m, {"endif"})
      BY <1>1, <1>9, DirectivesAre DEF Directives
    <3> HIDE DEF m
    <3> QED
      BY <3>1
  <2>2. m + 2 <= n /\ (m = 1 \/ Text[m - 1] = "\n")
    BY <1>1, <2>1, DirectiveIs
  <2>3. \A k \in m..n : t[k] = Text[k]
    BY <1>5, <2>2
  <2> HIDE DEF m, n, S
  <2>4. \A k \in m..n : t[k] = Text[k] /\ Text[k] \in S
    BY <1>1, <1>2, <2>3
  <2>5. Len(Text) = n
    BY DEF n
  <2>6. /\ Until(t, m, {"\n"}) = Until(Text, m, {"\n"})
        /\ MacroAt(t, m) = MacroAt(Text, m)
    <3>1. PICK u : u = Text
      OBVIOUS
    <3>2. n \in Nat /\ m \in 1..n /\ u[n] = NUL /\ Len(u) = n
      BY <1>1, <2>5, <3>1
    <3>3. \A k \in m..n : t[k] = u[k] /\ u[k] \in S
      BY <2>4, <3>1
    <3>4. /\ Until(t, m, {"\n"}) = Until(u, m, {"\n"})
          /\ MacroAt(t, m) = MacroAt(u, m)
      <4>1. AlikeFrom(S, t, u, m, n)
        BY <1>3, <2>2, <3>2, <3>3 DEF AlikeFrom
      <4> QED
        BY <4>1, FoundAhead
    <3> QED
      BY <3>1, <3>4
  <2>7. m + 1 \in m..n
    BY <1>1, <2>2
  <2> QED
    BY <2>3, <2>6, <2>7
<1> QED
  BY <1>8, <1>9

\* A place where nothing is leaves all as it is; a directive takes its line.
LEMMA GoneNext ==
  ASSUME file \in Seq(STRING), NEW i \in Nat, NEW b, i + 1 \in DOMAIN Text
  PROVE  LET m == i + 1
         IN  /\ m \notin Directives => Gone(m, b) = Gone(i, b)
             /\ m \in Directives => Gone(m, b) = Gone(i, b) \cup (m..Until(Text, m, {"\n"}) - 1)
<1> DEFINE m == i + 1
<1>1. Directives \in SUBSET Nat /\ DOMAIN Text = 1..Len(Text) /\ Len(Text) \in Nat
  BY DirectivesAre, TextIs
<1>2. \A d \in Directives : d <= m <=> d <= i \/ d = m
  BY <1>1
<1>3. CASE m \notin Directives
  <2>1. \A d \in Directives : d <= m <=> d <= i
    BY <1>2, <1>3
  <2> HIDE DEF m
  <2>2. Gone(m, b) = Gone(i, b)
    BY <2>1 DEF Gone
  <2> QED
    BY <1>3, <2>2 DEF m
<1>4. CASE m \in Directives
  <2> DEFINE e == Until(Text, m, {"\n"})
  <2>1. e \in m..Len(Text) /\ LineOf(m) = m..e - 1
    BY LineIs
  <2>2. m..e - 1 \in SUBSET DOMAIN Text
    BY <1>1, <2>1
  <2> HIDE DEF m, e
  <2>3. \A k \in DOMAIN Text : (\E d \in Directives : d <= m /\ k \in LineOf(d))
                              <=> (\E d \in Directives : d <= i /\ k \in LineOf(d)) \/ k \in m..e - 1
    BY <1>2, <1>4, <2>1
  <2>4. Gone(m, b) = Gone(i, b) \cup (m..e - 1)
    BY <2>2, <2>3 DEF Gone
  <2> QED
    BY <1>4, <2>4 DEF m, e
<1> QED
  BY <1>3, <1>4

\* A place where no block is left out ends none.
LEMMA GoneFurther ==
  ASSUME file \in Seq(STRING), NEW i \in Nat, NEW x, i + 1 \notin LeftOut
  PROVE  /\ Gone(x, i + 1) = Gone(x, i)
         /\ Settled(i) => Settled(i + 1)
<1> DEFINE m == i + 1
<1>1. LeftOut \in SUBSET Nat /\ \A j \in LeftOut : j <= m <=> j <= i
  BY DirectivesAre DEF Directives
<1>2. Settled(i) => Settled(m)
  <2> SUFFICES ASSUME Settled(i), NEW j \in LeftOut, j <= m
               PROVE  EndsOf(j) # {} /\ Min(EndsOf(j)) <= m
    BY DEF Settled
  <2>1. EndsOf(j) # {} /\ Min(EndsOf(j)) <= i /\ j \in Nat
    BY <1>1 DEF Settled
  <2>2. EndsOf(j) \in SUBSET Nat
    BY <2>1, EndsAre, DirectivesAre DEF Directives
  <2>3. Min(EndsOf(j)) \in Nat
    BY <2>1, <2>2, LeastOf
  <2> QED
    BY <2>1, <2>3
<1> HIDE DEF m
<1>3. Gone(x, m) = Gone(x, i)
  BY <1>1 DEF Gone
<1> QED
  BY <1>2, <1>3 DEF m

\* Where a block that is left out ends, so do all within it.
LEMMA BlockEnds ==
  ASSUME file \in Seq(STRING), NEW i \in Nat, i + 1 \in Endifs,
         NEW s \in LeftOut, s <= i, Settled(s - 1), Depth(s, i) = 0,
         \A j \in s..i : Depth(s, j) >= 0
  PROVE  LET m == i + 1
         IN  /\ Settled(m)
             /\ Gone(m, m) = Gone(i, s - 1) \cup (s..Until(Text, m, {"\n"}) - 1)
<1> DEFINE m == i + 1
           e == Until(Text, m, {"\n"})
<1>1. LeftOut \in SUBSET Nat /\ Endifs \in SUBSET Nat /\ LeftOut \in SUBSET Ifs
  BY DirectivesAre DEF Directives
<1>2. s \in Nat /\ m \in Nat /\ s < m /\ m \notin LeftOut
  BY <1>1, DirectivesApart
<1>3. Depth(s, m) = -1
  BY <1>2, DepthSteps
<1>4. ASSUME NEW j \in LeftOut, j <= m, s <= j
      PROVE  EndsOf(j) # {} /\ Min(EndsOf(j)) <= m
  <2>1. j \in Nat /\ j <= i /\ j <= m /\ s <= m
    BY <1>1, <1>2, <1>4
  <2>2. Depth(s, m) = Depth(s, j) + Depth(j, m) /\ Depth(s, j) >= 0
    BY <1>2, <1>4, <2>1, DepthAdds
  <2>3. Depth(s, j) \in Int /\ Depth(j, m) \in Int
    BY <1>2, <1>4, <2>1, DepthSteps
  <2>4. Depth(j, m) < 0
    BY <1>3, <2>2, <2>3
  <2>5. PICK x \in EndsOf(j) : x <= m
    BY <1>2, <2>1, <2>4, LeftHasEnded
  <2>6. EndsOf(j) \in SUBSET Nat
    BY <1>1, <2>1, EndsAre
  <2>7. Min(EndsOf(j)) \in Nat /\ Min(EndsOf(j)) <= x /\ x \in Nat
    BY <2>5, <2>6, LeastOf
  <2> QED
    BY <1>2, <2>5, <2>7
<1>5. ASSUME NEW j \in LeftOut, ~(s <= j)
      PROVE  EndsOf(j) # {} /\ Min(EndsOf(j)) <= s - 1 /\ Min(EndsOf(j)) \in Nat /\ j <= s - 1
  <2>1. j \in Nat /\ j <= s - 1
    BY <1>1, <1>2, <1>5
  <2>2. EndsOf(j) # {} /\ Min(EndsOf(j)) <= s - 1
    BY <2>1 DEF Settled
  <2>3. EndsOf(j) \in SUBSET Nat
    BY <1>1, <2>1, EndsAre
  <2>4. Min(EndsOf(j)) \in Nat
    BY <2>2, <2>3, LeastOf
  <2> QED
    BY <2>1, <2>2, <2>4
<1>6. Settled(m)
  <2> SUFFICES ASSUME NEW j \in LeftOut, j <= m
               PROVE  EndsOf(j) # {} /\ Min(EndsOf(j)) <= m
    BY DEF Settled
  <2>1. CASE s <= j
    BY <1>4, <2>1
  <2>2. CASE ~(s <= j)
    BY <1>2, <1>5, <2>2
  <2> QED
    BY <2>1, <2>2
\* The block ends here, and not before.
<1>7. Min(EndsOf(s)) = m
  <2>1. m \in EndsOf(s)
    BY <1>2, EndsAre
  <2>2. EndsOf(s) \in SUBSET Nat
    BY <1>1, <1>2, EndsAre
  <2>3. ASSUME NEW x \in EndsOf(s)
        PROVE  m <= x
    <3>1. x \in Endifs /\ x > s /\ Depth(s, x - 1) = 0 /\ x \in Nat
      BY <1>2, <2>2, EndsAre
    <3>2. Depth(s, x) = -1
      <4> DEFINE y == x - 1
      <4>1. y \in Nat /\ s <= y /\ y + 1 = x
        BY <1>2, <3>1
      <4>2. Depth(s, y) = 0 /\ y + 1 \in Endifs
        BY <3>1, <4>1
      <4> HIDE DEF y
      <4>3. Depth(s, y + 1) = Depth(s, y) - 1
        BY <1>2, <4>1, <4>2, DepthSteps
      <4> QED
        BY <4>1, <4>2, <4>3
    <3>3. ~(x <= i)
      <4> SUFFICES ASSUME x <= i
                   PROVE  FALSE
        OBVIOUS
      <4>1. x \in s..i
        BY <1>2, <3>1
      <4>2. Depth(s, x) >= 0
        BY <4>1
      <4> QED
        BY <3>2, <4>2
    <3> QED
      BY <3>1, <3>3
  <2>4. Min(EndsOf(s)) \in EndsOf(s) /\ Min(EndsOf(s)) <= m
    BY <2>1, <2>2, LeastOf
  <2> HIDE DEF m
  <2> QED
    BY <1>2, <2>2, <2>3, <2>4
<1>8. m \in DOMAIN Text /\ m \in Directives /\ DOMAIN Text = 1..Len(Text) /\ Len(Text) \in Nat
      /\ s \in DOMAIN Text
  BY <1>1, DirectivesAre, TextIs DEF Directives
<1>9. e \in m..Len(Text)
  BY <1>8, LineIs
<1>10. Gone(m, m) = Gone(i, m) \cup (m..e - 1)
  BY <1>8, GoneNext
<1>11. ASSUME NEW k \in DOMAIN Text
       PROVE  (\E j \in LeftOut : j <= m /\ k \in j..Min(EndsOf(j)))
              <=> (\E j \in LeftOut : j <= s - 1 /\ k \in j..Min(EndsOf(j))) \/ k \in s..m
  <2>1. ASSUME NEW j \in LeftOut, j <= m, k \in j..Min(EndsOf(j)), ~(j <= s - 1)
        PROVE  k \in s..m
    <3>1. s <= j /\ j \in Nat
      BY <1>1, <1>2, <2>1
    <3>2. Min(EndsOf(j)) <= m
      BY <1>4, <2>1, <3>1
    <3>3. EndsOf(j) \in SUBSET Nat /\ EndsOf(j) # {}
      BY <1>1, <1>4, <2>1, <3>1, EndsAre
    <3>4. Min(EndsOf(j)) \in Nat
      BY <3>3, LeastOf
    <3> HIDE DEF m
    <3> QED
      BY <1>2, <1>8, <2>1, <3>1, <3>2, <3>4
  <2>2. ASSUME k \in s..m
        PROVE  s \in LeftOut /\ s <= m /\ k \in s..Min(EndsOf(s))
    BY <1>2, <1>7, <2>2
  <2>3. \A j \in LeftOut : j <= s - 1 => j <= m
    BY <1>1, <1>2
  <2> HIDE DEF m
  <2> QED
    BY <2>1, <2>2, <2>3
<1> HIDE DEF m, e
<1>12. Gone(i, m) = Gone(i, s - 1) \cup (s..m)
  <2>1. s..m \in SUBSET DOMAIN Text
    BY <1>8, <1>2
  <2> QED
    BY <1>11, <2>1 DEF Gone
<1>13. (s..m) \cup (m..e - 1) = s..e - 1 \/ e = m
  BY <1>2, <1>8, <1>9
<1>14. e # m
  <2>1. Text[m] # "\n" /\ Text[m] # NUL
    <3>1. Text[m] = "%"
      BY <1>8, DirectivesAre DEF Directives, Directive, m
    <3> QED
      BY <3>1 DEF NUL
  <2>2. Text[e] \in {"\n", NUL}
    BY <1>8, LineIs DEF e
  <2> QED
    BY <2>1, <2>2
<1>15. Gone(m, m) = Gone(i, s - 1) \cup (s..e - 1)
  BY <1>10, <1>12, <1>13, <1>14
<1> QED
  BY <1>6, <1>15 DEF m, e

\* What the code knows when it has looked at i places.
Seen(i, acc) ==
  LET b == IF acc.exclude = 0 THEN i ELSE acc.start - 1
  IN  /\ DOMAIN acc = {"z", "exclude", "start"} /\ acc.exclude \in Nat
      /\ b \in Nat /\ b <= i /\ acc.z = Shown(Gone(i, b)) /\ Settled(b)
      /\ acc.exclude # 0 =>
           /\ acc.start \in LeftOut /\ acc.start <= i
           /\ Depth(acc.start, i) = acc.exclude - 1
           /\ \A j \in acc.start..i : Depth(acc.start, j) >= 0

LEMMA PreprocessCases ==
  ASSUME NEW acc, DOMAIN acc = {"z", "exclude", "start"}, NEW i
  PROVE  LET t == acc.z
             line == Until(t, i, {"\n"}) - 1
             x == acc.exclude
             r == PreprocessAt(acc, i)
         IN  /\ Directive(t, i, {"endif"}) =>
                  /\ DOMAIN r = {"z", "exclude", "start"} /\ r.start = acc.start
                  /\ r.z = IF x = 1 THEN Blanked(t, acc.start, line) ELSE Blanked(t, i, line)
                  /\ r.exclude = IF x > 0 THEN x - 1 ELSE 0
             /\ ~Directive(t, i, {"endif"}) /\ Directive(t, i, {"ifdef", "ifndef"}) =>
                  /\ DOMAIN r = {"z", "exclude", "start"} /\ r.z = Blanked(t, i, line)
                  /\ r.exclude = IF x > 0 THEN x + 1 ELSE IF Holds(t, i) THEN 0 ELSE 1
                  /\ r.start = IF x = 0 THEN i ELSE acc.start
             /\ ~Directive(t, i, {"endif"}) /\ ~Directive(t, i, {"ifdef", "ifndef"}) => r = acc
BY DEF PreprocessAt

\* From one place to the next.
LEMMA SeenNext ==
  ASSUME file \in Seq(STRING), settings.azDefine = Given,
         NEW i \in Nat, i + 1 \in DOMAIN Text, NEW acc, Seen(i, acc)
  PROVE  Seen(i + 1, PreprocessAt(acc, i + 1))
<1> DEFINE m == i + 1
           t == acc.z
           x == acc.exclude
           s == acc.start
           b == IF x = 0 THEN i ELSE s - 1
           line == Until(t, m, {"\n"}) - 1
           r == PreprocessAt(acc, m)
<1>1. /\ DOMAIN acc = {"z", "exclude", "start"} /\ x \in Nat /\ b \in Nat /\ b <= i
      /\ t = Shown(Gone(i, b)) /\ Settled(b)
      /\ x # 0 => /\ s \in LeftOut /\ s <= i /\ Depth(s, i) = x - 1
                  /\ \A j \in s..i : Depth(s, j) >= 0
  BY DEF Seen
<1>2. /\ m \in Ifs <=> Directive(t, m, {"ifdef", "ifndef"})
      /\ m \in Endifs <=> Directive(t, m, {"endif"})
      /\ m \in Directives => /\ line = Until(Text, m, {"\n"}) - 1
                             /\ MacroAt(t, m) = MacroAt(Text, m)
                             /\ t[m + 1] = Text[m + 1]
  BY <1>1, DirectiveSeen
<1>3. /\ m \in Endifs =>
           /\ DOMAIN r = {"z", "exclude", "start"} /\ r.start = s
           /\ r.z = IF x = 1 THEN Blanked(t, s, line) ELSE Blanked(t, m, line)
           /\ r.exclude = IF x > 0 THEN x - 1 ELSE 0
      /\ m \notin Endifs /\ m \in Ifs =>
           /\ DOMAIN r = {"z", "exclude", "start"} /\ r.z = Blanked(t, m, line)
           /\ r.exclude = IF x > 0 THEN x + 1 ELSE IF Holds(t, m) THEN 0 ELSE 1
           /\ r.start = IF x = 0 THEN m ELSE s
      /\ m \notin Endifs /\ m \notin Ifs => r = acc
  BY <1>1, <1>2, PreprocessCases
<1>4. /\ m \notin Directives => Gone(m, b) = Gone(i, b)
      /\ m \in Directives => Gone(m, b) = Gone(i, b) \cup (m..line)
  <2>1. /\ m \notin Directives => Gone(m, b) = Gone(i, b)
        /\ m \in Directives => Gone(m, b) = Gone(i, b) \cup (m..Until(Text, m, {"\n"}) - 1)
    <3> HIDE DEF b
    <3> QED
      BY GoneNext
  <2> HIDE DEF b, m, line
  <2> QED
    BY <1>2, <2>1
<1>5. LeftOut \in SUBSET Ifs /\ LeftOut \in SUBSET Nat /\ m \in Nat /\ m = i + 1
  BY DirectivesAre DEF Directives
<1>6. m \notin LeftOut => /\ \A y : Gone(y, m) = Gone(y, i)
                          /\ Settled(i) => Settled(m)
  BY GoneFurther
\* The depth of the block that is left out.
<1>7. x # 0 => /\ s \in Nat /\ Depth(s, i) \in Int
               /\ m \in Ifs => Depth(s, m) = Depth(s, i) + 1
               /\ m \in Endifs => Depth(s, m) = Depth(s, i) - 1
               /\ m \notin Directives => Depth(s, m) = Depth(s, i)
  <2> SUFFICES ASSUME x # 0
               PROVE  /\ s \in Nat /\ Depth(s, i) \in Int
                      /\ m \in Ifs => Depth(s, m) = Depth(s, i) + 1
                      /\ m \in Endifs => Depth(s, m) = Depth(s, i) - 1
                      /\ m \notin Directives => Depth(s, m) = Depth(s, i)
    OBVIOUS
  <2>1. s \in Nat /\ s <= i
    BY <1>1, <1>5
  <2> HIDE DEF s
  <2> QED
    BY <2>1, DepthSteps DEF Directives
\* While a block is left out, and does not end here.
<1>8. ASSUME x # 0, r.exclude # 0, r.exclude - 1 = Depth(s, m), r.start = s, r.exclude \in Nat,
             r.z = Shown(Gone(m, b)), DOMAIN r = {"z", "exclude", "start"}
      PROVE  Seen(m, r)
  <2>1. s <= m /\ b <= m /\ Depth(s, m) >= 0
    <3> HIDE DEF s, b, r
    <3> QED
      BY <1>1, <1>5, <1>7, <1>8
  <2>2. \A j \in s..m : Depth(s, j) >= 0
    <3>1. \A j \in s..m : j \in s..i \/ j = m
      BY <1>5, <1>7, <1>8
    <3> QED
      BY <1>1, <1>8, <2>1, <3>1
  <2>3. (IF r.exclude = 0 THEN m ELSE r.start - 1) = b
    BY <1>8
  <2> HIDE DEF r, b, m
  <2> QED
    BY <1>1, <1>8, <2>1, <2>2, <2>3 DEF Seen
\* While none is, and none begins here.
<1>9. ASSUME r.exclude = 0, r.z = Shown(Gone(m, m)), Settled(m),
             DOMAIN r = {"z", "exclude", "start"}
      PROVE  Seen(m, r)
  <2> HIDE DEF r, m
  <2> QED
    BY <1>5, <1>9 DEF Seen
<1> SUFFICES Seen(m, r)
  OBVIOUS
<1> HIDE DEF r
<1>10. CASE m \in Endifs
  <2>1. m \in Directives /\ m \notin LeftOut
    BY <1>5, <1>10, DirectivesApart DEF Directives
  <2>2. /\ DOMAIN r = {"z", "exclude", "start"} /\ r.start = s
        /\ r.z = IF x = 1 THEN Blanked(t, s, line) ELSE Blanked(t, m, line)
        /\ r.exclude = IF x > 0 THEN x - 1 ELSE 0
    BY <1>3, <1>10
  <2>3. Gone(m, b) = Gone(i, b) \cup (m..line)
    BY <1>4, <2>1
  <2>4. CASE x = 0
    <3>1. b = i /\ r.exclude = 0 /\ r.z = Blanked(t, m, line)
      BY <2>2, <2>4
    <3>2. Gone(m, m) = Gone(i, i) \cup (m..line)
      BY <1>6, <2>1, <2>3, <3>1
    <3>3. t = Shown(Gone(i, i)) /\ Settled(m)
      BY <1>1, <1>6, <2>1, <3>1
    <3>4. r.z = Shown(Gone(m, m))
      <4> HIDE DEF t, m, line
      <4> QED
        BY <3>1, <3>2, <3>3, BlankedIsGone
    <3> QED
      BY <1>9, <2>2, <3>1, <3>3, <3>4
  <2>5. CASE x = 1
    <3>1. b = s - 1 /\ r.exclude = 0 /\ r.z = Blanked(t, s, line)
      BY <2>2, <2>5
    <3>2. /\ s \in LeftOut /\ s <= i /\ Settled(s - 1) /\ Depth(s, i) = 0
          /\ \A j \in s..i : Depth(s, j) >= 0
      BY <1>1, <2>5, <3>1
    <3>3. /\ Settled(m)
          /\ Gone(m, m) = Gone(i, s - 1) \cup (s..line)
      <4>1. /\ Settled(m)
            /\ Gone(m, m) = Gone(i, s - 1) \cup (s..Until(Text, m, {"\n"}) - 1)
        BY <1>10, <3>2, BlockEnds
      <4> HIDE DEF line, m
      <4> QED
        BY <1>2, <2>1, <4>1
    <3>4. r.z = Shown(Gone(m, m))
      <4>1. t = Shown(Gone(i, s - 1))
        BY <1>1, <3>1
      <4> HIDE DEF t, m, line, s
      <4> QED
        BY <3>1, <3>3, <4>1, BlankedIsGone
    <3> QED
      BY <1>9, <2>2, <3>1, <3>3, <3>4
  <2>6. CASE x # 0 /\ x # 1
    <3>1. r.exclude = x - 1 /\ r.z = Blanked(t, m, line) /\ r.exclude # 0 /\ r.exclude \in Nat
      BY <1>1, <2>2, <2>6
    <3>2. r.z = Shown(Gone(m, b))
      <4> HIDE DEF t, m, line, b
      <4> QED
        BY <1>1, <2>3, <3>1, BlankedIsGone
    <3>3. r.exclude - 1 = Depth(s, m)
      BY <1>1, <1>7, <1>10, <2>6, <3>1
    <3> QED
      BY <1>8, <2>2, <2>6, <3>1, <3>2, <3>3
  <2> QED
    BY <2>4, <2>5, <2>6
<1>11. CASE m \in Ifs
  <2>1. m \in Directives /\ m \notin Endifs
    BY <1>11, DirectivesApart DEF Directives
  <2>2. /\ DOMAIN r = {"z", "exclude", "start"} /\ r.z = Blanked(t, m, line)
        /\ r.exclude = IF x > 0 THEN x + 1 ELSE IF Holds(t, m) THEN 0 ELSE 1
        /\ r.start = IF x = 0 THEN m ELSE s
    BY <1>3, <1>11, <2>1
  <2>3. Gone(m, b) = Gone(i, b) \cup (m..line)
    BY <1>4, <2>1
  <2>4. r.z = Shown(Gone(m, b))
    <3> HIDE DEF t, m, line, b
    <3> QED
      BY <1>1, <2>2, <2>3, BlankedIsGone
  <2>5. m \in LeftOut <=> ~Holds(t, m)
    BY <1>2, <1>11, <2>1 DEF Holds, LeftOut
  <2>6. CASE x = 0 /\ Holds(t, m)
    <3>1. b = i /\ r.exclude = 0 /\ m \notin LeftOut
      BY <2>2, <2>5, <2>6
    <3>2. Gone(m, m) = Gone(m, b) /\ Settled(m)
      BY <1>1, <1>6, <3>1
    <3> QED
      BY <1>9, <2>2, <2>4, <3>1, <3>2
  <2>7. CASE x = 0 /\ ~Holds(t, m)
    <3>1. b = i /\ r.exclude = 1 /\ r.start = m /\ m \in LeftOut
      BY <2>2, <2>5, <2>7
    <3>2. r.z = Shown(Gone(m, i)) /\ Settled(i)
      BY <1>1, <2>4, <3>1
    <3>3. Depth(m, m) = 0
      BY <1>5, DepthSteps
    <3>4. m - 1 = i /\ \A j \in m..m : j = m
      BY <1>5
    <3> HIDE DEF m
    <3> QED
      BY <1>5, <2>2, <3>1, <3>2, <3>3, <3>4 DEF Seen
  <2>8. CASE x # 0
    <3>1. r.exclude = x + 1 /\ r.start = s /\ r.exclude # 0 /\ r.exclude \in Nat
      BY <1>1, <2>2, <2>8
    <3>2. r.exclude - 1 = Depth(s, m)
      BY <1>1, <1>7, <1>11, <2>8, <3>1
    <3> QED
      BY <1>8, <2>2, <2>4, <2>8, <3>1, <3>2
  <2> QED
    BY <2>6, <2>7, <2>8
<1>12. CASE m \notin Directives
  <2>1. r = acc /\ m \notin LeftOut
    BY <1>3, <1>5, <1>12 DEF Directives
  <2>2. CASE x = 0
    <3>1. b = i /\ Gone(m, m) = Gone(i, i) /\ Settled(m)
      BY <1>1, <1>4, <1>6, <1>12, <2>1, <2>2
    <3> QED
      BY <1>1, <1>9, <2>1, <2>2, <3>1
  <2>3. CASE x # 0
    <3>1. r.exclude - 1 = Depth(s, m) /\ r.z = Shown(Gone(m, b))
      BY <1>1, <1>4, <1>7, <1>12, <2>1, <2>3
    <3> QED
      BY <1>1, <1>8, <2>1, <2>3, <3>1
  <2> QED
    BY <2>2, <2>3
<1> HIDE DEF m
<1> QED
  BY <1>10, <1>11, <1>12 DEF Directives

\* The recursive function of preprocess_input, unfolded.
LEMMA PreprocessIs ==
  ASSUME NEW t, NEW n \in Nat, n = Len(t)
  PROVE  \E f : /\ preprocess_input(t) = f[n]
                /\ f[0] = [z |-> t, exclude |-> 0, start |-> 0]
                /\ \A i \in 1..n : f[i] = PreprocessAt(f[i - 1], i)
<1> DEFINE first == [z |-> t, exclude |-> 0, start |-> 0]
           Right(f, k) == /\ f = [i \in 0..k |-> f[i]] /\ f[0] = first
                          /\ \A i \in 1..k : f[i] = PreprocessAt(f[i - 1], i)
           Fixed(f) == f = [i \in 0..n |-> IF i = 0 THEN first ELSE PreprocessAt(f[i - 1], i)]
           D == {k \in Nat : \E f : Right(f, k)}
<1> HIDE DEF first
<1>1. 0 \in D
  <2> DEFINE f == [i \in 0..0 |-> first]
  <2>1. f[0] = first /\ f = [i \in 0..0 |-> f[i]]
    OBVIOUS
  <2> HIDE DEF f
  <2>2. Right(f, 0)
    BY <2>1
  <2> QED
    BY <2>2
<1>2. ASSUME NEW k \in Nat, k \in D
      PROVE  k + 1 \in D
  <2>1. PICK f : Right(f, k)
    BY <1>2
  <2> DEFINE new == PreprocessAt(f[k], k + 1)
             g == [i \in 0..k + 1 |-> IF i = k + 1 THEN new ELSE f[i]]
  <2> HIDE DEF new
  <2>2. g[k + 1] = new /\ \A i \in 0..k : g[i] = f[i]
    OBVIOUS
  <2>6. g = [i \in 0..k + 1 |-> g[i]]
    OBVIOUS
  <2> HIDE DEF g
  <2>3. ASSUME NEW i \in 1..k + 1
        PROVE  g[i] = PreprocessAt(g[i - 1], i)
    <3>1. CASE i = k + 1
      <4>1. i - 1 = k /\ k \in 0..k
        BY <3>1
      <4> QED
        BY <2>2, <3>1, <4>1 DEF new
    <3>2. CASE i \in 1..k
      <4>1. i - 1 \in 0..k /\ i \in 0..k
        BY <3>2
      <4> QED
        BY <2>1, <2>2, <3>2, <4>1
    <3> QED
      BY <3>1, <3>2
  <2>4. g[0] = first
    BY <2>1, <2>2
  <2>5. Right(g, k + 1)
    BY <2>3, <2>4, <2>6
  <2> HIDE DEF Right
  <2> QED
    BY <2>5
<1>3. PICK f : Right(f, n)
  <2>1. n \in D
    <3> HIDE DEF D
    <3> QED
      BY <1>1, <1>2, Climbing
  <2> HIDE DEF Right
  <2> QED
    BY <2>1
<1>4. Fixed(f)
  <2>1. ASSUME NEW i \in 0..n
        PROVE  f[i] = IF i = 0 THEN first ELSE PreprocessAt(f[i - 1], i)
    <3>1. f[0] = first /\ \A j \in 1..n : f[j] = PreprocessAt(f[j - 1], j)
      BY <1>3
    <3>2. i = 0 \/ i \in 1..n
      OBVIOUS
    <3> HIDE DEF Right
    <3> QED
      BY <3>1, <3>2
  <2> QED
    BY Zenon, <1>3, <2>1
<1> DEFINE h == CHOOSE h : Fixed(h)
<1>5. Fixed(h)
  <2> HIDE DEF Fixed
  <2> QED
    BY <1>4
<1>6. preprocess_input(t) = h[n]
  BY DEF preprocess_input, first
<1>7. \A g : Fixed(g) => g[0] = first /\ \A i \in 1..n : g[i] = PreprocessAt(g[i - 1], i)
  OBVIOUS
<1>8. h[0] = first /\ \A i \in 1..n : h[i] = PreprocessAt(h[i - 1], i)
  <2> HIDE DEF h, Fixed
  <2> QED
    BY <1>5, <1>7
<1> HIDE DEF h
<1> QED
  BY <1>6, <1>8 DEF first

\* What comes of the text of a file.
LEMMA SeenAll ==
  ASSUME file \in Seq(STRING), settings.azDefine = Given
  PROVE  Seen(Len(Text), preprocess_input(Text))
<1> DEFINE n == Len(Text)
<1>1. n \in Nat /\ DOMAIN Text = 1..n
  BY TextIs
<1>2. PICK f : /\ preprocess_input(Text) = f[n]
               /\ f[0] = [z |-> Text, exclude |-> 0, start |-> 0]
               /\ \A i \in 1..n : f[i] = PreprocessAt(f[i - 1], i)
  <2> HIDE DEF n
  <2>1. PICK t : t = Text
    OBVIOUS
  <2>2. n = Len(t)
    BY <2>1 DEF n
  <2>3. \E f : /\ preprocess_input(t) = f[n]
               /\ f[0] = [z |-> t, exclude |-> 0, start |-> 0]
               /\ \A i \in 1..n : f[i] = PreprocessAt(f[i - 1], i)
    BY <1>1, <2>2, PreprocessIs
  <2> QED
    BY Zenon, <2>1, <2>3
<1> HIDE DEF n
<1> DEFINE D == {i \in Nat : i <= n => Seen(i, f[i])}
<1>3. 0 \in D
  <2>1. Directives \in SUBSET 1..n /\ LeftOut \in SUBSET 1..n
    BY <1>1, DirectivesAre DEF Directives
  <2>2. Gone(0, 0) = {} /\ Settled(0)
    <3>1. \A d \in 1..n : ~(d <= 0)
      BY <1>1
    <3> QED
      BY <2>1, <3>1 DEF Gone, Settled
  <2>3. Shown({}) = Text
    <3>1. Text = [k \in DOMAIN Text |-> Text[k]]
      <4> DEFINE S == STRING \cup {NUL}
      <4>1. file \in Seq(S) /\ NUL \in S
        <5>1. \A i \in 1..Len(file) : file[i] \in S
          BY ElementOfSeq
        <5> QED
          BY <5>1
      <4>2. Append(file, NUL) \in Seq(S)
        <5> HIDE DEF S
        <5> QED
          BY <4>1, AppendProperties
      <4>3. PICK t \in Seq(S) : t = Append(file, NUL)
        BY <4>2
      <4> HIDE DEF S
      <4>4. t = [k \in DOMAIN t |-> t[k]]
        OBVIOUS
      <4> QED
        BY Zenon, <4>3, <4>4 DEF Text
    <3> QED
      BY <3>1 DEF Shown
  <2>4. /\ DOMAIN f[0] = {"z", "exclude", "start"} /\ f[0].exclude = 0 /\ f[0].z = Text
    BY <1>2
  <2>5. Seen(0, f[0])
    <3>1. PICK acc : acc = f[0]
      OBVIOUS
    <3>2. /\ DOMAIN acc = {"z", "exclude", "start"} /\ acc.exclude = 0
          /\ acc.z = Shown(Gone(0, 0)) /\ Settled(0)
      BY <2>2, <2>3, <2>4, <3>1
    <3>3. Seen(0, acc)
      BY <3>2 DEF Seen
    <3> QED
      BY <3>1, <3>3
  <2> QED
    BY <2>5
<1>4. ASSUME NEW i \in Nat, i \in D
      PROVE  i + 1 \in D
  <2> SUFFICES ASSUME i + 1 <= n
               PROVE  Seen(i + 1, f[i + 1])
    OBVIOUS
  <2>1. Seen(i, f[i]) /\ i + 1 \in DOMAIN Text /\ i + 1 \in 1..n
    BY <1>1, <1>4
  <2>2. f[i + 1] = PreprocessAt(f[i], i + 1)
    <3>1. i + 1 - 1 = i
      OBVIOUS
    <3> QED
      BY <1>2, <2>1, <3>1
  <2> QED
    BY <2>1, <2>2, SeenNext
<1>5. n \in D
  <2> HIDE DEF D
  <2> QED
    BY <1>1, <1>3, <1>4, Climbing
<1> QED
  BY <1>1, <1>2, <1>5 DEF n

Stopped == \E i \in LeftOut : EndsOf(i) = {}

LEMMA PreprocessedIs ==
  ASSUME file \in Seq(STRING), settings.azDefine = Given
  PROVE  LET r == preprocess_input(Text)
         IN  IF Stopped THEN r.exclude > 0
             ELSE ~(r.exclude > 0) /\ r.z = Shown(Removed)
<1> DEFINE n == Len(Text)
           r == preprocess_input(Text)
           s == r.start
<1>1. n \in Nat /\ DOMAIN Text = 1..n
  BY TextIs
<1>2. Seen(n, r)
  BY SeenAll
<1> HIDE DEF r, n
<1>3. LeftOut \in SUBSET 1..n /\ Directives \in SUBSET 1..n /\ Directives = Ifs \cup Endifs
  BY <1>1, DirectivesAre DEF Directives
<1>4. CASE r.exclude = 0
  <2>1. r.z = Shown(Gone(n, n)) /\ Settled(n)
    BY <1>2, <1>4 DEF Seen
  <2>2. ~Stopped
    BY <1>3, <2>1 DEF Settled, Stopped
  <2>3. Gone(n, n) = Removed \cap DOMAIN Text
    <3>1. \A j \in 1..n : j <= n
      OBVIOUS
    <3> QED
      BY <1>3, <3>1 DEF Gone, Removed
  <2>4. Shown(Gone(n, n)) = Shown(Removed)
    BY <2>3 DEF Shown
  <2> QED
    BY <1>4, <2>1, <2>2, <2>4 DEF r
<1>5. CASE r.exclude # 0
  <2>1. /\ r.exclude \in Nat /\ s \in LeftOut /\ s <= n
        /\ \A j \in s..n : Depth(s, j) >= 0
    BY <1>2, <1>5 DEF Seen
  <2> HIDE DEF s
  <2>2. s \in Nat
    BY <1>3, <2>1
  <2>3. ASSUME NEW e \in EndsOf(s)
        PROVE  FALSE
    <3>1. e \in Endifs /\ e > s /\ Depth(s, e - 1) = 0 /\ e \in 1..n
      BY <1>3, <2>2, EndsAre
    <3> DEFINE y == e - 1
    <3>2. y \in Nat /\ s <= y /\ y + 1 = e /\ e \in s..n
      BY <2>2, <3>1
    <3>3. Depth(s, y) = 0 /\ y + 1 \in Endifs
      BY <3>1, <3>2
    <3> HIDE DEF y
    <3>4. Depth(s, y + 1) = Depth(s, y) - 1
      BY <2>2, <3>2, <3>3, DepthSteps
    <3>5. Depth(s, e) = 0 - 1
      BY <3>2, <3>3, <3>4
    <3>6. Depth(s, e) >= 0
      BY <2>1, <3>2
    <3> QED
      BY <3>5, <3>6
  <2>4. Stopped
    BY <2>1, <2>3 DEF Stopped
  <2> QED
    BY <1>5, <2>1, <2>4 DEF r
<1> QED
  BY <1>4, <1>5

-----------------------------------------------------------------------------
(* The macros of a command line. *)

DefinesMacro(arg) ==
  \/ IsPrefix(<<"-", "D">>, arg) \/ IsPrefix(<<"+", "D">>, arg) \/ IsPrefix(<<"D", "=">>, arg)

MacroOf(arg) ==
  SubSeq(arg, 3, Min({j \in 3..Len(arg) : arg[j] = "="} \cup {Len(arg) + 1}) - 1)

LEMMA PrefixOfTwo ==
  ASSUME NEW S, NEW x \in S, NEW y \in S, NEW arg \in Seq(S)
  PROVE  IsPrefix(<<x, y>>, arg) <=> Len(arg) >= 2 /\ arg[1] = x /\ arg[2] = y
<1>1. PICK two \in Seq(S) : two = <<x, y>> /\ Len(two) = 2
  <2>1. <<x, y>> \in Seq(S) /\ Len(<<x, y>>) = 2
    OBVIOUS
  <2> QED
    BY <2>1
<1>2. two \in Seq(S) /\ Len(two) = 2 /\ two[1] = x /\ two[2] = y
  <2>1. two[1] = x /\ two[2] = y
    BY <1>1
  <2> QED
    BY <1>1, <2>1
<1>5. ASSUME NEW u \in Seq(S), Len(u) >= 2
      PROVE  \E w \in Seq(S) : /\ w = SubSeq(u, 1, 2) /\ Len(w) = 2
                                    /\ w[1] = u[1] /\ w[2] = u[2]
  <2>1. \A k \in 1..2 : u[k] \in S
    BY <1>5, ElementOfSeq
  <2>2. /\ SubSeq(u, 1, 2) \in Seq(S)
        /\ Len(SubSeq(u, 1, 2)) = IF 1 <= 2 THEN 2 - 1 + 1 ELSE 0
        /\ \A i \in 1..2 - 1 + 1 : SubSeq(u, 1, 2)[i] = u[1 + i - 1]
    BY <2>1, SubSeqProperties
  <2>3. PICK w : w = SubSeq(u, 1, 2)
    OBVIOUS
  <2>4. w \in Seq(S) /\ Len(w) = 2 /\ \A i \in 1..2 : w[i] = u[i]
    BY <2>2, <2>3
  <2>5. w[1] = u[1] /\ w[2] = u[2]
    BY <2>4
  <2> QED
    BY <2>3, <2>4, <2>5
<1>6. ASSUME NEW u \in Seq(S), NEW v \in Seq(S), Len(u) = 2, Len(v) = 2
      PROVE  u = v <=> u[1] = v[1] /\ u[2] = v[2]
  <2>1. ASSUME u[1] = v[1], u[2] = v[2]
        PROVE  u = v
    <3>1. \A i \in 1..Len(u) : u[i] = v[i]
      BY <1>6, <2>1
    <3> QED
      BY <1>6, <3>1, SeqEqual
  <2> QED
    BY <2>1
<1>3. CASE Len(arg) >= 2
  <2>1. PICK w \in Seq(S) : /\ w = SubSeq(arg, 1, 2) /\ Len(w) = 2
                                 /\ w[1] = arg[1] /\ w[2] = arg[2]
    BY <1>3, <1>5
  <2>7. Len(two) >= 2 /\ two \in Seq(S)
    BY <1>2
  <2>2. PICK q \in Seq(S) : /\ q = SubSeq(two, 1, 2) /\ Len(q) = 2
                                 /\ q[1] = two[1] /\ q[2] = two[2]
    BY <1>5, <2>7
  <2>3. q = w <=> x = arg[1] /\ y = arg[2]
    BY <1>2, <1>6, <2>1, <2>2
  <2>4. IsPrefix(two, arg) <=> SubSeq(two, 1, 2) = SubSeq(arg, 1, 2)
    BY <1>2, <1>3 DEF IsPrefix
  <2>5. IsPrefix(two, arg) <=> q = w
    BY Zenon, <2>1, <2>2, <2>4
  <2>6. IsPrefix(two, arg) <=> x = arg[1] /\ y = arg[2]
    BY <2>3, <2>5
  <2> QED
    BY Zenon, <1>1, <1>3, <2>6
<1>4. CASE ~(Len(arg) >= 2)
  BY <1>1, <1>2, <1>4 DEF IsPrefix
<1> QED
  BY <1>3, <1>4

LEMMA EqualsIs ==
  ASSUME NEW text \in Seq(STRING), Contains(text, "=")
  PROVE  LET e == FirstEquals(text)
         IN  e \in 1..Len(text) /\ text[e] = "=" /\ \A j \in 1..e - 1 : text[j] # "="
<1> DEFINE S == {k \in 1..Len(text) : text[k] = "="}
           P(k) == text[k] = "=" /\ \A j \in 1..k - 1 : text[j] # "="
<1>1. S \in SUBSET Nat /\ S # {}
  BY DEF Contains
<1>2. PICK x \in S : \A y \in S : x <= y
  <2> HIDE DEF S
  <2> QED
    BY <1>1, LeastIs
<1>3. x \in DOMAIN text /\ P(x)
  <2>1. \A j \in 1..x - 1 : j \in 1..Len(text) /\ ~(x <= j)
    BY <1>2
  <2> QED
    BY <1>2, <2>1
<1>4. FirstEquals(text) = CHOOSE k \in DOMAIN text : P(k)
  BY DEF FirstEquals
<1> HIDE DEF P
<1>5. FirstEquals(text) \in DOMAIN text /\ P(FirstEquals(text))
  BY <1>3, <1>4
<1> QED
  BY <1>5 DEF P

LEMMA MacroIs ==
  ASSUME NEW arg \in Seq(STRING), Len(arg) >= 2
  PROVE  BeforeEquals(SubSeq(arg, 3, Len(arg))) = MacroOf(arg)
<1> DEFINE n == Len(arg)
           t == SubSeq(arg, 3, n)
           S == {j \in 3..n : arg[j] = "="} \cup {n + 1}
           e == Min(S)
<1>1. n \in Nat /\ n >= 2 /\ \A k \in 1..n : arg[k] \in STRING
  OBVIOUS
<1>2. e \in S /\ \A k \in S : e <= k
  <2>1. S \in SUBSET Nat /\ S # {}
    BY <1>1
  <2> HIDE DEF S
  <2> QED
    BY <2>1, LeastOf
<1>3. MacroOf(arg) = SubSeq(arg, 3, e - 1)
  BY DEF MacroOf
<1> HIDE DEF e
<1>4. e \in 3..n + 1 /\ (e <= n => arg[e] = "=") /\ \A j \in 3..e - 1 : arg[j] # "="
  <2>1. e \in 3..n + 1 /\ (e <= n => arg[e] = "=")
    BY <1>1, <1>2
  <2>2. ASSUME NEW j \in 3..e - 1, arg[j] = "="
        PROVE  FALSE
    <3>1. j \in 3..n /\ j < e
      BY <1>1, <2>1
    <3>2. j \in S
      BY <2>2, <3>1
    <3> QED
      BY <1>2, <2>1, <3>1, <3>2
  <2> QED
    BY <2>1, <2>2
<1> HIDE DEF n, S
<1>5. /\ t \in Seq(STRING) /\ Len(t) = n - 2
      /\ \A i \in 1..n - 2 : t[i] = arg[i + 2]
  <2>1. \A k \in 3..n : arg[k] \in STRING
    BY <1>1
  <2>2. /\ SubSeq(arg, 3, n) \in Seq(STRING)
        /\ Len(SubSeq(arg, 3, n)) = IF 3 <= n THEN n - 3 + 1 ELSE 0
        /\ \A i \in 1..n - 3 + 1 : SubSeq(arg, 3, n)[i] = arg[3 + i - 1]
    BY <1>1, <2>1, SubSeqProperties
  <2>3. \A i \in 1..n - 2 : i \in 1..n - 3 + 1 /\ 3 + i - 1 = i + 2
    BY <1>1
  <2>4. \A i \in 1..n - 2 : t[i] = arg[i + 2]
    BY <2>2, <2>3
  <2> QED
    BY <1>1, <2>2, <2>4
<1> HIDE DEF t
<1>6. CASE e = n + 1
  <2>1. ~Contains(t, "=")
    <3> SUFFICES ASSUME NEW i \in 1..Len(t), t[i] = "="
                 PROVE  FALSE
      BY DEF Contains
    <3>1. i + 2 \in 3..e - 1 /\ i \in 1..n - 2
      BY <1>1, <1>5, <1>6
    <3> QED
      BY <1>4, <1>5, <3>1
  <2>2. BeforeEquals(t) = t
    BY <2>1 DEF BeforeEquals
  <2> QED
    BY <1>1, <1>3, <1>6, <2>2 DEF t, n
<1>7. CASE e # n + 1
  <2>1. e \in 3..n /\ arg[e] = "=" /\ e - 2 \in 1..Len(t) /\ e - 2 + 2 = e
    BY <1>1, <1>4, <1>5, <1>7
  <2>2. t[e - 2] = "="
    BY <1>5, <2>1
  <2>3. Contains(t, "=")
    BY <2>1, <2>2 DEF Contains
  <2> DEFINE f == FirstEquals(t)
  <2>4. f \in 1..Len(t) /\ t[f] = "=" /\ \A j \in 1..f - 1 : t[j] # "="
    BY <1>5, <2>3, EqualsIs
  <2>5. BeforeEquals(t) = SubSeq(t, 1, f - 1)
    BY <2>3 DEF BeforeEquals
  <2> HIDE DEF f
  <2>6. f = e - 2
    <3>1. ~(e - 2 < f)
      <4> SUFFICES ASSUME e - 2 < f
                   PROVE  FALSE
        OBVIOUS
      <4>1. e - 2 \in 1..f - 1
        BY <1>1, <1>5, <2>1, <2>4
      <4> QED
        BY <2>2, <2>4, <4>1
    <3>2. ~(f < e - 2)
      <4> SUFFICES ASSUME f < e - 2
                   PROVE  FALSE
        OBVIOUS
      <4>1. f + 2 \in 3..e - 1 /\ f \in 1..n - 2
        BY <1>1, <1>5, <2>1, <2>4
      <4>2. t[f] = arg[f + 2]
        BY <1>5, <4>1
      <4> QED
        BY <1>4, <2>4, <4>1, <4>2
    <3> QED
      BY <1>1, <1>5, <2>1, <2>4, <3>1, <3>2
  <2> DEFINE u == SubSeq(t, 1, e - 3)
             v == SubSeq(arg, 3, e - 1)
  <2>7. /\ u \in Seq(STRING) /\ Len(u) = e - 3
        /\ \A i \in 1..e - 3 : u[i] = t[i]
    <3>1. \A k \in 1..e - 3 : t[k] \in STRING
      BY <1>5, <2>1
    <3>2. /\ SubSeq(t, 1, e - 3) \in Seq(STRING)
          /\ Len(SubSeq(t, 1, e - 3)) = IF 1 <= e - 3 THEN e - 3 - 1 + 1 ELSE 0
          /\ \A i \in 1..e - 3 - 1 + 1 : SubSeq(t, 1, e - 3)[i] = t[1 + i - 1]
      BY <1>1, <1>5, <2>1, <3>1, SubSeqProperties
    <3>3. \A i \in 1..e - 3 : i \in 1..e - 3 - 1 + 1 /\ 1 + i - 1 = i
      BY <2>1
    <3> QED
      BY <1>1, <2>1, <3>2, <3>3
  <2>8. /\ v \in Seq(STRING) /\ Len(v) = e - 3
        /\ \A i \in 1..e - 3 : v[i] = arg[i + 2]
    <3>1. \A k \in 3..e - 1 : arg[k] \in STRING
      BY <1>1, <2>1
    <3>2. /\ SubSeq(arg, 3, e - 1) \in Seq(STRING)
          /\ Len(SubSeq(arg, 3, e - 1)) = IF 3 <= e - 1 THEN e - 1 - 3 + 1 ELSE 0
          /\ \A i \in 1..e - 1 - 3 + 1 : SubSeq(arg, 3, e - 1)[i] = arg[3 + i - 1]
      BY <1>1, <2>1, <3>1, SubSeqProperties
    <3>3. \A i \in 1..e - 3 : i \in 1..e - 1 - 3 + 1 /\ 3 + i - 1 = i + 2
      BY <2>1
    <3> QED
      BY <1>1, <2>1, <3>2, <3>3
  <2>9. u = v
    <3> HIDE DEF u, v
    <3>1. \A i \in 1..e - 3 : i \in 1..n - 2
      BY <1>1, <2>1
    <3>2. \A i \in 1..Len(u) : u[i] = v[i]
      BY <1>5, <2>7, <2>8, <3>1
    <3> QED
      BY <2>7, <2>8, <3>2, SeqEqual
  <2>10. f - 1 = e - 3
    BY <1>1, <2>1, <2>6
  <2> QED
    BY <1>3, <2>5, <2>9, <2>10 DEF t, n
<1> QED
  BY <1>6, <1>7

Switching(arg) == ~Signed(arg) /\ Contains(arg, "=")

\* How a switch is taken apart.
LEMMA SwitchIs ==
  ASSUME NEW arg \in Seq(STRING), Switching(arg)
  PROVE  LET label == BeforeEquals(arg)
         IN  /\ IsPrefix(<<"D", "=">>, arg) <=> Len(label) = 1 /\ label[1] = "D"
             /\ Len(label) = 1 => AfterEquals(arg) = SubSeq(arg, 3, Len(arg)) /\ Len(arg) >= 2
<1> DEFINE e == FirstEquals(arg)
           label == BeforeEquals(arg)
<1>1. e \in 1..Len(arg) /\ arg[e] = "=" /\ \A j \in 1..e - 1 : arg[j] # "="
  BY EqualsIs DEF Switching
<1>2. label = SubSeq(arg, 1, e - 1) /\ AfterEquals(arg) = SubSeq(arg, e + 1, Len(arg))
  BY DEF BeforeEquals, AfterEquals, Switching
<1> HIDE DEF e
<1>3. Len(arg) \in Nat /\ \A k \in 1..e - 1 : arg[k] \in STRING
  BY <1>1
<1>4. /\ label \in Seq(STRING) /\ Len(label) = e - 1
      /\ \A i \in 1..e - 1 : label[i] = arg[i]
  <2>1. /\ SubSeq(arg, 1, e - 1) \in Seq(STRING)
        /\ Len(SubSeq(arg, 1, e - 1)) = IF 1 <= e - 1 THEN e - 1 - 1 + 1 ELSE 0
        /\ \A i \in 1..e - 1 - 1 + 1 : SubSeq(arg, 1, e - 1)[i] = arg[1 + i - 1]
    BY <1>1, <1>3, SubSeqProperties
  <2>2. \A i \in 1..e - 1 : i \in 1..e - 1 - 1 + 1 /\ 1 + i - 1 = i
    BY <1>1
  <2> QED
    BY <1>1, <1>2, <2>1, <2>2
<1> HIDE DEF label
<1>5. IsPrefix(<<"D", "=">>, arg) <=> Len(arg) >= 2 /\ arg[1] = "D" /\ arg[2] = "="
  <2> DEFINE S == STRING \cup {"D", "=", "-", "+"}
  <2>1. arg \in Seq(S)
    <3>1. \A i \in 1..Len(arg) : arg[i] \in S
      BY ElementOfSeq
    <3> QED
      BY <3>1
  <2>2. "D" \in S /\ "=" \in S /\ "-" \in S /\ "+" \in S
    OBVIOUS
  <2> HIDE DEF S
  <2> QED
    BY <2>1, <2>2, PrefixOfTwo
<1>6. CASE e = 2
  <2>1. Len(label) = 1 /\ label[1] = arg[1] /\ Len(arg) >= 2 /\ arg[2] = "="
    BY <1>1, <1>3, <1>4, <1>6
  <2>2. AfterEquals(arg) = SubSeq(arg, 3, Len(arg))
    BY <1>2, <1>6
  <2> QED
    BY <1>5, <2>1, <2>2 DEF label
<1>7. CASE e # 2
  <2>1. Len(label) # 1
    BY <1>1, <1>4, <1>7
  <2>2. ~(Len(arg) >= 2 /\ arg[1] = "D" /\ arg[2] = "=")
    <3> SUFFICES ASSUME Len(arg) >= 2, arg[1] = "D", arg[2] = "="
                 PROVE  FALSE
      OBVIOUS
    <3>1. e # 1
      BY <1>1
    <3>2. 2 \in 1..e - 1
      BY <1>1, <1>7, <3>1
    <3> QED
      BY <1>1, <3>2
  <2> QED
    BY <1>5, <2>1, <2>2 DEF label
<1> QED
  BY <1>6, <1>7

\* An option gives at most one macro.
LEMMA OptionIs ==
  ASSUME NEW s, DOMAIN s = DOMAIN NoSettings, NEW arg \in Seq(STRING)
  PROVE  /\ DOMAIN Option(s, arg) = DOMAIN NoSettings
         /\ Option(s, arg).azDefine
              = s.azDefine \cup (IF DefinesMacro(arg) THEN {MacroOf(arg)} ELSE {})
<1> DEFINE Same(u) == DOMAIN u = DOMAIN NoSettings /\ u.azDefine = s.azDefine
           With(u, name) == DOMAIN u = DOMAIN NoSettings /\ u.azDefine = s.azDefine \cup {name}
           o == Option(s, arg)
<1>0. "azDefine" \in DOMAIN s
  BY DEF NoSettings
<1>1. Same(Refused(s))
  BY <1>0 DEF Refused
<1>2. ASSUME NEW label, NEW text, label \in TakingText
      PROVE  /\ label = "D" => With(WithText(s, label, text), BeforeEquals(text))
             /\ label # "D" => Same(WithText(s, label, text))
  <2>1. CASE label = "D"
    BY <1>0, <2>1 DEF WithText
  <2>2. CASE label = "T"
    BY <1>0, <2>2 DEF WithText
  <2>3. CASE label = "O"
    BY <1>0, <2>3 DEF WithText
  <2> QED
    BY <1>2, <2>1, <2>2, <2>3 DEF TakingText
<1>3. /\ IsPrefix(<<"-", "D">>, arg) <=> Len(arg) >= 2 /\ arg[1] = "-" /\ arg[2] = "D"
      /\ IsPrefix(<<"+", "D">>, arg) <=> Len(arg) >= 2 /\ arg[1] = "+" /\ arg[2] = "D"
      /\ IsPrefix(<<"D", "=">>, arg) <=> Len(arg) >= 2 /\ arg[1] = "D" /\ arg[2] = "="
  <2> DEFINE S == STRING \cup {"D", "=", "-", "+"}
  <2>1. arg \in Seq(S)
    <3>1. \A i \in 1..Len(arg) : arg[i] \in S
      BY ElementOfSeq
    <3> QED
      BY <3>1
  <2>2. "D" \in S /\ "=" \in S /\ "-" \in S /\ "+" \in S
    OBVIOUS
  <2> HIDE DEF S
  <2> QED
    BY <2>1, <2>2, PrefixOfTwo
<1>4. CASE Signed(arg)
  <2> DEFINE label == IF Len(arg) > 1 THEN arg[2] ELSE "none"
             text == SubSeq(arg, 3, Len(arg))
             f == [s EXCEPT !.flags = IF arg[1] = "-" THEN @ \cup {label} ELSE @ \ {label}]
  <2>1. o = CASE label \in Flags -> f
              [] label \in TakingText -> WithText(s, label, text)
              [] OTHER -> Refused(s)
    BY <1>4 DEF Option, handleflags
  <2>2. DefinesMacro(arg) <=> label = "D"
    <3>1. Len(arg) \in Nat /\ arg # <<>> /\ arg[1] \in {"-", "+"}
      BY <1>4 DEF Signed
    <3>2. Len(arg) > 1 <=> Len(arg) >= 2
      BY <3>1
    <3> QED
      BY <1>3, <3>1, <3>2 DEF DefinesMacro
  <2>3. Same(f)
    BY <1>0
  <2>4. label = "D" => BeforeEquals(text) = MacroOf(arg)
    <3> SUFFICES ASSUME label = "D"
                 PROVE  BeforeEquals(text) = MacroOf(arg)
      OBVIOUS
    <3>1. Len(arg) >= 2
      <4>1. Len(arg) > 1 /\ Len(arg) \in Nat
        OBVIOUS
      <4> QED
        BY <4>1
    <3> QED
      BY <3>1, MacroIs
  <2>5. Flags \cap TakingText = {} /\ "D" \in TakingText
    BY DEF Flags, TakingText
  <2> HIDE DEF f, label, text, o
  <2>6. CASE label \in Flags
    <3>1. o = f /\ label # "D"
      BY <2>1, <2>5, <2>6
    <3> QED
      BY <2>2, <2>3, <3>1 DEF o
  <2>7. CASE label \in TakingText
    <3>1. o = WithText(s, label, text)
      BY <2>1, <2>5, <2>7
    <3>2. /\ label = "D" => With(o, BeforeEquals(text))
          /\ label # "D" => Same(o)
      BY Zenon, <1>2, <2>7, <3>1
    <3> QED
      BY <2>2, <2>4, <3>2 DEF o
  <2>8. CASE label \notin Flags \cup TakingText
    <3>1. o = Refused(s) /\ label # "D"
      BY <2>1, <2>5, <2>8
    <3> QED
      BY <1>1, <2>2, <3>1 DEF o
  <2> QED
    BY <2>6, <2>7, <2>8
<1>5. CASE ~Signed(arg)
  <2>1. Len(arg) >= 2 => arg[1] # "-" /\ arg[1] # "+"
    BY <1>5 DEF Signed
  <2>2. DefinesMacro(arg) <=> IsPrefix(<<"D", "=">>, arg)
    BY <1>3, <2>1 DEF DefinesMacro
  <2>3. CASE Contains(arg, "=")
    <3> DEFINE label == BeforeEquals(arg)
               text == AfterEquals(arg)
    <3>1. o = IF Len(label) = 1 /\ label[1] \in TakingText THEN WithText(s, label[1], text)
              ELSE Refused(s)
      BY <1>5, <2>3 DEF Option, handleswitch
    <3>2. /\ IsPrefix(<<"D", "=">>, arg) <=> Len(label) = 1 /\ label[1] = "D"
          /\ Len(label) = 1 => text = SubSeq(arg, 3, Len(arg)) /\ Len(arg) >= 2
      BY <1>5, <2>3, SwitchIs DEF Switching
    <3> HIDE DEF o, label, text
    <3>3. CASE Len(label) = 1 /\ label[1] \in TakingText
      <4>1. o = WithText(s, label[1], text)
        BY <3>1, <3>3
      <4>2. /\ label[1] = "D" => With(o, BeforeEquals(text))
            /\ label[1] # "D" => Same(o)
        BY Zenon, <1>2, <3>3, <4>1
      <4>3. BeforeEquals(text) = MacroOf(arg)
        BY <3>2, <3>3, MacroIs
      <4> QED
        BY <2>2, <3>2, <3>3, <4>2, <4>3 DEF o
    <3>4. CASE ~(Len(label) = 1 /\ label[1] \in TakingText)
      <4>1. o = Refused(s)
        BY <3>1, <3>4
      <4>2. ~DefinesMacro(arg)
        BY <2>2, <3>2, <3>4 DEF TakingText
      <4> QED
        BY <1>1, <4>1, <4>2 DEF o
    <3> QED
      BY <3>3, <3>4
  <2>4. CASE ~Contains(arg, "=")
    <3>1. o = s
      BY <1>5, <2>4 DEF Option
    <3>2. ~(Len(arg) >= 2 /\ arg[2] = "=")
      <4>1. Len(arg) >= 2 => 2 \in 1..Len(arg)
        OBVIOUS
      <4> QED
        BY <2>4, <4>1 DEF Contains
    <3> QED
      BY <1>3, <2>2, <3>1, <3>2
  <2> QED
    BY <2>3, <2>4
<1> QED
  BY <1>4, <1>5

\* The recursive function of OptInit, unfolded.
LEMMA OptInitIs ==
  ASSUME NEW n \in Nat, n = Len(argv)
  PROVE  \E f : /\ OptInit = f[n] /\ f[0] = NoSettings
                /\ \A i \in 1..n : f[i] = Option(f[i - 1], argv[i])
<1> DEFINE Right(f, k) == /\ f = [i \in 0..k |-> f[i]] /\ f[0] = NoSettings
                          /\ \A i \in 1..k : f[i] = Option(f[i - 1], argv[i])
           Fixed(f) == f = [i \in 0..n |-> IF i = 0 THEN NoSettings ELSE Option(f[i - 1], argv[i])]
           D == {k \in Nat : \E f : Right(f, k)}
<1>1. 0 \in D
  <2> DEFINE f == [i \in 0..0 |-> NoSettings]
  <2>1. f[0] = NoSettings /\ f = [i \in 0..0 |-> f[i]]
    OBVIOUS
  <2> HIDE DEF f
  <2>2. Right(f, 0)
    BY <2>1
  <2> QED
    BY <2>2
<1>2. ASSUME NEW k \in Nat, k \in D
      PROVE  k + 1 \in D
  <2>1. PICK f : Right(f, k)
    BY <1>2
  <2> DEFINE new == Option(f[k], argv[k + 1])
             g == [i \in 0..k + 1 |-> IF i = k + 1 THEN new ELSE f[i]]
  <2> HIDE DEF new
  <2>2. g[k + 1] = new /\ \A i \in 0..k : g[i] = f[i]
    OBVIOUS
  <2>6. g = [i \in 0..k + 1 |-> g[i]]
    OBVIOUS
  <2> HIDE DEF g
  <2>3. ASSUME NEW i \in 1..k + 1
        PROVE  g[i] = Option(g[i - 1], argv[i])
    <3>1. CASE i = k + 1
      <4>1. i - 1 = k /\ k \in 0..k
        BY <3>1
      <4> QED
        BY <2>2, <3>1, <4>1 DEF new
    <3>2. CASE i \in 1..k
      <4>1. i - 1 \in 0..k /\ i \in 0..k
        BY <3>2
      <4> QED
        BY <2>1, <2>2, <3>2, <4>1
    <3> QED
      BY <3>1, <3>2
  <2>4. g[0] = NoSettings
    BY <2>1, <2>2
  <2>5. Right(g, k + 1)
    BY <2>3, <2>4, <2>6
  <2> HIDE DEF Right
  <2> QED
    BY <2>5
<1>3. PICK f : Right(f, n)
  <2>1. n \in D
    <3> HIDE DEF D
    <3> QED
      BY <1>1, <1>2, Climbing
  <2> HIDE DEF Right
  <2> QED
    BY <2>1
<1>4. Fixed(f)
  <2>1. ASSUME NEW i \in 0..n
        PROVE  f[i] = IF i = 0 THEN NoSettings ELSE Option(f[i - 1], argv[i])
    <3>1. f[0] = NoSettings /\ \A j \in 1..n : f[j] = Option(f[j - 1], argv[j])
      BY <1>3
    <3>2. i = 0 \/ i \in 1..n
      OBVIOUS
    <3> HIDE DEF Right
    <3> QED
      BY <3>1, <3>2
  <2> QED
    BY Zenon, <1>3, <2>1
<1> DEFINE h == CHOOSE h : Fixed(h)
<1>5. Fixed(h)
  <2> HIDE DEF Fixed
  <2> QED
    BY <1>4
<1>6. OptInit = h[n]
  BY DEF OptInit
<1>7. \A g : Fixed(g) => g[0] = NoSettings /\ \A i \in 1..n : g[i] = Option(g[i - 1], argv[i])
  OBVIOUS
<1>8. h[0] = NoSettings /\ \A i \in 1..n : h[i] = Option(h[i - 1], argv[i])
  <2> HIDE DEF h, Fixed
  <2> QED
    BY <1>5, <1>7
<1> HIDE DEF h
<1> QED
  BY <1>6, <1>8

\* The macros of the whole command line.
LEMMA MacrosAre ==
  ASSUME argv \in Seq(Seq(STRING))
  PROVE  OptInit.azDefine = Given
<1> DEFINE n == Len(argv)
           By(k) == {MacroOf(argv[j]) : j \in {j \in 1..k : DefinesMacro(argv[j])}}
<1>1. n \in Nat /\ DOMAIN argv = 1..n /\ \A i \in 1..n : argv[i] \in Seq(STRING)
  <2>1. \A i \in 1..n : argv[i] \in Seq(STRING)
    BY ElementOfSeq
  <2> QED
    BY <2>1
<1>2. PICK f : /\ OptInit = f[n] /\ f[0] = NoSettings
               /\ \A i \in 1..n : f[i] = Option(f[i - 1], argv[i])
  <2>1. n = Len(argv)
    OBVIOUS
  <2> HIDE DEF n
  <2> QED
    BY Zenon, <1>1, <2>1, OptInitIs
<1>3. Given = By(n)
  BY <1>1 DEF Given, MacroOf, DefinesMacro
<1> HIDE DEF n
<1> DEFINE D == {i \in Nat : i <= n => DOMAIN f[i] = DOMAIN NoSettings /\ f[i].azDefine = By(i)}
<1>4. 0 \in D
  <2>1. By(0) = {} /\ NoSettings.azDefine = {}
    BY DEF NoSettings
  <2> HIDE DEF By
  <2> QED
    BY <1>2, <2>1
<1>5. ASSUME NEW i \in Nat, i \in D
      PROVE  i + 1 \in D
  <2> SUFFICES ASSUME i + 1 <= n
               PROVE  DOMAIN f[i + 1] = DOMAIN NoSettings /\ f[i + 1].azDefine = By(i + 1)
    OBVIOUS
  <2>1. i + 1 \in 1..n /\ i + 1 - 1 = i /\ DOMAIN f[i] = DOMAIN NoSettings /\ f[i].azDefine = By(i)
    BY <1>1, <1>5
  <2>2. f[i + 1] = Option(f[i], argv[i + 1]) /\ argv[i + 1] \in Seq(STRING)
    BY <1>1, <1>2, <2>1
  <2>3. /\ DOMAIN Option(f[i], argv[i + 1]) = DOMAIN NoSettings
        /\ Option(f[i], argv[i + 1]).azDefine
             = f[i].azDefine \cup
                 (IF DefinesMacro(argv[i + 1]) THEN {MacroOf(argv[i + 1])} ELSE {})
    BY <2>1, <2>2, OptionIs
  <2>4. By(i + 1) = By(i) \cup (IF DefinesMacro(argv[i + 1]) THEN {MacroOf(argv[i + 1])} ELSE {})
    <3>1. 1..i + 1 = (1..i) \cup {i + 1}
      OBVIOUS
    <3> QED
      BY <3>1
  <2> HIDE DEF By
  <2> QED
    BY <2>1, <2>2, <2>3, <2>4
<1>6. n \in D
  <2> HIDE DEF D
  <2> QED
    BY <1>1, <1>4, <1>5, Climbing
<1> HIDE DEF By
<1> QED
  BY <1>1, <1>2, <1>3, <1>6

-----------------------------------------------------------------------------
(* Reading a file. *)

PreprocessInv ==
  /\ file \in Seq(STRING) /\ argv \in Seq(Seq(STRING))
  /\ main = "file" => settings.azDefine = Given
  /\ scanning = "opening" => z = Text
  /\ PreprocessExact

\* What must hold of the text that is read, by what it is replaced with.
LEMMA ExactIs ==
  PreprocessExact <=> (scanning \notin {"opening", "unread"} =>
                         IF Stopped THEN scanning = "exit"
                         ELSE scanning # "exit" /\ z = Shown(Removed))
BY DEF PreprocessExact, Stopped, Shown

\* It is a matter of the file and the command line.
LEMMA FileKept ==
  ASSUME UNCHANGED <<file, argv>>
  PROVE  Text' = Text /\ Given' = Given /\ Stopped' = Stopped /\ Shown(Removed)' = Shown(Removed)
<1>1. Text' = Text
  BY DEF Text
<1>2. Ifs' = Ifs /\ Endifs' = Endifs
  BY <1>1 DEF Ifs, Endifs
<1>3. Given' = Given
  BY DEF Given
<1>4. LeftOut' = LeftOut
  BY <1>1, <1>2, <1>3 DEF LeftOut
<1>5. \A i : EndsOf(i)' = EndsOf(i)
  BY <1>2 DEF EndsOf
<1>6. \A i : LineOf(i)' = LineOf(i)
  BY <1>1 DEF LineOf
<1>7. Stopped' = Stopped
  BY <1>4, <1>5 DEF Stopped
<1>8. Removed' = Removed
  BY <1>2, <1>4, <1>5, <1>6 DEF Removed
<1>9. Shown(Removed)' = Shown(Removed)
  BY <1>1, <1>8 DEF Shown
<1> QED
  BY <1>1, <1>3, <1>7, <1>9

\* Reading on changes nothing of it.
LEMMA ReadingOn ==
  ASSUME PreprocessInv, main = "file", UNCHANGED <<file, z, argv, main, settings>>,
         scanning \in {"layout", "code"}, scanning' \in {"layout", "code", "done", "past"}
  PROVE  PreprocessInv'
<1>1. Text' = Text /\ Given' = Given /\ Stopped' = Stopped /\ Shown(Removed)' = Shown(Removed)
  BY FileKept
<1>2. z = Shown(Removed) /\ ~Stopped
  BY ExactIs DEF PreprocessInv
<1>3. PreprocessExact'
  <2>1. z' = Shown(Removed)' /\ ~Stopped'
    BY <1>1, <1>2
  <2> QED
    BY <2>1 DEF PreprocessExact, Stopped, Shown
<1> QED
  BY <1>1, <1>3 DEF PreprocessInv

LEMMA StepsOfScan ==
  ASSUME ParseFile
  PROVE  \/ Unreadable \/ Preprocess
         \/ /\ UNCHANGED <<file, z>> /\ scanning \in {"layout", "code"}
            /\ scanning' \in {"layout", "code", "done", "past"}
<1>1. CASE SkipSpace \/ SkipLineComment \/ SkipComment
  BY <1>1 DEF SkipSpace, SkipLineComment, SkipComment, InLayout, Scanning, SkipLayout
<1>2. CASE StringLiteral
  BY Zenon, <1>2 DEF StringLiteral, InLayout, Scanning, Token
<1>3. CASE Identifier
  BY <1>3 DEF Identifier, InLayout, Scanning, Word, Token
<1>4. CASE Alternative
  BY <1>4 DEF Alternative, InLayout, Scanning, Word, Token
<1>5. CASE Operator
  BY Zenon, <1>5 DEF Operator, InLayout, Scanning, Token
<1>6. CASE OpenCode
  BY Zenon, <1>6 DEF OpenCode, InLayout, Scanning
<1>7. CASE CodeCharacter
  BY Zenon, <1>7 DEF CodeCharacter, InCode, Scanning, CodeTo
<1>8. CASE CodeComment
  BY <1>8 DEF CodeComment, InCode, Scanning, CodeTo
<1>9. CASE CodeLineComment
  BY <1>9 DEF CodeLineComment, InCode, Scanning, CodeTo
<1>10. CASE CodeLiteral
  BY Zenon, <1>10 DEF CodeLiteral, InCode, Scanning, CodeTo
<1>11. CASE CloseCode
  BY Zenon, <1>11 DEF CloseCode, InCode, Scanning
<1>12. CASE EndOfFile
  BY <1>12 DEF EndOfFile, InLayout, Scanning
<1> QED
  BY <1>1, <1>2, <1>3, <1>4, <1>5, <1>6, <1>7, <1>8, <1>9, <1>10, <1>11, <1>12 DEF ParseFile

LEMMA PreprocessKept ==
  ASSUME PreprocessInv, [Next]_textVars
  PROVE  PreprocessInv'
<1>1. CASE ReadOptions /\ UNCHANGED parseVars
  <2>1. UNCHANGED <<file, z, argv, scanning>> /\ settings' = OptInit
    BY <1>1 DEF ReadOptions, parseVars
  <2>2. Text' = Text /\ Given' = Given /\ Stopped' = Stopped /\ Shown(Removed)' = Shown(Removed)
    BY <2>1, FileKept
  <2>3. settings'.azDefine = Given'
    BY <2>1, <2>2, MacrosAre DEF PreprocessInv
  <2>4. PreprocessExact'
    <3>1. scanning \notin {"opening", "unread"} =>
            IF Stopped THEN scanning = "exit" ELSE scanning # "exit" /\ z = Shown(Removed)
      BY ExactIs DEF PreprocessInv
    <3>2. scanning' \notin {"opening", "unread"} =>
            IF Stopped' THEN scanning' = "exit" ELSE scanning' # "exit" /\ z' = Shown(Removed)'
      BY <2>1, <2>2, <3>1
    <3> QED
      BY <3>2 DEF PreprocessExact, Stopped, Shown
  <2> QED
    BY <2>1, <2>2, <2>3, <2>4 DEF PreprocessInv
<1>2. CASE main = "file" /\ ParseFile /\ UNCHANGED commandVars
  <2>1. UNCHANGED <<main, argv, settings>>
    BY <1>2 DEF commandVars
  <2>2. CASE Unreadable
    <3>1. UNCHANGED <<file, z>> /\ scanning' = "unread"
      BY <2>2 DEF Unreadable
    <3>2. Text' = Text /\ Given' = Given
      BY <2>1, <3>1, FileKept
    <3>3. PreprocessExact'
      BY <3>1 DEF PreprocessExact
    <3> QED
      BY <2>1, <3>1, <3>2, <3>3 DEF PreprocessInv
  <2>3. CASE Preprocess
    <3> DEFINE r == preprocess_input(Text)
    <3>1. z = Text
      BY <2>3 DEF Preprocess, PreprocessInv
    <3>2. /\ z' = r.z /\ scanning' = IF r.exclude > 0 THEN "exit" ELSE "layout"
          /\ UNCHANGED file
      BY Zenon, <2>3, <3>1 DEF Preprocess
    <3>3. IF Stopped THEN r.exclude > 0 ELSE ~(r.exclude > 0) /\ r.z = Shown(Removed)
      BY <1>2, PreprocessedIs DEF PreprocessInv
    <3> HIDE DEF r
    <3>4. Text' = Text /\ Given' = Given /\ Stopped' = Stopped
          /\ Shown(Removed)' = Shown(Removed)
      BY <2>1, <3>2, FileKept
    <3>5. IF Stopped' THEN scanning' = "exit" ELSE scanning' # "exit" /\ z' = Shown(Removed)'
      BY <3>2, <3>3, <3>4
    <3>6. PreprocessExact'
      BY <3>5 DEF PreprocessExact, Stopped, Shown
    <3>7. scanning' # "opening"
      BY <3>2
    <3> QED
      BY <2>1, <3>2, <3>4, <3>6, <3>7 DEF PreprocessInv
  <2>4. CASE /\ UNCHANGED <<file, z>> /\ scanning \in {"layout", "code"}
             /\ scanning' \in {"layout", "code", "done", "past"}
    BY <1>2, <2>1, <2>4, ReadingOn
  <2> QED
    BY <1>2, <2>2, <2>3, <2>4, StepsOfScan
<1>3. CASE UNCHANGED scanVars
  <2>1. UNCHANGED <<file, z, argv, main, settings, scanning>>
    BY <1>3 DEF scanVars, commandVars, parseVars
  <2>2. Text' = Text /\ Given' = Given /\ Stopped' = Stopped /\ Shown(Removed)' = Shown(Removed)
    BY <2>1, FileKept
  <2>3. PreprocessExact'
    <3>1. scanning \notin {"opening", "unread"} =>
            IF Stopped THEN scanning = "exit" ELSE scanning # "exit" /\ z = Shown(Removed)
      BY ExactIs DEF PreprocessInv
    <3>2. scanning' \notin {"opening", "unread"} =>
            IF Stopped' THEN scanning' = "exit" ELSE scanning' # "exit" /\ z' = Shown(Removed)'
      BY <2>1, <2>2, <3>1
    <3> QED
      BY <3>2 DEF PreprocessExact, Stopped, Shown
  <2> QED
    BY <2>1, <2>2, <2>3 DEF PreprocessInv
<1> QED
  BY <1>1, <1>2, <1>3 DEF Next, textVars, ScanNext

(* lemon reads every grammar file as its directives say, whatever the       *)
(* command line, and however deep they are nested: each one, and each block *)
(* whose condition does not hold, is replaced by spaces, and every newline  *)
(* is kept.  OptInit and preprocess_input.                                  *)
THEOREM FilesAreReadAsDirected == Spec => []PreprocessExact
<1>1. Init => PreprocessInv
  <2> SUFFICES ASSUME Init
               PROVE  PreprocessInv
    OBVIOUS
  <2>1. ScanInit(Of("grammar", Invocations, NoInvocation))
    BY DEF Init
  <2>2. PICK call \in Of("grammar", Invocations, NoInvocation) :
          CommandInit({call.argv}) /\ file = call.file
    BY <2>1 DEF ScanInit
  <2>3. call.argv \in Seq(Seq(STRING)) /\ call.file \in Seq(STRING)
    <3>1. <<>> \in Seq(STRING) /\ <<>> \in Seq(Seq(STRING))
      BY EmptySeq
    <3>2. NoInvocation.argv \in Seq(Seq(STRING)) /\ NoInvocation.file \in Seq(STRING)
      BY <3>1 DEF NoInvocation
    <3> QED
      BY <2>2, <3>2, InvocationsAssumption DEF Of
  <2>4. main = "options" /\ argv = call.argv
    BY <2>2 DEF CommandInit
  <2>5. scanning = "opening" /\ z = Text
    BY <2>1 DEF ScanInit, Text
  <2>6. PreprocessExact
    BY <2>5 DEF PreprocessExact
  <2> QED
    BY <2>2, <2>3, <2>4, <2>5, <2>6 DEF PreprocessInv
<1>2. PreprocessInv /\ [Next]_textVars => PreprocessInv'
  BY PreprocessKept
<1>3. PreprocessInv => PreprocessExact
  BY DEF PreprocessInv
<1> QED
  BY <1>1, <1>2, <1>3, PTL DEF Spec
=============================================================================
