------------------------ MODULE PragmaHandlerProofs -------------------------
(***************************************************************************)
(* Proofs about PragmaHandler: which headers HandlePragma accepts and what *)
(* it makes of them (module PragmaHeader), its types, the particles it     *)
(* registers, and that the lookahead does not disturb the parser. Headers  *)
(* and files are sequences of any length, and Sources may be infinite. The *)
(* recursions run along sequences, so their proofs are inductions: a set   *)
(* of numbers with 0 and closed under successor is Nat.                    *)
(***************************************************************************)
EXTENDS PragmaHandler, WellFoundedInduction, SequenceTheorems, TLAPS

(* The order of the natural numbers as a relation.                         *)
Below == {p \in Nat \X Nat : p[1] < p[2]}

(* Below has no infinite descent.                                          *)
LEMMA BelowWellFounded == IsWellFoundedOn(Below, Nat)
BY NatLessThanWellFounded, Zenon DEF OpToRel, Below

(* A set of natural numbers that is not empty has a least member.          *)
LEMMA LeastNumber ==
  ASSUME NEW T \in SUBSET Nat, T # {}
  PROVE  \E x \in T : \A y \in T : x <= y
<1>1. T \subseteq Nat
  OBVIOUS
<1>2. PICK x \in T : \A y \in T : ~ (<<y, x>> \in Below)
  BY <1>1, WFMin, BelowWellFounded
<1>3. \A y \in T : ~(y < x)
  BY <1>2 DEF Below
<1> QED BY <1>3

(* Induction: the natural numbers for which a formula holds are all of     *)
(* them when 0 is one and so is the successor of each.                     *)
LEMMA InductiveSet ==
  ASSUME NEW S \in SUBSET Nat, 0 \in S, \A n \in S : n + 1 \in S
  PROVE  S = Nat
<1> SUFFICES ASSUME Nat \ S # {} PROVE FALSE
  OBVIOUS
<1>1. PICK n \in Nat \ S : \A y \in Nat \ S : n <= y
  BY LeastNumber
<1>2. n # 0
  OBVIOUS
<1>3. n - 1 \in S
  BY <1>1, <1>2
<1> QED BY <1>3

(* f is defined by recursion on 1..(n + 1): f[k + 1] is step[<<f[k], k>>].  *)
Recurrence(f, n, base, step) ==
  \A k \in 1..(n + 1) : f[k] = IF k = 1 THEN base ELSE step[<<f[k - 1], k - 1>>]

(* Such a function exists, and its values are where base and step are.     *)
LEMMA RecursiveFunction ==
  ASSUME NEW n \in Nat, NEW S, NEW base \in S, NEW step \in [S \X (1..n) -> S]
  PROVE  \E f \in [1..(n + 1) -> S] : Recurrence(f, n, base, step)
<1> DEFINE Rec(m, f) == \A k \in 1..(m + 1) :
             f[k] = IF k = 1 THEN base ELSE step[<<f[k - 1], k - 1>>]
           I == {m \in Nat : m <= n => \E f \in [1..(m + 1) -> S] : Rec(m, f)}
<1>1. 0 \in I
  <2> DEFINE f == [k \in 1..1 |-> base]
  <2>1. f \in [1..(0 + 1) -> S] /\ Rec(0, f)
    OBVIOUS
  <2> QED BY <2>1
<1>2. ASSUME NEW m \in I PROVE m + 1 \in I
  <2> SUFFICES ASSUME m + 1 <= n
               PROVE  \E g \in [1..(m + 2) -> S] : Rec(m + 1, g)
    OBVIOUS
  <2>1. PICK f \in [1..(m + 1) -> S] : Rec(m, f)
    OBVIOUS
  <2> DEFINE g == [k \in 1..(m + 2) |->
                     IF k = m + 2 THEN step[<<f[m + 1], m + 1>>] ELSE f[k]]
  <2>2. g \in [1..(m + 2) -> S]
    <3>1. step[<<f[m + 1], m + 1>>] \in S
      OBVIOUS
    <3> QED BY <3>1
  <2>3. ASSUME NEW k \in 1..(m + 2)
        PROVE  g[k] = IF k = 1 THEN base ELSE step[<<g[k - 1], k - 1>>]
    <3>1. CASE k = m + 2
      <4>1. k # 1 /\ k - 1 = m + 1 /\ m + 1 \in 1..(m + 1) /\ m + 1 # m + 2
        BY <3>1
      <4>2. g[k - 1] = f[m + 1]
        BY <4>1
      <4> QED BY <3>1, <4>1, <4>2
    <3>2. CASE k # m + 2
      <4>1. k \in 1..(m + 1) /\ g[k] = f[k] /\ (k # 1 => g[k - 1] = f[k - 1])
        BY <3>2
      <4> QED BY <4>1, <2>1
    <3> QED BY <3>1, <3>2
  <2> HIDE DEF g
  <2> QED BY <2>2, <2>3
<1> HIDE DEF I
<1>3. I = Nat
  <2>1. I \in SUBSET Nat
    BY DEF I
  <2> QED BY <1>1, <1>2, <2>1, InductiveSet
<1>4. n \in I
  BY <1>3
<1> QED BY <1>4 DEF I, Recurrence
-----------------------------------------------------------------------------
(* Headers as they reach HandlePragma: the end of the line is not in them. *)
Header == Seq(Kinds \ {"eod"})

(* After a token a test is due, or the header is accepted or rejected.     *)
LEMMA LexedType ==
  ASSUME NEW test \in Tests, NEW token \in Kinds
  PROVE  Lexed(test, token) \in Tests
BY DEF Lexed, Tests, Require, Separator

(* TestOf is what its recursion says: the first test is for the keyword,   *)
(* and each token leads from its test to that of the next token.           *)
LEMMA TestOfSteps ==
  ASSUME NEW h \in Header
  PROVE  /\ \A n \in 1..(Len(h) + 1) : TestOf(h, n) \in Tests
         /\ TestOf(h, 1) = "keyword"
         /\ \A n \in 1..Len(h) : TestOf(h, n + 1) = Lexed(TestOf(h, n), h[n])
<1> DEFINE N == Len(h)
           step == [c \in Tests \X (1..N) |-> Lexed(c[1], h[c[2]])]
           Rec(f) == f = [k \in 1..(N + 1) |->
                           IF k = 1 THEN "keyword" ELSE Lexed(f[k - 1], h[k - 1])]
           test == CHOOSE f : Rec(f)
<1>1. N \in Nat /\ \A k \in 1..N : h[k] \in Kinds
  BY DEF Header
<1>2. step \in [Tests \X (1..N) -> Tests]
  BY <1>1, LexedType
<1>3. ASSUME NEW t \in Tests, NEW k \in 1..N
      PROVE  step[<<t, k>>] = Lexed(t, h[k])
  OBVIOUS
<1>4. \E f \in [1..(N + 1) -> Tests] : Rec(f)
  <2> HIDE DEF N, step
  <2>1. "keyword" \in Tests
    BY DEF Tests
  <2>2. PICK f \in [1..(N + 1) -> Tests] : Recurrence(f, N, "keyword", step)
    BY <1>1, <1>2, <2>1, RecursiveFunction
  <2>3. ASSUME NEW k \in 1..(N + 1), k # 1
        PROVE  step[<<f[k - 1], k - 1>>] = Lexed(f[k - 1], h[k - 1])
    <3>1. k - 1 \in 1..N /\ f[k - 1] \in Tests
      BY <1>1, <2>3
    <3> QED BY <3>1, <1>3
  <2>4. Rec(f)
    BY <2>2, <2>3 DEF Recurrence
  <2> QED BY <2>4
<1>5. Rec(test)
  BY <1>4
<1>6. TestOf(h, 1) = test[1]
  BY DEF TestOf
<1>7. \A n : TestOf(h, n) = test[n]
  BY DEF TestOf
<1> HIDE DEF test
<1>8. \A n \in 1..(N + 1) : test[n] \in Tests
  <2> DEFINE T == {n \in 1..(N + 1) : test[n] \notin Tests}
  <2> SUFFICES ASSUME T # {} PROVE FALSE
    OBVIOUS
  <2>1. PICK n \in T : \A m \in T : n <= m
    <3>1. T \in SUBSET Nat
      BY <1>1
    <3> QED BY <3>1, LeastNumber
  <2>2. n # 1
    BY <1>5 DEF Tests
  <2>3. n - 1 \in 1..N /\ n - 1 \notin T
    BY <1>1, <2>1, <2>2
  <2>4. test[n] = Lexed(test[n - 1], h[n - 1])
    BY <1>5, <2>2
  <2> QED BY <1>1, <2>3, <2>4, LexedType
<1>9. test[1] = "keyword"
  BY <1>1, <1>5
<1>10. ASSUME NEW n \in 1..N
       PROVE  test[n + 1] = Lexed(test[n], h[n])
  <2>1. n + 1 \in 1..(N + 1) /\ n + 1 # 1 /\ (n + 1) - 1 = n
    BY <1>1
  <2> QED BY <1>5, <2>1
<1> QED BY <1>7, <1>8, <1>9, <1>10

(* What each test of HandlePragma does with its token.                     *)
LEMMA LexedCases ==
  ASSUME NEW token
  PROVE  /\ Lexed("keyword", token) =
              IF token = "particle" THEN "type" ELSE "rejected"
         /\ Lexed("type", token) = IF token = "grid" THEN "lparen" ELSE "rejected"
         /\ Lexed("lparen", token) =
              IF token = "lparen" THEN "dimension" ELSE "rejected"
         /\ Lexed("dimension", token) =
              IF token \in Identifiers THEN "separator" ELSE "rejected"
         /\ token = "comma" => Lexed("separator", token) = "dimension"
         /\ token = "rparen" => Lexed("separator", token) = "eod"
         /\ token \notin {"comma", "rparen"} => Lexed("separator", token) = "rejected"
         /\ Lexed("eod", token) = IF token = "eod" THEN "accepted" ELSE "rejected"
         /\ Lexed("accepted", token) = "rejected"
         /\ Lexed("rejected", token) = "rejected"
BY DEF Lexed, Require, Separator

(* A header is accepted when only the end of the line is still due.        *)
LEMMA AcceptedIsEod ==
  ASSUME NEW h \in Header
  PROVE  Accepted(h) <=> TestOf(h, Len(h) + 1) = "eod"
<1>1. TestOf(h, Len(h) + 1) \in Tests
  BY TestOfSteps DEF Header
<1> QED BY <1>1, LexedCases DEF Accepted, Tests

(* What has been read when the nth token is tested and none was in error.  *)
Opened(h) == h[1] = "particle" /\ h[2] = "grid" /\ h[3] = "lparen"

Listed(h, n) ==
  \A k \in 4..n : IF k % 2 = 0 THEN h[k] \in Identifiers ELSE h[k] = "comma"

Shape(h, n) ==
  /\ TestOf(h, n) = "keyword" => n = 1
  /\ TestOf(h, n) = "type" => n = 2 /\ h[1] = "particle"
  /\ TestOf(h, n) = "lparen" => n = 3 /\ h[1] = "particle" /\ h[2] = "grid"
  /\ TestOf(h, n) = "dimension" =>
       n >= 4 /\ n % 2 = 0 /\ Opened(h) /\ Listed(h, n - 1)
  /\ TestOf(h, n) = "separator" =>
       n >= 5 /\ n % 2 = 1 /\ Opened(h) /\ Listed(h, n - 1)
  /\ TestOf(h, n) = "eod" =>
       n >= 6 /\ n % 2 = 0 /\ h[n - 1] = "rparen" /\ Opened(h) /\ Listed(h, n - 2)
  /\ TestOf(h, n) # "accepted"

(* By induction: the test that is due tells what has been read, so that no *)
(* header with anything else in it gets as far.                            *)
LEMMA EveryTestHasItsShape ==
  ASSUME NEW h \in Header
  PROVE  \A n \in 1..(Len(h) + 1) : Shape(h, n)
<1> DEFINE N == Len(h)
           I == {n \in Nat : n <= N => Shape(h, n + 1)}
<1>1. N \in Nat /\ \A k \in 1..N : h[k] \in Kinds \ {"eod"}
  BY DEF Header
<1>2. 0 \in I
  <2>1. TestOf(h, 0 + 1) = "keyword"
    BY TestOfSteps
  <2> QED BY <2>1 DEF Shape
<1>3. ASSUME NEW m \in I PROVE m + 1 \in I
  <2> SUFFICES ASSUME m + 1 <= N PROVE Shape(h, m + 2)
    OBVIOUS
  <2> DEFINE n == m + 1
  <2>1. n \in 1..N /\ Shape(h, n) /\ m + 2 = n + 1
    BY <1>1
  <2> HIDE DEF n, I
  <2>2. TestOf(h, n) \in Tests
    BY <1>1, <2>1, TestOfSteps
  <2>3. TestOf(h, n + 1) = Lexed(TestOf(h, n), h[n])
    BY <2>1, TestOfSteps
  <2>4. h[n] # "eod" /\ h[n] \in Kinds
    BY <1>1, <2>1
  <2>5. CASE TestOf(h, n) = "keyword"
    BY <2>1, <2>3, <2>5, LexedCases DEF Shape
  <2>6. CASE TestOf(h, n) = "type"
    BY <2>1, <2>3, <2>6, LexedCases DEF Shape
  <2>7. CASE TestOf(h, n) = "lparen"
    <3>1. n = 3 /\ h[1] = "particle" /\ h[2] = "grid"
      BY <2>1, <2>7 DEF Shape
    <3>2. TestOf(h, n + 1) = IF h[n] = "lparen" THEN "dimension" ELSE "rejected"
      BY <2>3, <2>7, LexedCases
    <3>3. h[n] = "lparen" => Opened(h) /\ Listed(h, n)
      BY <3>1 DEF Opened, Listed
    <3> QED BY <2>1, <3>1, <3>2, <3>3 DEF Shape
  <2>8. CASE TestOf(h, n) = "dimension"
    <3>1. n >= 4 /\ n % 2 = 0 /\ Opened(h) /\ Listed(h, n - 1)
      BY <2>1, <2>8 DEF Shape
    <3>2. TestOf(h, n + 1) = IF h[n] \in Identifiers THEN "separator" ELSE "rejected"
      BY <2>3, <2>8, LexedCases
    <3>3. h[n] \in Identifiers => Listed(h, n)
      BY <2>1, <3>1 DEF Listed
    <3>4. (n + 1) - 1 = n /\ (n + 1) % 2 = 1
      BY <2>1, <3>1
    <3> QED BY <2>1, <3>1, <3>2, <3>3, <3>4 DEF Shape
  <2>9. CASE TestOf(h, n) = "separator"
    <3>1. n >= 5 /\ n % 2 = 1 /\ Opened(h) /\ Listed(h, n - 1)
      BY <2>1, <2>9 DEF Shape
    <3>2. /\ h[n] = "comma" => TestOf(h, n + 1) = "dimension"
          /\ h[n] = "rparen" => TestOf(h, n + 1) = "eod"
          /\ h[n] \notin {"comma", "rparen"} => TestOf(h, n + 1) = "rejected"
      BY <2>3, <2>9, LexedCases
    <3>3. h[n] = "comma" => Listed(h, n)
      BY <2>1, <3>1 DEF Listed
    <3>4. (n + 1) - 1 = n /\ (n + 1) - 2 = n - 1 /\ (n + 1) % 2 = 0
      BY <2>1, <3>1
    <3> QED BY <2>1, <3>1, <3>2, <3>3, <3>4 DEF Shape
  <2>10. CASE TestOf(h, n) \in {"eod", "accepted", "rejected"}
    <3>1. TestOf(h, n + 1) = "rejected"
      BY <2>3, <2>4, <2>10, LexedCases
    <3> QED BY <2>1, <3>1 DEF Shape
  <2> QED BY <2>2, <2>5, <2>6, <2>7, <2>8, <2>9, <2>10 DEF Tests
<1> HIDE DEF I
<1>4. I = Nat
  <2>1. I \in SUBSET Nat
    BY DEF I
  <2> QED BY <1>2, <1>3, <2>1, InductiveSet
<1>5. ASSUME NEW n \in 1..(N + 1) PROVE Shape(h, n)
  <2>1. n - 1 \in I /\ n - 1 <= N /\ (n - 1) + 1 = n
    BY <1>1, <1>4
  <2> QED BY <2>1 DEF I
<1> QED BY <1>5

(* Along a header of the grammar the tests are due in this order.          *)
LEMMA TestsOfTheGrammar ==
  ASSUME NEW h \in Header, Grammatical(h)
  PROVE  \A n \in 1..(Len(h) + 1) :
           TestOf(h, n) = CASE n = 1 -> "keyword"
                            [] n = 2 -> "type"
                            [] n = 3 -> "lparen"
                            [] n \in 4..Len(h) /\ n % 2 = 0 -> "dimension"
                            [] n \in 4..Len(h) /\ n % 2 = 1 -> "separator"
                            [] OTHER -> "eod"
<1> DEFINE N == Len(h)
           Due(n) == CASE n = 1 -> "keyword"
                       [] n = 2 -> "type"
                       [] n = 3 -> "lparen"
                       [] n \in 4..N /\ n % 2 = 0 -> "dimension"
                       [] n \in 4..N /\ n % 2 = 1 -> "separator"
                       [] OTHER -> "eod"
           I == {n \in Nat : n <= N => TestOf(h, n + 1) = Due(n + 1)}
<1>1. N \in Nat /\ N >= 5 /\ N % 2 = 1
  <2>1. N \in Nat
    BY DEF Header
  <2>2. N >= 5 /\ N % 2 = 1
    BY Zenon DEF Grammatical
  <2> QED BY <2>1, <2>2
<1>2. 0 \in I
  BY TestOfSteps
<1>3. ASSUME NEW m \in I PROVE m + 1 \in I
  <2> SUFFICES ASSUME m + 1 <= N PROVE TestOf(h, m + 2) = Due(m + 2)
    OBVIOUS
  <2> DEFINE n == m + 1
  <2>1. n \in 1..N /\ TestOf(h, n) = Due(n) /\ m + 2 = n + 1
    BY <1>1
  <2> HIDE DEF n, I
  <2>2. TestOf(h, n + 1) = Lexed(TestOf(h, n), h[n])
    BY <2>1, TestOfSteps
  <2>3. CASE n = 1
    <3>1. h[1] = "particle"
      BY DEF Grammatical
    <3> QED BY <2>1, <2>2, <2>3, <3>1, LexedCases
  <2>4. CASE n = 2
    <3>1. h[2] = "grid"
      BY DEF Grammatical
    <3> QED BY <2>1, <2>2, <2>4, <3>1, LexedCases
  <2>5. CASE n = 3
    <3>1. h[3] = "lparen"
      BY DEF Grammatical
    <3>2. 4 \in 4..N /\ 4 % 2 = 0
      BY <1>1
    <3> QED BY <2>1, <2>2, <2>5, <3>1, <3>2, LexedCases
  <2>6. CASE n >= 4 /\ n % 2 = 0
    <3>1. n \in 4..(N - 1) /\ n + 1 \in 4..N /\ (n + 1) % 2 = 1
      BY <1>1, <2>1, <2>6
    <3>2. h[n] \in Identifiers
      BY <2>6, <3>1 DEF Grammatical
    <3> QED BY <2>1, <2>2, <2>6, <3>1, <3>2, LexedCases
  <2>7. CASE n >= 4 /\ n # N /\ n % 2 = 1
    <3>1. n \in 4..(N - 1) /\ n + 1 \in 4..N /\ (n + 1) % 2 = 0
      BY <1>1, <2>1, <2>7
    <3>2. h[n] = "comma"
      BY <2>7, <3>1 DEF Grammatical
    <3> QED BY <2>1, <2>2, <2>7, <3>1, <3>2, LexedCases
  <2>8. CASE n = N
    <3>1. h[n] = "rparen"
      BY <2>8 DEF Grammatical
    <3> QED BY <1>1, <2>1, <2>2, <2>8, <3>1, LexedCases
  <2> QED BY <2>1, <2>3, <2>4, <2>5, <2>6, <2>7, <2>8
<1> HIDE DEF I
<1>4. I = Nat
  <2>1. I \in SUBSET Nat
    BY DEF I
  <2> QED BY <1>2, <1>3, <2>1, InductiveSet
<1>5. ASSUME NEW n \in 1..(N + 1) PROVE TestOf(h, n) = Due(n)
  <2>1. n - 1 \in I /\ n - 1 <= N /\ (n - 1) + 1 = n
    BY <1>1, <1>4
  <2> HIDE DEF Due
  <2> QED BY <2>1 DEF I
<1> QED BY <1>5

(* For every header, of any length: HandlePragma gets past the header      *)
(* exactly when it is "particle grid (id {, id})". A token too many, too   *)
(* few or in the place of another leads to one of its error returns, and   *)
(* no good header does.                                                    *)
THEOREM HeaderAccepted ==
  ASSUME NEW h \in Header
  PROVE  Accepted(h) <=> Grammatical(h)
<1>1. ASSUME Grammatical(h) PROVE Accepted(h)
  <2>1. Len(h) \in Nat /\ Len(h) >= 5
    <3>1. Len(h) \in Nat
      BY DEF Header
    <3>2. Len(h) >= 5
      BY <1>1, Zenon DEF Grammatical
    <3> QED BY <3>1, <3>2
  <2>2. TestOf(h, Len(h) + 1) = "eod"
    BY <1>1, <2>1, TestsOfTheGrammar
  <2> QED BY <2>2, AcceptedIsEod
<1>2. ASSUME Accepted(h) PROVE Grammatical(h)
  <2> DEFINE n == Len(h) + 1
  <2>1. Len(h) \in Nat /\ n \in 1..(Len(h) + 1)
    BY DEF Header
  <2>2. TestOf(h, n) = "eod" /\ Shape(h, n)
    BY <1>2, <2>1, AcceptedIsEod, EveryTestHasItsShape
  <2>3. n >= 6 /\ n % 2 = 0 /\ h[n - 1] = "rparen" /\ Opened(h) /\ Listed(h, n - 2)
    BY <2>2 DEF Shape
  <2>4. n - 1 = Len(h) /\ n - 2 = Len(h) - 1 /\ Len(h) >= 5 /\ Len(h) % 2 = 1
    BY <2>1, <2>3
  <2> HIDE DEF n
  <2> QED BY <2>3, <2>4 DEF Grammatical, Opened, Listed
<1> QED BY <1>1, <1>2

(* An accepted header has made a PragmaParticle.                           *)
LEMMA AcceptedIsCreated ==
  ASSUME NEW h \in Header, Accepted(h)
  PROVE  Created(h)
<1>1. Grammatical(h)
  BY HeaderAccepted
<1>2. Len(h) \in Nat /\ Len(h) >= 5
  <2>1. Len(h) \in Nat
    BY DEF Header
  <2>2. Len(h) >= 5
    BY <1>1, Zenon DEF Grammatical
  <2> QED BY <2>1, <2>2
<1>3. 2 \in DOMAIN h /\ TestOf(h, 2) = "type"
  BY <1>1, <1>2, TestsOfTheGrammar DEF Header
<1>4. h[2] \in Identifiers
  BY <1>1 DEF Grammatical, Identifiers
<1> QED BY <1>3, <1>4 DEF Created

(* Dimensions is what its recursion says: a name is appended where a       *)
(* dimension was due.                                                      *)
LEMMA DimensionsSteps ==
  ASSUME NEW h \in Header
  PROVE  \E d : /\ d[1] = <<>>
                /\ \A k \in 1..Len(h) :
                     d[k + 1] = IF TestOf(h, k) = "dimension"
                                THEN Append(d[k], k) ELSE d[k]
                /\ Dimensions(h) = d[Len(h) + 1]
<1> DEFINE N == Len(h)
           step == [c \in Seq(Nat) \X (1..N) |->
                      IF TestOf(h, c[2]) = "dimension" THEN Append(c[1], c[2]) ELSE c[1]]
           Rec(f) == f = [k \in 1..(N + 1) |->
             CASE k = 1 -> <<>>
               [] k > 1 /\ TestOf(h, k - 1) = "dimension" -> Append(f[k - 1], k - 1)
               [] OTHER -> f[k - 1]]
           d == CHOOSE f : Rec(f)
<1>1. N \in Nat
  BY DEF Header
<1>2. step \in [Seq(Nat) \X (1..N) -> Seq(Nat)]
  <2>1. ASSUME NEW c \in Seq(Nat) \X (1..N)
        PROVE  (IF TestOf(h, c[2]) = "dimension" THEN Append(c[1], c[2]) ELSE c[1])
                 \in Seq(Nat)
    <3>1. c[1] \in Seq(Nat) /\ c[2] \in Nat
      BY <1>1
    <3>2. Append(c[1], c[2]) \in Seq(Nat)
      BY <3>1, AppendProperties
    <3> QED BY <3>1, <3>2
  <2> QED BY <2>1
<1>3. ASSUME NEW s \in Seq(Nat), NEW k \in 1..N
      PROVE  step[<<s, k>>] = IF TestOf(h, k) = "dimension" THEN Append(s, k) ELSE s
  OBVIOUS
<1>4. \E f : Rec(f)
  <2> HIDE DEF N, step
  <2>1. <<>> \in Seq(Nat)
    OBVIOUS
  <2>2. PICK f \in [1..(N + 1) -> Seq(Nat)] : Recurrence(f, N, <<>>, step)
    BY <1>1, <1>2, <2>1, RecursiveFunction
  <2>3. ASSUME NEW k \in 1..(N + 1), k # 1
        PROVE  f[k] = IF TestOf(h, k - 1) = "dimension"
                      THEN Append(f[k - 1], k - 1) ELSE f[k - 1]
    <3>1. k - 1 \in 1..N /\ f[k - 1] \in Seq(Nat)
      BY <1>1, <2>3
    <3>2. f[k] = step[<<f[k - 1], k - 1>>]
      BY <2>2, <2>3 DEF Recurrence
    <3> QED BY <3>1, <3>2, <1>3
  <2>4. f[1] = <<>>
    <3>1. 1 \in 1..(N + 1)
      BY <1>1
    <3> QED BY <2>2, <3>1, Zenon DEF Recurrence
  <2>5. ASSUME NEW k \in 1..(N + 1)
        PROVE  f[k] = CASE k = 1 -> <<>>
                        [] k > 1 /\ TestOf(h, k - 1) = "dimension" ->
                             Append(f[k - 1], k - 1)
                        [] OTHER -> f[k - 1]
    <3>1. CASE k = 1
      BY <2>4, <3>1
    <3>2. CASE k # 1
      <4>1. k > 1
        BY <1>1, <3>2
      <4> QED BY <2>3, <3>2, <4>1
    <3> QED BY <3>1, <3>2
  <2>6. Rec(f)
    BY <2>5
  <2> QED BY <2>6
<1>5. Rec(d)
  BY <1>4
<1>6. Dimensions(h) = d[N + 1]
  BY DEF Dimensions
<1> HIDE DEF d
<1>7. d[1] = <<>>
  BY <1>1, <1>5
<1>8. ASSUME NEW k \in 1..N
      PROVE  d[k + 1] = IF TestOf(h, k) = "dimension" THEN Append(d[k], k) ELSE d[k]
  <2>1. k + 1 \in 1..(N + 1) /\ k + 1 # 1 /\ (k + 1) - 1 = k /\ k + 1 > 1
    BY <1>1
  <2> QED BY <1>5, <2>1
<1> QED BY <1>6, <1>7, <1>8

(* The name at an odd place is not stored before the place behind it.      *)
LEMMA OddHalves ==
  \A n \in Nat : n >= 4 /\ n % 2 # 0 => (n - 3) \div 2 = (n + 1 - 3) \div 2
OBVIOUS

(* The calls of addDimension have then stored every name between the       *)
(* parentheses, each once and in the order in which they are written.      *)
THEOREM DimensionsAreNames ==
  ASSUME NEW h \in Header, Grammatical(h)
  PROVE  Dimensions(h) = Names(h)
<1> DEFINE N == Len(h)
           Upto(n) == 1..((n - 3) \div 2)
           Evens(S) == [j \in S |-> 2 * j + 2]
           Before(n) == Evens(Upto(n))
<1>1. N \in Nat /\ N >= 5 /\ N % 2 = 1
  <2>1. N \in Nat
    BY DEF Header
  <2>2. N >= 5 /\ N % 2 = 1
    BY Zenon DEF Grammatical
  <2> QED BY <2>1, <2>2
<1>2. PICK d : /\ d[1] = <<>>
               /\ \A k \in 1..N :
                    d[k + 1] = IF TestOf(h, k) = "dimension"
                               THEN Append(d[k], k) ELSE d[k]
               /\ Dimensions(h) = d[N + 1]
  BY DimensionsSteps
<1> DEFINE I == {n \in Nat : n <= N => d[n + 1] = Before(n + 1)}
<1>3. 0 \in I
  <2>1. (1 - 3) \div 2 = -1 /\ 1..-1 = {}
    OBVIOUS
  <2>2. Before(1) = <<>>
    BY <2>1
  <2> QED BY <1>2, <2>2
<1>4. ASSUME NEW m \in I PROVE m + 1 \in I
  <2> SUFFICES ASSUME m + 1 <= N PROVE d[m + 2] = Before(m + 2)
    OBVIOUS
  <2> DEFINE n == m + 1
  <2>1. n \in 1..N /\ d[n] = Before(n) /\ m + 2 = n + 1
    BY <1>1
  <2> HIDE DEF n, I
  <2>2. TestOf(h, n) = "dimension" <=> n >= 4 /\ n % 2 = 0
    BY <1>1, <2>1, TestsOfTheGrammar
  <2>3. CASE n >= 4 /\ n % 2 = 0
    <3> DEFINE m1 == (n - 3) \div 2
    <3>1. m1 \in Nat /\ (n + 1 - 3) \div 2 = m1 + 1 /\ 2 * (m1 + 1) + 2 = n
      BY <2>1, <2>3
    <3>2. d[n + 1] = Append(Evens(1..m1), n)
      BY <1>2, <2>1, <2>2, <2>3
    <3> HIDE DEF m1
    <3>3. Append(Evens(1..m1), n) = Evens(1..(m1 + 1))
      BY <3>1
    <3>4. Upto(n + 1) = 1..(m1 + 1)
      BY <3>1
    <3> HIDE DEF Evens, Upto
    <3> QED BY <2>1, <3>2, <3>3, <3>4, Zenon
  <2>4. CASE ~(n >= 4 /\ n % 2 = 0)
    <3>1. Upto(n) = Upto(n + 1)
      <4>1. CASE n \in 1..3
        BY <4>1
      <4>2. CASE n >= 4
        <5>1. (n - 3) \div 2 = (n + 1 - 3) \div 2
          <6>1. n \in Nat /\ n >= 4 /\ n % 2 # 0
            BY <2>1, <2>4, <4>2
          <6> QED BY <6>1, OddHalves
        <5> QED BY <2>1, <5>1
      <4> QED BY <2>1, <4>1, <4>2
    <3> HIDE DEF Evens
    <3> HIDE DEF Upto
    <3>2. Before(n) = Before(n + 1)
      BY <3>1, Zenon
    <3> QED BY <1>2, <2>1, <2>2, <2>4, <3>2
  <2> QED BY <2>3, <2>4
<1> HIDE DEF I
<1>5. I = Nat
  <2>1. I \in SUBSET Nat
    BY DEF I
  <2> QED BY <1>3, <1>4, <2>1, InductiveSet
<1>6. d[N + 1] = Before(N + 1)
  <2>1. N \in I
    BY <1>1, <1>5
  <2> QED BY <2>1 DEF I
<1>7. (N + 1 - 3) \div 2 = (N - 3) \div 2
  BY <1>1
<1> QED BY <1>2, <1>6, <1>7 DEF Names

(* The dimensions of an accepted header are positions in it.               *)
LEMMA DimensionsType ==
  ASSUME NEW h \in Header, Accepted(h)
  PROVE  Dimensions(h) \in Seq(Nat)
<1>1. Grammatical(h)
  BY HeaderAccepted
<1>2. Dimensions(h) = Names(h)
  BY <1>1, DimensionsAreNames
<1>3. Len(h) \in Nat /\ Len(h) >= 5
  <2>1. Len(h) \in Nat
    BY DEF Header
  <2>2. Len(h) >= 5
    BY <1>1, Zenon DEF Grammatical
  <2> QED BY <2>1, <2>2
<1>4. (Len(h) - 3) \div 2 \in Nat
  BY <1>3
<1>5. Names(h) \in Seq(Nat)
  <2> DEFINE m == (Len(h) - 3) \div 2
  <2>1. Names(h) = [k \in 1..m |-> 2 * k + 2]
    BY DEF Names
  <2>2. m \in Nat
    BY <1>4
  <2> HIDE DEF m
  <2>3. \A k \in 1..m : 2 * k + 2 \in Nat
    BY <2>2
  <2>4. [k \in 1..m |-> 2 * k + 2] \in Seq(Nat)
    BY <2>2, <2>3
  <2> QED BY <2>1, <2>4
<1> QED BY <1>2, <1>5
-----------------------------------------------------------------------------
(* The types of a frame, of a particle and of the blocks in them.          *)
Modes == {"open", "scan", "braced", "line", "done"}

Block == [begin : Nat, end : Nat]

FrameSet ==
  [line : Nat, id : Nat, dimensions : Seq(Nat), begin : Nat, end : Nat,
   blocks : Seq(Block),
   mark : Nat, mode : Modes, braces : Nat, inner : Nat, start : Nat]

ParticleSet ==
  [line : Nat, id : Nat, dimensions : Seq(Nat), begin : Nat, end : Nat,
   blocks : Seq(Block)]

(* What a frame counts is positive while it is being counted, and nothing  *)
(* is counted before the first token.                                      *)
CountsArePositive(f) ==
  /\ f.mode = "open" => f.braces = 0
  /\ f.mode \in {"scan", "braced", "line"} => f.braces >= 1
  /\ f.mode = "braced" => f.inner >= 1

(* The types of the variables.                                             *)
IsTyped ==
  /\ src \in Sources
  /\ raw \in 1..(Eof + 1)
  /\ cache \in Seq(Positions)
  /\ cpos \in 0..Len(cache)
  /\ frames \in Seq(FrameSet)
  /\ known \in BOOLEAN
  /\ inSync \in BOOLEAN
  /\ counter \in Nat
  /\ particles \in Seq(ParticleSet)
  /\ seen \in Seq(Positions)
  /\ ignored \in SUBSET Positions
  /\ outside \in SUBSET Positions

(* A frame that has been fed has a token to go back to, the marks of the   *)
(* frames are in order, and only the innermost frame may be done.          *)
MarksInOrder ==
  /\ \A n \in 1..Len(frames) :
       /\ CountsArePositive(frames[n])
       /\ frames[n].mark <= cpos
       /\ frames[n].mode # "open" => frames[n].mark < cpos
       /\ n # Len(frames) => frames[n].mode # "done"
  /\ \A m, n \in 1..Len(frames) : m < n => frames[m].mark <= frames[n].mark

TypeInv == IsTyped /\ MarksInOrder

(* The behaviours of the handler, whether or not they go on.              *)
HandlerRuns == Init /\ [][Next]_vars
-----------------------------------------------------------------------------
(* A file is a sequence of items, none of which is the end of the file.    *)
LEMMA SourceType ==
  ASSUME src \in Sources
  PROVE  /\ Len(src) \in Nat
         /\ \A t \in 1..Len(src) : src[t].kind # "eof" /\ HeaderOf(t) \in Header
<1>1. src \in Seq(Item)
  BY PragmaHandlerAssumption
<1>2. Len(src) \in Nat /\ \A t \in 1..Len(src) : src[t] \in Item
  BY <1>1
<1> QED BY <1>2 DEF Item, HeaderOf, Header

(* The end of the file is the only place of the kind "eof".                *)
LEMMA EofKind ==
  ASSUME src \in Sources
  PROVE  /\ Eof \in Nat /\ Eof >= 1 /\ Eof \in Positions
         /\ \A t \in Nat : t >= Eof => Kind(t) = "eof"
         /\ \A t \in Positions : Kind(t) = "eof" => t = Eof
         /\ \A t \in Positions : Kind(t) # "eof" => t \in 1..Len(src)
         /\ Positions \subseteq Nat
BY SourceType DEF Eof, Kind, Positions

(* A brace counts for 1 or -1 and any other item for nothing.              *)
LEMMA BraceCases ==
  ASSUME NEW t
  PROVE  /\ Kind(t) = "lb" => Brace(t) = 1
         /\ Kind(t) = "rb" => Brace(t) = -1
         /\ Kind(t) \notin {"lb", "rb"} => Brace(t) = 0
         /\ Brace(t) \in {-1, 0, 1}
BY DEF Brace
-----------------------------------------------------------------------------
(* What the loops do to a frame.  g follows f when it is the same call and *)
(* its counts are still right.                                             *)
Follows(g, f) ==
  /\ g \in FrameSet
  /\ CountsArePositive(g)
  /\ g.mode # "open"
  /\ g.line = f.line /\ g.id = f.id /\ g.dimensions = f.dimensions
  /\ g.mark = f.mark

(* The end of a turn of the loop of HandlePragma.                          *)
LEMMA LeaveFollows ==
  ASSUME NEW f \in FrameSet, NEW t \in Nat
  PROVE  Follows(Leave(f, t), f)
<1>1. CASE f.braces = 0 \/ Kind(t) = "eof"
  <2> DEFINE e == IF Kind(t) = "rb" THEN t ELSE f.end
             g == [f EXCEPT !.mode = "done", !.end = e]
  <2>1. e \in Nat /\ "done" \in Modes
    BY DEF FrameSet, Modes
  <2>2. Leave(f, t) = g
    BY <1>1 DEF Leave
  <2> HIDE DEF e
  <2>3. g \in FrameSet /\ g.mode = "done" /\ g.line = f.line /\ g.id = f.id
        /\ g.dimensions = f.dimensions /\ g.mark = f.mark
    BY <2>1 DEF FrameSet
  <2> HIDE DEF g
  <2> QED BY <2>2, <2>3 DEF Follows, CountsArePositive
<1>2. CASE ~(f.braces = 0 \/ Kind(t) = "eof")
  <2> DEFINE g == [f EXCEPT !.mode = "scan"]
  <2>1. "scan" \in Modes
    BY DEF Modes
  <2>2. Leave(f, t) = g
    BY <1>2 DEF Leave
  <2>3. g \in FrameSet /\ g.mode = "scan" /\ g.line = f.line /\ g.id = f.id
        /\ g.dimensions = f.dimensions /\ g.mark = f.mark /\ g.braces = f.braces
    BY <2>1 DEF FrameSet
  <2>4. f.braces >= 1
    BY <1>2 DEF FrameSet
  <2> HIDE DEF g
  <2> QED BY <2>2, <2>3, <2>4 DEF Follows, CountsArePositive
<1> QED BY <1>1, <1>2

(* A turn of the loop outside of a synchronized block.                     *)
LEMMA CountFollows ==
  ASSUME NEW f \in FrameSet, NEW t \in Nat, f.braces >= 1
  PROVE  Follows(Count(f, t), f)
<1> DEFINE g == [f EXCEPT !.braces = @ + Brace(t)]
<1>1. f.braces \in Nat
  BY DEF FrameSet
<1>2. f.braces + Brace(t) \in Nat
  BY <1>1, BraceCases
<1>3. g \in FrameSet /\ g.line = f.line /\ g.id = f.id
      /\ g.dimensions = f.dimensions /\ g.mark = f.mark
  BY <1>2 DEF FrameSet
<1> HIDE DEF g
<1>4. Follows(Leave(g, t), g)
  BY <1>3, LeaveFollows
<1>5. Count(f, t) = Leave(g, t)
  BY DEF Count, g
<1> QED BY <1>3, <1>4, <1>5 DEF Follows

(* A turn that ends a synchronized block.                                  *)
LEMMA EndBlockFollows ==
  ASSUME NEW f \in FrameSet, NEW t \in Nat, f.braces >= 1
  PROVE  Follows(EndBlock(f, t), f)
<1> DEFINE b == [begin |-> f.start, end |-> t]
           g == [f EXCEPT !.blocks = Append(@, b)]
<1>1. b \in Block /\ f.blocks \in Seq(Block)
  BY DEF FrameSet, Block
<1>2. Append(f.blocks, b) \in Seq(Block)
  BY <1>1, AppendProperties
<1>3. g \in FrameSet /\ g.line = f.line /\ g.id = f.id /\ g.braces = f.braces
      /\ g.dimensions = f.dimensions /\ g.mark = f.mark
  BY <1>2 DEF FrameSet
<1> HIDE DEF g
<1>4. Follows(Count(g, t), g)
  BY <1>3, CountFollows
<1>5. EndBlock(f, t) = Count(g, t)
  BY DEF EndBlock, g
<1> QED BY <1>3, <1>4, <1>5 DEF Follows

(* The first token of the lookahead.                                       *)
LEMMA OpenFollows ==
  ASSUME NEW f \in FrameSet, NEW t \in Nat
  PROVE  Follows(Open(f, t), f)
<1>1. CASE Kind(t) = "lb"
  <2> DEFINE g == [f EXCEPT !.mode = "scan", !.braces = 1, !.begin = t]
  <2>1. "scan" \in Modes
    BY DEF Modes
  <2>2. Open(f, t) = g
    BY <1>1 DEF Open
  <2>3. g \in FrameSet /\ g.mode = "scan" /\ g.line = f.line /\ g.id = f.id
        /\ g.dimensions = f.dimensions /\ g.mark = f.mark /\ g.braces = 1
    BY <2>1 DEF FrameSet
  <2> HIDE DEF g
  <2> QED BY <2>2, <2>3 DEF Follows, CountsArePositive
<1>2. CASE Kind(t) # "lb"
  BY <1>2, LeaveFollows DEF Open
<1> QED BY <1>1, <1>2

(* The first token of a synchronized block.                                *)
LEMMA BeginBlockFollows ==
  ASSUME NEW f \in FrameSet, NEW t \in Nat, f.braces >= 1
  PROVE  Follows(BeginBlock(f, t), f)
<1> DEFINE g == [f EXCEPT !.start = t]
<1>1. g \in FrameSet /\ g.line = f.line /\ g.id = f.id /\ g.braces = f.braces
      /\ g.dimensions = f.dimensions /\ g.mark = f.mark
  BY DEF FrameSet
<1>2. CASE Kind(t) = "lb"
  <2> DEFINE k == [g EXCEPT !.mode = "braced", !.inner = 1]
  <2>1. BeginBlock(f, t) = k
    BY <1>2 DEF BeginBlock
  <2> HIDE DEF g
  <2>2. "braced" \in Modes
    BY DEF Modes
  <2>3. k \in FrameSet /\ k.mode = "braced" /\ k.line = g.line /\ k.id = g.id
        /\ k.dimensions = g.dimensions /\ k.mark = g.mark /\ k.braces = g.braces
        /\ k.inner = 1
    BY <1>1, <2>2 DEF FrameSet
  <2> HIDE DEF k
  <2> QED BY <1>1, <2>1, <2>3 DEF Follows, CountsArePositive
<1>3. CASE Kind(t) \in {"semi", "eof"}
  <2>1. BeginBlock(f, t) = EndBlock(g, t)
    BY <1>3 DEF BeginBlock
  <2> HIDE DEF g
  <2>2. Follows(EndBlock(g, t), g)
    BY <1>1, EndBlockFollows
  <2> QED BY <1>1, <2>1, <2>2 DEF Follows
<1>4. CASE Kind(t) \notin {"lb", "semi", "eof"}
  <2>1. BeginBlock(f, t) = [g EXCEPT !.mode = "line"]
    BY <1>4 DEF BeginBlock
  <2> HIDE DEF g
  <2> QED BY <1>1, <2>1 DEF Follows, FrameSet, Modes, CountsArePositive
<1> QED BY <1>2, <1>3, <1>4

(* A token of a block in braces.                                           *)
LEMMA BracedFollows ==
  ASSUME NEW f \in FrameSet, NEW t \in Nat, f.mode = "braced", CountsArePositive(f)
  PROVE  Follows(Braced(f, t), f)
<1> DEFINE n == f.inner + Brace(t)
<1>1. f.braces >= 1 /\ f.inner >= 1 /\ f.inner \in Nat
  BY DEF CountsArePositive, FrameSet
<1>2. n \in Nat
  BY <1>1, BraceCases
<1> HIDE DEF n
<1>3. CASE n = 0 \/ Kind(t) = "eof"
  <2>1. Braced(f, t) = EndBlock(f, t)
    BY <1>3 DEF Braced, n
  <2> QED BY <1>1, <2>1, EndBlockFollows
<1>4. CASE ~(n = 0 \/ Kind(t) = "eof")
  <2> DEFINE g == [f EXCEPT !.inner = n]
  <2>1. Braced(f, t) = g
    BY <1>4, Zenon DEF Braced, n
  <2>2. g \in FrameSet /\ g.mode = "braced" /\ g.line = f.line /\ g.id = f.id
        /\ g.dimensions = f.dimensions /\ g.mark = f.mark /\ g.braces = f.braces
        /\ g.inner = n
    BY <1>2 DEF FrameSet
  <2> HIDE DEF g
  <2> QED BY <1>1, <1>2, <1>4, <2>1, <2>2 DEF Follows, CountsArePositive
<1> QED BY <1>3, <1>4

(* A token of a block that ends at `;'.                                    *)
LEMMA LineFollows ==
  ASSUME NEW f \in FrameSet, NEW t \in Nat, f.mode = "line", CountsArePositive(f)
  PROVE  Follows(Line(f, t), f)
<1>1. f.braces >= 1
  BY DEF CountsArePositive
<1>2. CASE Kind(t) \in {"semi", "eof"}
  BY <1>1, <1>2, EndBlockFollows DEF Line
<1>3. CASE Kind(t) \notin {"semi", "eof"}
  BY <1>3 DEF Line, Follows
<1> QED BY <1>2, <1>3

(* Which of the loops gets the token.                                      *)
LEMMA FeedCases ==
  ASSUME NEW f, NEW t
  PROVE  /\ f.mode = "open" => Feed(f, t) = Open(f, t)
         /\ f.mode = "scan" /\ inSync => Feed(f, t) = BeginBlock(f, t)
         /\ f.mode = "scan" /\ ~inSync => Feed(f, t) = Count(f, t)
         /\ f.mode = "braced" => Feed(f, t) = Braced(f, t)
         /\ f.mode = "line" => Feed(f, t) = Line(f, t)
BY DEF Feed

(* Whichever loop gets the token, the counts stay right.                   *)
LEMMA FeedFollows ==
  ASSUME NEW f \in FrameSet, NEW t \in Nat, f.mode # "done", CountsArePositive(f)
  PROVE  Follows(Feed(f, t), f)
<1>1. f.mode \in Modes
  BY DEF FrameSet
<1>2. CASE f.mode = "open"
  BY <1>2, FeedCases, OpenFollows
<1>3. CASE f.mode = "scan" /\ inSync
  BY <1>3, FeedCases, BeginBlockFollows DEF CountsArePositive
<1>4. CASE f.mode = "scan" /\ ~inSync
  BY <1>4, FeedCases, CountFollows DEF CountsArePositive
<1>5. CASE f.mode = "braced"
  BY <1>5, FeedCases, BracedFollows
<1>6. CASE f.mode = "line"
  BY <1>6, FeedCases, LineFollows
<1> QED BY <1>1, <1>2, <1>3, <1>4, <1>5, <1>6 DEF Modes
-----------------------------------------------------------------------------
(* The frames of a sequence of frames.                                     *)
LEMMA FramesTyped ==
  ASSUME NEW fs \in Seq(FrameSet)
  PROVE  /\ Len(fs) \in Nat
         /\ fs = <<>> <=> Len(fs) = 0
         /\ \A n \in 1..Len(fs) :
              /\ fs[n] \in FrameSet
              /\ fs[n].mark \in Nat /\ fs[n].mode \in Modes /\ fs[n].braces \in Nat
              /\ fs[n].line \in Nat /\ fs[n].id \in Nat
<1>1. Len(fs) \in Nat /\ (fs = <<>> <=> Len(fs) = 0)
  BY EmptySeq, LenProperties
<1>2. ASSUME NEW n \in 1..Len(fs) PROVE fs[n] \in FrameSet
  BY ElementOfSeq
<1> QED BY <1>1, <1>2 DEF FrameSet

(* The frames without the innermost one.                                   *)
LEMMA OuterTyped ==
  ASSUME frames \in Seq(FrameSet), frames # <<>>
  PROVE  /\ Outer \in Seq(FrameSet) /\ Len(Outer) = Len(frames) - 1
         /\ \A n \in 1..Len(Outer) : Outer[n] = frames[n]
<1> DEFINE N == Len(frames)
<1>1. N \in Nat /\ N >= 1
  BY FramesTyped
<1>2. \A n \in 1..(N - 1) : frames[n] \in FrameSet
  BY <1>1, FramesTyped
<1>3. Outer = SubSeq(frames, 1, N - 1)
  BY DEF Outer
<1> HIDE DEF N
<1>4. /\ Outer \in Seq(FrameSet)
      /\ Len(Outer) = IF 1 <= N - 1 THEN N - 1 ELSE 0
      /\ \A n \in 1..(N - 1) : Outer[n] = frames[n]
  <2>1. /\ Len(Outer) = IF 1 <= N - 1 THEN (N - 1) - 1 + 1 ELSE 0
        /\ \A n \in 1..((N - 1) - 1 + 1) : Outer[n] = frames[1 + n - 1]
        /\ Outer \in Seq(FrameSet)
    BY <1>1, <1>2, <1>3, SubSeqProperties
  <2> QED BY <1>1, <2>1
<1>5. Len(Outer) = N - 1
  <2>1. CASE N = 1
    BY <1>4, <2>1
  <2>2. CASE N # 1
    BY <1>1, <1>4, <2>2
  <2> QED BY <2>1, <2>2
<1>6. \A n \in 1..Len(Outer) : Outer[n] = frames[n]
  BY <1>4, <1>5
<1> QED BY <1>4, <1>5, <1>6 DEF N

(* A token is given either to the parser or to the innermost frame.        *)
LEMMA DeliverTyped ==
  ASSUME NEW fs \in Seq(FrameSet), NEW t \in Positions, src \in Sources,
         fs # <<>> => /\ fs[Len(fs)].mode # "done"
                      /\ CountsArePositive(fs[Len(fs)]),
         inSync \in BOOLEAN, seen \in Seq(Positions),
         Deliver(fs, t)
  PROVE  /\ frames' \in Seq(FrameSet)
         /\ Len(frames') = Len(fs)
         /\ \A n \in 1..Len(fs) : n # Len(fs) => frames'[n] = fs[n]
         /\ fs # <<>> => /\ Len(fs) \in 1..Len(fs)
                         /\ Follows(frames'[Len(fs)], fs[Len(fs)])
                         /\ frames'[Len(fs)] = Feed(fs[Len(fs)], t)
                         /\ seen' = seen
         /\ fs = <<>> => seen' = Append(seen, t) /\ inSync' = inSync
         /\ seen' \in Seq(Positions)
         /\ inSync' \in BOOLEAN
<1>1. CASE fs = <<>>
  <2>1. frames' = fs /\ seen' = Append(seen, t) /\ inSync' = inSync
    BY <1>1 DEF Deliver
  <2>2. Append(seen, t) \in Seq(Positions)
    BY AppendProperties
  <2>3. 1..Len(fs) = {}
    BY <1>1
  <2> QED BY <1>1, <2>1, <2>2, <2>3
<1>2. CASE fs # <<>>
  <2> DEFINE f == fs[Len(fs)]
  <2>1. frames' = [fs EXCEPT ![Len(fs)] = Feed(f, t)] /\ inSync' = Flag(f, t)
        /\ seen' = seen
    BY <1>2 DEF Deliver
  <2>2. Len(fs) \in 1..Len(fs) /\ f \in FrameSet
    BY <1>2, EmptySeq, LenProperties, ElementOfSeq
  <2>3. Follows(Feed(f, t), f)
    BY <1>2, <2>2, FeedFollows, EofKind
  <2>4. Feed(f, t) \in FrameSet
    BY <2>3 DEF Follows
  <2>5. inSync' \in BOOLEAN
    BY <2>1 DEF Flag
  <2> HIDE DEF f
  <2>6. frames' \in Seq(FrameSet) /\ Len(frames') = Len(fs)
        /\ frames'[Len(fs)] = Feed(f, t)
        /\ \A n \in 1..Len(fs) : n # Len(fs) => frames'[n] = fs[n]
    BY <2>1, <2>2, <2>4, ExceptSeq
  <2> QED BY <1>2, <2>1, <2>2, <2>3, <2>5, <2>6 DEF f
<1> QED BY <1>1, <1>2

(* Feeding the innermost frame keeps the marks in order when the cache is  *)
(* read on from there.                                                     *)
LEMMA DeliverMarks ==
  ASSUME NEW fs \in Seq(FrameSet), frames' \in Seq(FrameSet), cpos' \in Nat,
         Len(frames') = Len(fs),
         \A n \in 1..Len(fs) : n # Len(fs) => frames'[n] = fs[n],
         fs # <<>> => Follows(frames'[Len(fs)], fs[Len(fs)]),
         \A n \in 1..Len(fs) : /\ CountsArePositive(fs[n])
                               /\ fs[n].mark < cpos'
                               /\ n # Len(fs) => fs[n].mode # "done",
         \A m, n \in 1..Len(fs) : m < n => fs[m].mark <= fs[n].mark
  PROVE  MarksInOrder'
<1>1. \A n \in 1..Len(fs) : frames'[n].mark = fs[n].mark
  BY EmptySeq DEF Follows
<1>2. \A n \in 1..Len(fs) : CountsArePositive(frames'[n])
  BY EmptySeq DEF Follows
<1>3. \A n \in 1..Len(fs) : fs[n].mark \in Nat
  BY FramesTyped
<1>4. ASSUME NEW n \in 1..Len(fs)
      PROVE  /\ CountsArePositive(frames'[n])
             /\ frames'[n].mark <= cpos'
             /\ frames'[n].mark < cpos'
             /\ n # Len(fs) => frames'[n].mode # "done"
  BY <1>1, <1>2, <1>3
<1>5. ASSUME NEW m \in 1..Len(fs), NEW n \in 1..Len(fs), m < n
      PROVE  frames'[m].mark <= frames'[n].mark
  BY <1>1, <1>5
<1> QED BY <1>4, <1>5 DEF MarksInOrder, CountsArePositive

(* The type invariant holds when the parser starts.                        *)
LEMMA TypeInvInit == Init => TypeInv
<1> SUFFICES ASSUME Init PROVE TypeInv
  OBVIOUS
<1>1. src \in Sources
  BY DEF Init
<1>2. IsTyped
  <2>1. Eof >= 1 /\ Eof \in Nat
    BY <1>1, EofKind
  <2>2. raw \in 1..(Eof + 1) /\ cpos \in 0..Len(cache) /\ counter \in Nat
    BY <2>1 DEF Init
  <2>3. /\ cache \in Seq(Positions) /\ frames \in Seq(FrameSet)
        /\ particles \in Seq(ParticleSet) /\ seen \in Seq(Positions)
    BY EmptySeq DEF Init
  <2> QED BY <1>1, <2>2, <2>3 DEF Init, IsTyped
<1>3. MarksInOrder
  BY DEF Init, MarksInOrder
<1> QED BY <1>2, <1>3 DEF TypeInv

(* And every step keeps it, with lookaheads nested to any depth.           *)
LEMMA TypeInvStep == TypeInv /\ [Next]_vars => TypeInv'
<1> SUFFICES ASSUME TypeInv, [Next]_vars PROVE TypeInv'
  OBVIOUS
<1> USE DEF TypeInv
<1>1. src \in Sources /\ Eof \in Nat /\ Eof >= 1 /\ Eof \in Positions /\ Positions \subseteq Nat
  BY EofKind DEF IsTyped
<1>2. ASSUME src' = src
      PROVE  Eof' = Eof /\ Positions' = Positions /\ \A t : Kind(t)' = Kind(t)
  BY <1>2 DEF Eof, Positions, Kind
<1>3. InHandler => /\ Len(frames) \in 1..Len(frames) /\ Top \in FrameSet
                   /\ CountsArePositive(Top)
  BY EmptySeq, LenProperties, ElementOfSeq DEF InHandler, Top, IsTyped, MarksInOrder
<1>0. frames \in Seq(FrameSet) /\ \A n \in 1..Len(frames) : frames[n].mark \in Nat
  BY FramesTyped DEF IsTyped
<1>4. raw <= Eof => raw \in Positions
  BY <1>1 DEF IsTyped, Positions
<1>5. CASE UNCHANGED vars
  BY <1>2, <1>5 DEF vars, IsTyped, MarksInOrder
<1>6. CASE LexCached
  <2>1. cpos' = cpos + 1 /\ cpos + 1 \in 1..Len(cache) /\ cache' = cache /\ src' = src
    BY <1>6 DEF LexCached, IsTyped
  <2>2. Deliver(frames, cache[cpos + 1]) /\ (InHandler => Top.mode # "done")
    BY <1>6 DEF LexCached, Lexing
  <2>3. cache[cpos + 1] \in Positions
    BY <2>1 DEF IsTyped
  <2>4. /\ frames' \in Seq(FrameSet) /\ Len(frames') = Len(frames)
        /\ \A n \in 1..Len(frames) : n # Len(frames) => frames'[n] = frames[n]
        /\ InHandler => Follows(frames'[Len(frames)], Top)
        /\ seen' \in Seq(Positions) /\ inSync' \in BOOLEAN
    BY <1>1, <1>3, <2>2, <2>3, DeliverTyped DEF IsTyped, InHandler, Top
  <2>5. IsTyped'
    BY <1>2, <1>6, <2>1, <2>4 DEF IsTyped, LexCached
  <2>6. \A n \in 1..Len(frames) : frames[n].mark < cpos'
    BY <1>0, <2>1 DEF IsTyped, MarksInOrder
  <2>7. cpos' \in Nat
    BY <2>5 DEF IsTyped
  <2>8. MarksInOrder'
    BY <1>0, <2>4, <2>6, <2>7, DeliverMarks DEF MarksInOrder, InHandler, Top
  <2> QED BY <2>5, <2>8
<1>7. CASE LexToken
  <2>1. Deliver(frames, raw) /\ (InHandler => Top.mode # "done") /\ raw \in Positions
        /\ src' = src /\ raw' = raw + 1 /\ raw <= Eof
    BY <1>4, <1>7 DEF LexToken, FromFile, Lexing
  <2>2. /\ frames' \in Seq(FrameSet) /\ Len(frames') = Len(frames)
        /\ \A n \in 1..Len(frames) : n # Len(frames) => frames'[n] = frames[n]
        /\ InHandler => Follows(frames'[Len(frames)], Top)
        /\ seen' \in Seq(Positions) /\ inSync' \in BOOLEAN
    BY <1>1, <1>3, <2>1, DeliverTyped DEF IsTyped, InHandler, Top
  <2>3. cache' \in Seq(Positions) /\ cpos' \in 0..Len(cache')
    <3>1. CASE InHandler
      <4>1. cache' = Append(cache, raw) /\ cpos' = cpos + 1
        BY <1>7, <3>1 DEF LexToken
      <4>2. cache \in Seq(Positions) /\ cpos \in 0..Len(cache) /\ Len(cache) \in Nat
        BY LenProperties DEF IsTyped
      <4>3. cache' \in Seq(Positions) /\ Len(cache') = Len(cache) + 1
        BY <2>1, <4>1, <4>2, AppendProperties
      <4> QED BY <4>1, <4>2, <4>3
    <3>2. CASE ~InHandler
      BY <1>7, <3>2 DEF LexToken
    <3> QED BY <3>1, <3>2
  <2>4. IsTyped'
    BY <1>1, <1>2, <1>7, <2>1, <2>2, <2>3 DEF IsTyped, LexToken
  <2>5. \A n \in 1..Len(frames) : frames[n].mark < cpos'
    <3>1. CASE InHandler
      BY <1>0, <1>7, <3>1 DEF LexToken, IsTyped, MarksInOrder
    <3>2. CASE ~InHandler
      BY <3>2, EmptySeq DEF InHandler, IsTyped
    <3> QED BY <3>1, <3>2
  <2>6. cpos' \in Nat
    BY <2>4 DEF IsTyped
  <2>7. MarksInOrder'
    BY <2>2, <2>5, <2>6, DeliverMarks DEF IsTyped, MarksInOrder, InHandler, Top
  <2> QED BY <2>4, <2>7
<1>8. CASE LexDefine \/ LexBadPragma \/ LexSync
  <2>1. /\ Kind(raw) # "eof" /\ raw' = raw + 1
        /\ UNCHANGED <<src, cache, cpos, frames, particles, seen>>
    BY <1>8 DEF LexDefine, LexBadPragma, LexSync
  <2>2. raw \in Nat /\ raw < Eof
    BY <1>1, <2>1, EofKind DEF IsTyped
  <2>3. known' \in BOOLEAN /\ inSync' \in BOOLEAN /\ counter' \in Nat
    <3>1. known \in BOOLEAN /\ inSync \in BOOLEAN /\ counter \in Nat
      BY DEF IsTyped
    <3>2. NextNumber(HeaderOf(raw), counter) \in Nat
      BY <3>1 DEF NextNumber
    <3> QED BY <1>8, <3>1, <3>2 DEF LexDefine, LexBadPragma, LexSync
  <2>4. ignored' \in SUBSET Positions /\ outside' \in SUBSET Positions
    <3>1. raw \in Positions
      BY <1>1, <1>4, <2>2
    <3>2. ignored \in SUBSET Positions /\ outside \in SUBSET Positions
      BY DEF IsTyped
    <3>3. ignored' \in {ignored, ignored \cup {raw}} /\ outside' \in {outside, outside \cup {raw}}
      BY <1>8, Zenon DEF LexDefine, LexBadPragma, LexSync
    <3> QED BY <3>1, <3>2, <3>3
  <2>5. IsTyped'
    BY <1>1, <1>2, <2>1, <2>2, <2>3, <2>4 DEF IsTyped
  <2>6. MarksInOrder'
    BY <2>1 DEF MarksInOrder
  <2> QED BY <2>5, <2>6
<1>9. CASE LexPragma
  <2> DEFINE f == NewFrame(raw)
  <2>1. /\ Kind(raw) = "pragma" /\ Accepted(HeaderOf(raw)) /\ raw' = raw + 1
        /\ frames' = Append(frames, f) /\ (InHandler => Top.mode # "done")
        /\ UNCHANGED <<src, cache, cpos, known, inSync, particles, seen, ignored, outside>>
    BY <1>9 DEF LexPragma, FromFile, Lexing
  <2>2. raw \in 1..Len(src) /\ raw < Eof
    <3>1. raw \in Nat /\ raw >= 1 /\ Kind(raw) # "eof"
      BY <1>1, <2>1 DEF IsTyped
    <3>2. raw < Eof /\ Len(src) \in Nat /\ Eof = Len(src) + 1
      BY <1>1, <3>1, EofKind, SourceType DEF Eof
    <3> QED BY <3>1, <3>2
  <2>3. Dimensions(HeaderOf(raw)) \in Seq(Nat)
    BY <1>1, <2>1, <2>2, SourceType, DimensionsType
  <2>4. f \in FrameSet /\ CountsArePositive(f) /\ f.mark = cpos /\ f.mode = "open"
    BY <2>2, <2>3 DEF NewFrame, Frame, FrameSet, Modes, CountsArePositive, IsTyped
  <2> HIDE DEF f
  <2>5. /\ frames' \in Seq(FrameSet) /\ Len(frames') = Len(frames) + 1
        /\ \A n \in 1..Len(frames) : frames'[n] = frames[n]
        /\ frames'[Len(frames) + 1] = f
    BY <2>1, <2>4, AppendProperties DEF IsTyped
  <2>6. counter' \in Nat
    BY <1>9 DEF LexPragma, IsTyped, NextNumber
  <2>7. IsTyped'
    BY <1>1, <1>2, <2>1, <2>2, <2>5, <2>6 DEF IsTyped
  <2>8. \A n \in 1..Len(frames) : frames[n].mode # "done"
    BY <2>1, EmptySeq DEF InHandler, Top, MarksInOrder, IsTyped
  <2>9. MarksInOrder'
    <3>1. cpos \in Nat /\ Len(frames) \in Nat /\ cpos' = cpos
      BY <2>1 DEF IsTyped
    <3> QED BY <2>4, <2>5, <2>8, <3>1 DEF MarksInOrder
  <2> QED BY <2>7, <2>9
<1>10. CASE FinishPragma
  <2> DEFINE mark == Top.mark
             t == cache[mark + 1]
  <2>1. /\ InHandler /\ Top.mode = "done" /\ src' = src
        /\ particles' = Append(particles, Particle(Top))
        /\ Deliver(Outer, t)
        /\ UNCHANGED <<src, raw, known, counter, ignored, outside>>
    BY <1>10 DEF FinishPragma, Backtrack
  <2>2. mark \in Nat /\ mark < cpos /\ mark + 1 \in 1..Len(cache)
    <3>1. mark \in Nat /\ mark < cpos
      BY <1>0, <1>3, <2>1 DEF MarksInOrder, Top
    <3>2. Len(cache) \in Nat /\ cpos \in 0..Len(cache)
      BY LenProperties DEF IsTyped
    <3> QED BY <3>1, <3>2
  <2>3. t \in Positions
    BY <2>2 DEF IsTyped
  <2>4. /\ Outer \in Seq(FrameSet) /\ Len(Outer) = Len(frames) - 1
        /\ \A n \in 1..Len(Outer) : Outer[n] = frames[n]
    BY <1>0, <2>1, OuterTyped DEF InHandler
  <2>5. Particle(Top) \in ParticleSet
    BY <1>3, <2>1 DEF Particle, ParticleSet, FrameSet
  <2>6. particles' \in Seq(ParticleSet)
    BY <2>1, <2>5, AppendProperties DEF IsTyped
  <2>7. \A n \in 1..Len(Outer) : /\ CountsArePositive(Outer[n])
                                  /\ Outer[n].mark <= mark
                                  /\ Outer[n].mark \in Nat
                                  /\ Outer[n].mode # "done"
    <3> SUFFICES ASSUME NEW n \in 1..Len(Outer)
                 PROVE  /\ CountsArePositive(frames[n]) /\ frames[n].mark <= mark
                        /\ frames[n].mark \in Nat /\ frames[n].mode # "done"
      BY <2>4
    <3>1. n \in 1..Len(frames) /\ n < Len(frames) /\ Len(frames) \in 1..Len(frames)
      BY <1>3, <2>1, <2>4
    <3> QED BY <1>0, <3>1 DEF MarksInOrder, Top
  <2> HIDE DEF mark, t
  <2>8. /\ frames' \in Seq(FrameSet) /\ Len(frames') = Len(Outer)
        /\ \A n \in 1..Len(Outer) : n # Len(Outer) => frames'[n] = Outer[n]
        /\ Outer # <<>> => Follows(frames'[Len(Outer)], Outer[Len(Outer)])
        /\ seen' \in Seq(Positions) /\ inSync' \in BOOLEAN
    <3>1. Outer # <<>> => Len(Outer) \in 1..Len(Outer)
      BY <2>4, EmptySeq, LenProperties
    <3> QED BY <1>1, <2>1, <2>3, <2>4, <2>7, <3>1, DeliverTyped DEF IsTyped
  <2>9. /\ cache' \in Seq(Positions) /\ cpos' \in 0..Len(cache')
        /\ Outer # <<>> => cpos' = mark + 2
    <3>1. CASE Outer # <<>>
      <4>1. cache' = Append(cache, t) /\ cpos' = mark + 2
        BY <1>10, <3>1 DEF FinishPragma, Backtrack, mark, t
      <4> QED BY <2>2, <2>3, <4>1, AppendProperties DEF IsTyped
    <3>2. CASE Outer = <<>> /\ mark + 1 < Len(cache)
      <4>1. cache' = cache /\ cpos' = mark + 1
        BY <1>10, <3>2 DEF FinishPragma, Backtrack, mark
      <4> QED BY <2>2, <3>2, <4>1 DEF IsTyped
    <3>3. CASE Outer = <<>> /\ ~(mark + 1 < Len(cache))
      <4>1. cache' = <<>> /\ cpos' = 0
        BY <1>10, <3>3 DEF FinishPragma, Backtrack, mark
      <4> QED BY <3>3, <4>1
    <3> QED BY <3>1, <3>2, <3>3
  <2>10. IsTyped'
    BY <1>1, <1>2, <2>1, <2>6, <2>8, <2>9 DEF IsTyped
  <2>11. \A n \in 1..Len(Outer) : Outer[n].mark < cpos'
    BY <2>2, <2>4, <2>7, <2>9, EmptySeq
  <2>12. \A m, n \in 1..Len(Outer) : m < n => Outer[m].mark <= Outer[n].mark
    <3>1. \A n \in 1..Len(Outer) : n \in 1..Len(frames)
      BY <1>3, <2>1, <2>4
    <3> QED BY <2>4, <3>1 DEF MarksInOrder
  <2>13. cpos' \in Nat
    BY <2>10 DEF IsTyped
  <2>14. MarksInOrder'
    BY <2>4, <2>7, <2>8, <2>11, <2>12, <2>13, DeliverMarks
  <2> QED BY <2>10, <2>14
<1> QED BY <1>5, <1>6, <1>7, <1>8, <1>9, <1>10 DEF Next, Step, Finished

(* The types are kept in every behaviour, also in one that stops.          *)
LEMMA TypeKept == HandlerRuns => []TypeOK
<1>1. TypeInv => TypeOK
  <2> SUFFICES ASSUME IsTyped, MarksInOrder PROVE TypeOK
    BY DEF TypeInv
  <2>1. \A n \in 1..Len(cache) : cache[n] \in Positions
    BY ElementOfSeq DEF IsTyped
  <2>2. \A n \in 1..Len(frames) : /\ frames[n].mark \in 0..cpos
                                   /\ frames[n].mode \in Modes
                                   /\ frames[n].braces \in Nat
    BY FramesTyped DEF IsTyped, MarksInOrder
  <2> QED BY <2>1, <2>2 DEF IsTyped, TypeOK, Modes
<1> QED BY <1>1, TypeInvInit, TypeInvStep, PTL DEF HandlerRuns

(* At any time the lexer is inside the file, CachedLexPos is inside        *)
(* CachedTokens and each active lookahead backtracks to a place it has     *)
(* passed.                                                                 *)
THEOREM HandlerTyped == Spec => []TypeOK
BY TypeKept, PTL DEF Spec, HandlerRuns
-----------------------------------------------------------------------------
(* What is told from the file does not change while the file does not.     *)
LEMMA SourceIsFixed ==
  ASSUME src' = src
  PROVE  /\ Eof' = Eof /\ Positions' = Positions
         /\ \A q : /\ Kind(q)' = Kind(q) /\ HeaderOf(q)' = HeaderOf(q)
                   /\ Brace(q)' = Brace(q)
                   /\ IsUse(q)' = IsUse(q) /\ IsToken(q)' = IsToken(q)
                   /\ NextToken(q)' = NextToken(q) /\ BlockEnd(q)' = BlockEnd(q)
         /\ \A q, n : Matching(q, n)' = Matching(q, n)
         /\ \A k, m, n : Braces(k, m, n)' = Braces(k, m, n)
<1>1. Eof' = Eof /\ Positions' = Positions
  BY DEF Eof, Positions
<1>2. \A q : Kind(q)' = Kind(q) /\ HeaderOf(q)' = HeaderOf(q)
  BY DEF Eof, Kind, HeaderOf
<1>3. \A q : Brace(q)' = Brace(q)
  BY Zenon, <1>2 DEF Brace
<1>4. \A q : IsUse(q)' = IsUse(q)
  BY Zenon, <1>2 DEF IsUse
<1>5. \A q : IsToken(q)' = IsToken(q)
  BY Zenon, <1>2, <1>4 DEF IsToken
<1>6. ASSUME NEW q PROVE NextToken(q)' = NextToken(q)
  <2>1. {t \in (q + 1)..Eof' : IsToken(t)'} = {t \in (q + 1)..Eof : IsToken(t)}
    BY <1>1, <1>5
  <2> QED BY Zenon, <2>1 DEF NextToken
<1>7. \A k, m, n : Braces(k, m, n)' = Braces(k, m, n)
  BY Zenon, <1>2 DEF Braces
<1>8. ASSUME NEW q, NEW n PROVE Matching(q, n)' = Matching(q, n)
  <2>1. {e \in q..Len(src') : /\ Kind(e)' = "rb"
                              /\ Braces("lb", q, e)' = Braces("rb", q, e)'} =
        {e \in q..Len(src) : /\ Kind(e) = "rb"
                             /\ Braces("lb", q, e) = Braces("rb", q, e)}
    BY <1>2, <1>7
  <2> QED BY Zenon, <2>1 DEF Matching
<1>9. ASSUME NEW q PROVE BlockEnd(q)' = BlockEnd(q)
  <2>1. {r \in q..Len(src') : Kind(r)' = "semi"} =
        {r \in q..Len(src) : Kind(r) = "semi"}
    BY <1>2
  <2>2. Matching(q, Eof)' = Matching(q, Eof)
    BY <1>1, <1>8, Zenon
  <2> QED BY Zenon, <1>1, <1>2, <2>1, <2>2 DEF BlockEnd
<1> QED BY <1>1, <1>2, <1>3, <1>4, <1>5, <1>6, <1>7, <1>8, <1>9

(* g is the call that f was: its line, number and dimensions are fixed.    *)
SameCall(g, f) == /\ g.line = f.line /\ g.id = f.id
                  /\ g.dimensions = f.dimensions

(* The first n calls are those of the step before.                         *)
SameCalls(n) == \A k \in 1..n : SameCall(frames'[k], frames[k])

(* A step changes no active call, begins one or ends the innermost one.    *)
LEMMA CallsStep ==
  ASSUME TypeInv, [Next]_vars
  PROVE  /\ src' = src
         /\ \/ /\ Len(frames') = Len(frames) /\ SameCalls(Len(frames))
               /\ particles' = particles
               /\ counter' >= counter
               /\ \/ raw' = raw
                  \/ /\ raw' = raw + 1
                     /\ ~(Kind(raw) = "pragma" /\ Accepted(HeaderOf(raw)))
            \/ LexPragma
            \/ /\ InHandler
               /\ Len(frames') = Len(frames) - 1 /\ SameCalls(Len(frames) - 1)
               /\ particles' = Append(particles, Particle(Top))
               /\ raw' = raw /\ counter' = counter
<1> USE DEF TypeInv
<1>1. src \in Sources /\ Eof \in Nat /\ Eof >= 1 /\ Eof \in Positions /\ Positions \subseteq Nat
  BY EofKind DEF IsTyped
<1>2. /\ counter \in Nat /\ frames \in Seq(FrameSet)
      /\ inSync \in BOOLEAN /\ seen \in Seq(Positions)
  BY DEF IsTyped
<1>3. InHandler => /\ Len(frames) \in 1..Len(frames) /\ Top \in FrameSet
                   /\ CountsArePositive(Top)
  BY EmptySeq, LenProperties, ElementOfSeq DEF InHandler, Top, IsTyped, MarksInOrder
<1>4. ASSUME NEW t \in Positions, Deliver(frames, t), InHandler => Top.mode # "done"
      PROVE  Len(frames') = Len(frames) /\ SameCalls(Len(frames))
  <2>1. /\ Len(frames') = Len(frames)
        /\ \A n \in 1..Len(frames) : n # Len(frames) => frames'[n] = frames[n]
        /\ InHandler => Follows(frames'[Len(frames)], Top)
    BY <1>1, <1>2, <1>3, <1>4, DeliverTyped DEF InHandler, Top
  <2>2. frames = <<>> => 1..Len(frames) = {}
    OBVIOUS
  <2> QED BY <2>1, <2>2 DEF SameCalls, SameCall, Follows, InHandler, Top
<1>5. CASE UNCHANGED vars
  BY <1>2, <1>5 DEF vars, SameCalls, SameCall
<1>6. CASE LexCached
  <2>1. /\ Deliver(frames, cache[cpos + 1]) /\ (InHandler => Top.mode # "done")
        /\ UNCHANGED <<src, raw, counter, particles>>
        /\ cache[cpos + 1] \in Positions
    BY <1>6, ElementOfSeq DEF LexCached, Lexing, IsTyped
  <2> QED BY <1>2, <1>4, <2>1
<1>7. CASE LexToken
  <2>1. /\ Deliver(frames, raw) /\ (InHandler => Top.mode # "done")
        /\ UNCHANGED <<src, counter, particles>> /\ raw' = raw + 1
        /\ Kind(raw) # "pragma"
        /\ raw \in Positions
    BY <1>1, <1>7 DEF LexToken, FromFile, Lexing, IsTyped, Positions
  <2> QED BY <1>2, <1>4, <2>1
<1>8. CASE LexDefine \/ LexSync \/ LexBadPragma
  <2>1. /\ ~(Kind(raw) = "pragma" /\ Accepted(HeaderOf(raw)))
        /\ raw' = raw + 1 /\ UNCHANGED <<src, frames, particles>>
    BY <1>8 DEF LexDefine, LexSync, LexBadPragma
  <2>2. counter' >= counter
    BY <1>2, <1>8 DEF LexDefine, LexSync, LexBadPragma, NextNumber
  <2> QED BY <2>1, <2>2 DEF SameCalls, SameCall
<1>9. CASE LexPragma
  BY <1>9 DEF LexPragma
<1>10. CASE FinishPragma
  <2> DEFINE t == cache[Top.mark + 1]
  <2>1. /\ InHandler /\ src' = src /\ raw' = raw /\ counter' = counter
        /\ particles' = Append(particles, Particle(Top)) /\ Deliver(Outer, t)
    BY <1>10 DEF FinishPragma, Backtrack
  <2>2. t \in Positions
    <3>1. Top.mark \in Nat /\ Top.mark < cpos
      BY <1>3, <1>10, FramesTyped DEF MarksInOrder, Top, FinishPragma, IsTyped
    <3> QED BY <3>1, LenProperties, ElementOfSeq DEF IsTyped
  <2>3. /\ Outer \in Seq(FrameSet) /\ Len(Outer) = Len(frames) - 1
        /\ \A n \in 1..Len(Outer) : Outer[n] = frames[n]
    BY <1>2, <2>1, OuterTyped DEF InHandler
  <2> HIDE DEF t
  <2>4. Outer # <<>> => /\ Outer[Len(Outer)].mode # "done"
                        /\ CountsArePositive(Outer[Len(Outer)])
                        /\ Len(Outer) \in 1..Len(Outer)
    BY <1>3, <2>1, <2>3, EmptySeq, LenProperties DEF MarksInOrder
  <2>5. /\ Len(frames') = Len(Outer)
        /\ \A n \in 1..Len(Outer) : n # Len(Outer) => frames'[n] = Outer[n]
        /\ Outer # <<>> => Follows(frames'[Len(Outer)], Outer[Len(Outer)])
    BY <1>1, <1>2, <2>1, <2>2, <2>3, <2>4, DeliverTyped
  <2>6. SameCalls(Len(frames) - 1)
    <3>1. Outer = <<>> => 1..Len(Outer) = {}
      OBVIOUS
    <3> QED BY <2>3, <2>4, <2>5, <3>1 DEF SameCalls, SameCall, Follows
  <2> QED BY <2>1, <2>3, <2>5, <2>6
<1> QED BY <1>5, <1>6, <1>7, <1>8, <1>9, <1>10 DEF Next, Step, Finished

-----------------------------------------------------------------------------
(* The call or particle p is of a line with a good header that was read.   *)
IsRegistered(p, last, next) ==
  /\ p.line \in 1..last
  /\ Kind(p.line) = "pragma" /\ Accepted(HeaderOf(p.line))
  /\ p.dimensions = Dimensions(HeaderOf(p.line))
  /\ p.id < next

(* Every good header that was read has exactly one call or particle.       *)
Registered ==
  /\ \A n \in 1..Len(particles) : IsRegistered(particles[n], raw - 1, counter)
  /\ \A n \in 1..Len(frames) : IsRegistered(frames[n], raw - 1, counter)
  /\ \A q \in 1..(raw - 1) :
       Kind(q) = "pragma" /\ Accepted(HeaderOf(q)) =>
         \/ \E n \in 1..Len(particles) : particles[n].line = q
         \/ \E n \in 1..Len(frames) : frames[n].line = q
  /\ \A m, n \in 1..Len(particles) :
       m # n => particles[m].id # particles[n].id
  /\ \A m, n \in 1..Len(frames) : m # n => frames[m].id # frames[n].id
  /\ \A m \in 1..Len(particles), n \in 1..Len(frames) :
       particles[m].id # frames[n].id

(* Each step keeps the calls and particles registered.                     *)
LEMMA RegisteredStep == TypeInv /\ Registered /\ [Next]_vars => Registered'
<1> SUFFICES ASSUME TypeInv, Registered, [Next]_vars PROVE Registered'
  OBVIOUS
<1>1. src' = src /\ raw \in Nat /\ raw >= 1 /\ counter \in Nat /\ src \in Sources
  <2>1. Eof \in Nat /\ src \in Sources
    BY EofKind DEF TypeInv, IsTyped
  <2> QED BY <2>1, CallsStep DEF TypeInv, IsTyped
<1>2. \A q : Kind(q)' = Kind(q) /\ HeaderOf(q)' = HeaderOf(q)
  BY <1>1, SourceIsFixed
<1>3. /\ particles \in Seq(ParticleSet) /\ Len(particles) \in Nat /\ Len(frames) \in Nat
      /\ \A n \in 1..Len(particles) : particles[n].id \in Nat
      /\ \A n \in 1..Len(frames) : frames[n].id \in Nat
  <2>1. \A n \in 1..Len(particles) : particles[n] \in ParticleSet
    BY ElementOfSeq DEF TypeInv, IsTyped
  <2> QED BY <2>1, LenProperties, FramesTyped DEF TypeInv, IsTyped, ParticleSet
<1>4. counter' \in Nat
  BY TypeInvStep DEF TypeInv, IsTyped
<1>5. ASSUME NEW p, NEW g, IsRegistered(p, raw - 1, counter), SameCall(g, p), p.id \in Nat,
             counter' >= counter, raw' \in {raw, raw + 1}
      PROVE  IsRegistered(g, raw' - 1, counter')
  BY <1>1, <1>2, <1>4, <1>5 DEF IsRegistered, SameCall
<1>11. ASSUME NEW p, IsRegistered(p, raw - 1, counter), p.id \in Nat,
              counter' >= counter, raw' \in {raw, raw + 1}
       PROVE  IsRegistered(p, raw' - 1, counter')
  BY <1>5, <1>11 DEF SameCall
<1>12. ASSUME
         /\ \A n \in 1..Len(particles') :
              IsRegistered(particles'[n], raw' - 1, counter')
         /\ \A n \in 1..Len(frames') :
              IsRegistered(frames'[n], raw' - 1, counter')
         /\ \A q \in 1..(raw' - 1) :
              Kind(q) = "pragma" /\ Accepted(HeaderOf(q)) =>
                \/ \E n \in 1..Len(particles') : particles'[n].line = q
                \/ \E n \in 1..Len(frames') : frames'[n].line = q
         /\ \A m, n \in 1..Len(particles') :
              m # n => particles'[m].id # particles'[n].id
         /\ \A m, n \in 1..Len(frames') : m # n => frames'[m].id # frames'[n].id
         /\ \A m \in 1..Len(particles'), n \in 1..Len(frames') :
              particles'[m].id # frames'[n].id
       PROVE  Registered'
  BY <1>1, <1>12 DEF Registered, IsRegistered, Kind, HeaderOf, Eof
<1>6. CASE /\ Len(frames') = Len(frames) /\ SameCalls(Len(frames))
           /\ particles' = particles
           /\ counter' >= counter
           /\ \/ raw' = raw
              \/ /\ raw' = raw + 1
                 /\ ~(Kind(raw) = "pragma" /\ Accepted(HeaderOf(raw)))
  <2>1. /\ \A n \in 1..Len(particles) : IsRegistered(particles[n], raw' - 1, counter')
        /\ \A n \in 1..Len(frames) : IsRegistered(frames'[n], raw' - 1, counter')
    <3>1. counter' >= counter /\ raw' \in {raw, raw + 1}
      BY <1>6
    <3>2. \A n \in 1..Len(particles) : IsRegistered(particles[n], raw - 1, counter)
      BY DEF Registered
    <3>3. \A n \in 1..Len(frames) : IsRegistered(frames[n], raw - 1, counter)
      BY DEF Registered
    <3>4. \A n \in 1..Len(frames) : SameCall(frames'[n], frames[n])
      BY <1>6 DEF SameCalls
    <3> QED BY <1>3, <1>5, <1>11, <3>1, <3>2, <3>3, <3>4
  <2>2. ASSUME NEW q \in 1..(raw' - 1), Kind(q) = "pragma", Accepted(HeaderOf(q))
        PROVE  \/ \E n \in 1..Len(particles) : particles[n].line = q
               \/ \E n \in 1..Len(frames) : frames'[n].line = q
    <3>1. q \in 1..(raw - 1)
      BY <1>1, <1>6, <2>2
    <3> QED BY <1>6, <2>2, <3>1 DEF Registered, SameCalls, SameCall
  <2>3. /\ \A m, n \in 1..Len(frames) : m # n => frames'[m].id # frames'[n].id
        /\ \A m \in 1..Len(particles), n \in 1..Len(frames) :
             particles[m].id # frames'[n].id
        /\ \A m, n \in 1..Len(particles) :
              m # n => particles[m].id # particles[n].id
    BY <1>6 DEF Registered, SameCalls, SameCall
  <2> QED BY <1>6, <1>12, <2>1, <2>2, <2>3
<1>7. CASE LexPragma
  <2> DEFINE f == NewFrame(raw)
  <2>1. /\ Kind(raw) = "pragma" /\ Accepted(HeaderOf(raw)) /\ raw' = raw + 1
        /\ frames' = Append(frames, f) /\ counter' = NextNumber(HeaderOf(raw), counter)
        /\ particles' = particles
    BY <1>7 DEF LexPragma
  <2>2. raw \in 1..Len(src)
    <3>1. raw \in Positions
      BY <1>1, <2>1, EofKind DEF TypeInv, IsTyped, Positions
    <3> QED BY <1>1, <2>1, <3>1, EofKind
  <2>3. counter' = counter + 1
    <3>1. Created(HeaderOf(raw))
      BY <1>1, <2>1, <2>2, SourceType, AcceptedIsCreated
    <3> QED BY <2>1, <3>1 DEF NextNumber
  <2>4. /\ f.line = raw /\ f.id = counter
        /\ f.dimensions = Dimensions(HeaderOf(raw))
    BY DEF NewFrame, Frame
  <2> HIDE DEF f
  <2>5. /\ Len(frames') = Len(frames) + 1 /\ frames'[Len(frames) + 1] = f
        /\ \A n \in 1..Len(frames) : frames'[n] = frames[n]
    BY <2>1 DEF TypeInv, IsTyped
  <2>6. IsRegistered(f, raw' - 1, counter')
    BY <1>1, <1>2, <2>1, <2>3, <2>4 DEF IsRegistered
  <2>7. /\ \A n \in 1..Len(particles) : IsRegistered(particles[n], raw' - 1, counter')
        /\ \A n \in 1..Len(frames) : IsRegistered(frames[n], raw' - 1, counter')
    <3>1. counter' >= counter /\ raw' \in {raw, raw + 1}
      BY <1>1, <2>1, <2>3
    <3> QED BY <1>3, <1>11, <3>1 DEF Registered
  <2>8. \A n \in 1..Len(frames') : IsRegistered(frames'[n], raw' - 1, counter')
    BY <1>3, <2>5, <2>6, <2>7
  <2>9. /\ \A n \in 1..Len(particles) : particles[n].id # f.id
        /\ \A n \in 1..Len(frames) : frames[n].id # f.id
    BY <1>1, <1>3, <2>4 DEF Registered, IsRegistered
  <2>10. ASSUME NEW q \in 1..(raw' - 1), Kind(q) = "pragma", Accepted(HeaderOf(q))
         PROVE  \/ \E n \in 1..Len(particles) : particles[n].line = q
                \/ \E n \in 1..Len(frames') : frames'[n].line = q
    <3>1. q \in 1..(raw - 1) \/ q = raw
      BY <1>1, <2>1, <2>10
    <3>2. Len(frames) + 1 \in 1..Len(frames') /\ \A n \in 1..Len(frames) : n \in 1..Len(frames')
      BY <1>3, <2>5
    <3> QED BY <2>4, <2>5, <2>10, <3>1, <3>2 DEF Registered
  <2>11. \A m, n \in 1..Len(frames') : m # n => frames'[m].id # frames'[n].id
    BY <1>3, <2>5, <2>9 DEF Registered
  <2>12. \A m \in 1..Len(particles), n \in 1..Len(frames') :
           particles[m].id # frames'[n].id
    <3>1. \A n \in 1..Len(frames') : n \in 1..Len(frames) \/ n = Len(frames) + 1
      BY <1>3, <2>5
    <3> QED BY <2>5, <2>9, <3>1 DEF Registered
  <2>13. \A m, n \in 1..Len(particles) : m # n => particles[m].id # particles[n].id
    BY DEF Registered
  <2> QED BY <1>12, <2>1, <2>7, <2>8, <2>10, <2>11, <2>12, <2>13
<1>8. CASE /\ InHandler
           /\ Len(frames') = Len(frames) - 1 /\ SameCalls(Len(frames) - 1)
           /\ particles' = Append(particles, Particle(Top))
           /\ raw' = raw /\ counter' = counter
  <2> DEFINE p == Particle(Top)
             N == Len(frames)
             P == Len(particles)
  <2>1. N \in 1..N /\ Top = frames[N]
    BY <1>3, <1>8, EmptySeq DEF InHandler, Top, TypeInv, IsTyped
  <2>2. SameCall(p, frames[N])
    BY <2>1 DEF Particle, SameCall
  <2> HIDE DEF p
  <2>3. /\ Len(particles') = P + 1 /\ particles'[P + 1] = p
        /\ \A n \in 1..P : particles'[n] = particles[n]
    BY <1>3, <1>8 DEF p
  <2> HIDE DEF N, P
  <2>4. P \in Nat /\ N \in Nat
    BY <1>3 DEF P, N
  <2>5. \A n \in 1..(N - 1) : n \in 1..N /\ SameCall(frames'[n], frames[n])
    BY <1>8, <2>4 DEF N, SameCalls
  <2>6. /\ \A n \in 1..P : IsRegistered(particles[n], raw - 1, counter) /\ particles[n].id \in Nat
        /\ \A n \in 1..N : IsRegistered(frames[n], raw - 1, counter) /\ frames[n].id \in Nat
        /\ \A m, n \in 1..P : m # n => particles[m].id # particles[n].id
        /\ \A m, n \in 1..N : m # n => frames[m].id # frames[n].id
        /\ \A m \in 1..P, n \in 1..N : particles[m].id # frames[n].id
        /\ \A q \in 1..(raw - 1) :
             Kind(q) = "pragma" /\ Accepted(HeaderOf(q)) =>
               \/ \E n \in 1..P : particles[n].line = q
               \/ \E n \in 1..N : frames[n].line = q
    BY <1>3 DEF Registered, P, N
  <2>7. \A n \in 1..(P + 1) : IsRegistered(particles'[n], raw' - 1, counter')
    <3>1. IsRegistered(p, raw' - 1, counter')
      BY <1>1, <1>5, <1>8, <2>1, <2>2, <2>6 DEF N
    <3>2. \A n \in 1..P : IsRegistered(particles[n], raw' - 1, counter')
      BY <1>1, <1>5, <1>8, <2>6 DEF SameCall
    <3> QED BY <2>3, <2>4, <3>1, <3>2
  <2>8. \A n \in 1..(N - 1) : IsRegistered(frames'[n], raw' - 1, counter')
    BY <1>1, <1>5, <1>8, <2>5, <2>6
  <2>9. \A m, n \in 1..(P + 1) : m # n => particles'[m].id # particles'[n].id
    BY <2>1, <2>2, <2>3, <2>4, <2>6 DEF SameCall, N
  <2>10. \A m, n \in 1..(N - 1) : m # n => frames'[m].id # frames'[n].id
    BY <2>4, <2>5, <2>6 DEF SameCall
  <2>11. \A m \in 1..(P + 1), n \in 1..(N - 1) : particles'[m].id # frames'[n].id
    BY <2>1, <2>2, <2>3, <2>4, <2>5, <2>6 DEF SameCall
  <2>12. ASSUME NEW q \in 1..(raw - 1), Kind(q) = "pragma", Accepted(HeaderOf(q))
         PROVE  \/ \E n \in 1..(P + 1) : particles'[n].line = q
                \/ \E n \in 1..(N - 1) : frames'[n].line = q
    <3>1. CASE \E n \in 1..P : particles[n].line = q
      BY <2>3, <2>4, <3>1
    <3>2. CASE frames[N].line = q
      BY <2>2, <2>3, <2>4, <3>2 DEF SameCall
    <3>3. CASE \E n \in 1..(N - 1) : frames[n].line = q
      BY <2>4, <2>5, <3>3 DEF SameCall
    <3> QED BY <2>4, <2>6, <2>12, <3>1, <3>2, <3>3
  <2>13. Len(frames') = N - 1
    BY <1>8 DEF N
  <2>14. Len(particles') = P + 1 /\ raw' = raw
    BY <1>8, <2>3
  <2> QED BY <1>12, <2>7, <2>8, <2>9, <2>10, <2>11, <2>12, <2>13, <2>14
<1> QED BY <1>6, <1>7, <1>8, CallsStep

(* There are none at first.                                                *)
LEMMA RegisteredInit == Init => Registered
BY DEF Init, Registered

(* The grammar is kept to in every behaviour, also in one that stops.      *)
LEMMA GrammarKept == HandlerRuns => []AcceptsTheGrammar
<1>1. TypeInv /\ Registered => AcceptsTheGrammar
  <2> SUFFICES ASSUME TypeInv, Registered, ~InHandler PROVE AcceptsTheGrammar
    BY DEF AcceptsTheGrammar
  <2>1. /\ frames = <<>> /\ 1..Len(frames) = {}
        /\ AllParticles = {particles[n] : n \in 1..Len(particles)}
        /\ raw \in Nat /\ raw <= Eof + 1
    <3>1. particles \in Seq(ParticleSet) /\ raw \in 1..(Eof + 1) /\ Eof \in Nat
      BY EofKind DEF TypeInv, IsTyped
    <3> QED BY <3>1 DEF InHandler, AllParticles, ToSet
  <2>2. ASSUME NEW q \in 1..(raw - 1), Kind(q) = "pragma"
        PROVE  /\ HeaderOf(q) \in Header
               /\ Accepted(HeaderOf(q)) <=> Grammatical(HeaderOf(q))
    <3>1. src \in Sources /\ q \in Positions
      BY <2>1, EofKind DEF TypeInv, IsTyped, Positions
    <3>2. q \in 1..Len(src)
      BY <2>2, <3>1, EofKind
    <3> QED BY <3>1, <3>2, SourceType, HeaderAccepted
  <2>3. ASSUME NEW p \in AllParticles
        PROVE  /\ p.line \in {q \in 1..(raw - 1) :
                                Kind(q) = "pragma" /\ Grammatical(HeaderOf(q))}
               /\ p.dimensions = Names(HeaderOf(p.line))
    <3>1. IsRegistered(p, raw - 1, counter)
      BY <2>1 DEF Registered
    <3>2. HeaderOf(p.line) \in Header /\ Grammatical(HeaderOf(p.line))
      BY <2>2, <3>1 DEF IsRegistered
    <3> QED BY <3>1, <3>2, DimensionsAreNames DEF IsRegistered
  <2>4. ASSUME NEW q \in 1..(raw - 1), Kind(q) = "pragma", Grammatical(HeaderOf(q))
        PROVE  \E p \in AllParticles : p.line = q
    BY <2>1, <2>2, <2>4 DEF Registered
  <2> QED BY <2>3, <2>4 DEF AcceptsTheGrammar
<1> QED BY <1>1, TypeInvInit, TypeInvStep, RegisteredInit, RegisteredStep, PTL DEF HandlerRuns

(* However the files nest and repeat their pragmas, and with lookaheads of *)
(* any depth: between two calls of HandlePragma there is exactly one       *)
(* particle line for each line with a header of the grammar that has been  *)
(* read, none for any other line, and the dimensions that the loops of the *)
(* thread function will run over are the names of the header, in order.    *)
THEOREM GrammarAccepted == Spec => []AcceptsTheGrammar
BY GrammarKept, PTL DEF Spec, HandlerRuns

(* The names differ in every behaviour, also in one that stops.            *)
LEMMA ThreadsKept == HandlerRuns => []ThreadNamesDiffer
<1>1. Registered => ThreadNamesDiffer
  BY DEF Registered, ThreadNamesDiffer
<1> QED BY <1>1, TypeInvInit, TypeInvStep, RegisteredInit, RegisteredStep, PTL DEF HandlerRuns

(* The numbers that PragmaParticle takes from its counter, and with them   *)
(* the names of the thread functions, are never used twice, although       *)
(* headers in error and nested lookaheads take numbers too and particles   *)
(* are inserted in the order in which their calls return.                  *)
THEOREM ThreadsDiffer == Spec => []ThreadNamesDiffer
BY ThreadsKept, PTL DEF Spec, HandlerRuns
-----------------------------------------------------------------------------
(* The least member of a set, as the model defines it.                     *)
LEMMA LeastIs ==
  ASSUME NEW S \in SUBSET Nat, NEW n \in S, \A m \in S : n <= m, NEW none
  PROVE  Least(S, none) = n
<1>1. S # {}
  OBVIOUS
<1>2. \A k \in S : (\A m \in S : k <= m) => k = n
  OBVIOUS
<1>3. (CHOOSE k \in S : \A m \in S : k <= m) = n
  BY <1>2
<1> QED BY <1>1, <1>3 DEF Least

(* The next token is the first one after q.                                *)
LEMMA NextTokenIs ==
  ASSUME src \in Sources, NEW q \in Nat, NEW t \in Nat, q < t, t <= Eof,
         IsToken(t), \A r \in (q + 1)..(t - 1) : ~IsToken(r)
  PROVE  NextToken(q) = t
<1> DEFINE S == {r \in (q + 1)..Eof : IsToken(r)}
<1>1. S \in SUBSET Nat /\ t \in S /\ \A m \in S : t <= m
  BY EofKind
<1> HIDE DEF S
<1>2. Least(S, 0) = t
  BY <1>1, LeastIs
<1> QED BY <1>2 DEF S, NextToken
-----------------------------------------------------------------------------
(* What follows is about files whose particles do not nest: a lookahead    *)
(* that meets another good pragma ends the behaviours of the model.        *)
NoNesting == MaxDepth = 1

(* The last token that the parser got; where the cache begins that it has  *)
(* not been given; the token before the kth of the cache; and the last     *)
(* token that was lexed.                                                   *)
LastSeen == IF seen = <<>> THEN 0 ELSE seen[Len(seen)]

Base == IF InHandler THEN Top.mark ELSE cpos

Before(k) == IF k = Base + 1 THEN LastSeen ELSE cache[k - 1]

LastLexed == Before(Len(cache) + 1)

(* There is one lookahead at most, it has read the whole cache, and the    *)
(* macro is known when its definition has been read.                       *)
AtMostOneFrame ==
  /\ Len(frames) <= 1
  /\ InHandler => cpos = Len(cache)
  /\ known <=> \E d \in 1..(raw - 1) : Kind(d) = "define"

(* What is in the cache and not yet given to the parser are the tokens     *)
(* that follow the last one it got, up to the last one that the lexer has  *)
(* read.                                                                   *)
TokensInOrder ==
  /\ ParserSeesSource
  /\ \A k \in (Base + 1)..Len(cache) : cache[k] = NextToken(Before(k))
  /\ LastLexed < raw
  /\ \A q \in (LastLexed + 1)..(raw - 1) : ~IsToken(q)

(* What a step can be without nesting. The parser gets a token from the    *)
(* cache;                                                                  *)
Replay ==
  /\ frames = <<>> /\ cpos < Len(cache)
  /\ cpos' = cpos + 1 /\ seen' = Append(seen, cache[cpos + 1])
  /\ UNCHANGED <<raw, cache, frames, known, inSync, particles, ignored, outside>>

(* or one from the file;                                                   *)
Pass ==
  /\ frames = <<>> /\ cpos = Len(cache) /\ raw <= Eof /\ IsToken(raw)
  /\ raw' = raw + 1 /\ cache' = <<>> /\ cpos' = 0 /\ seen' = Append(seen, raw)
  /\ UNCHANGED <<frames, known, inSync, particles, ignored, outside>>

(* or the lookahead gets one from the file;                                *)
LookAhead ==
  /\ frames = <<Top>> /\ Top.mode # "done" /\ cpos = Len(cache)
  /\ raw <= Eof /\ IsToken(raw)
  /\ raw' = raw + 1 /\ cache' = Append(cache, raw) /\ cpos' = cpos + 1
  /\ frames' = <<Feed(Top, raw)>> /\ inSync' = Flag(Top, raw)
  /\ UNCHANGED <<known, seen, particles, ignored, outside>>

(* or an item that is not a token is read;                                 *)
Skip ==
  /\ cpos = Len(cache) /\ raw < Eof /\ ~IsToken(raw) /\ raw' = raw + 1
  /\ InHandler => frames = <<Top>> /\ Top.mode # "done"
  /\ UNCHANGED <<cache, cpos, frames, particles, seen>>
  /\ \/ Kind(raw) = "define" /\ known' = TRUE /\ UNCHANGED <<inSync, ignored, outside>>
     \/ Kind(raw) = "pragma" /\ UNCHANGED <<known, inSync, ignored, outside>>
     \/ Kind(raw) = "sync" /\ UNCHANGED known /\ LexSync

(* or a lookahead begins;                                                  *)
Call ==
  /\ frames = <<>> /\ cpos = Len(cache) /\ raw < Eof /\ Kind(raw) = "pragma"
  /\ raw' = raw + 1 /\ frames' = <<NewFrame(raw)>>
  /\ UNCHANGED <<cache, cpos, known, inSync, particles, seen, ignored, outside>>

(* or one ends and its first token goes to the parser.                     *)
Return ==
  /\ frames = <<Top>> /\ Top.mode = "done"
  /\ frames' = <<>> /\ particles' = Append(particles, Particle(Top))
  /\ seen' = Append(seen, cache[Top.mark + 1])
  /\ \/ /\ Top.mark + 1 < Len(cache)
        /\ cache' = cache /\ cpos' = Top.mark + 1
     \/ /\ Top.mark + 1 = Len(cache)
        /\ cache' = <<>> /\ cpos' = 0
  /\ UNCHANGED <<raw, known, inSync, ignored, outside>>

(* A few facts about sequences that the provers need to be told.           *)
LEMMA SeqFacts ==
  ASSUME NEW S, NEW s \in Seq(S)
  PROVE  /\ Len(s) \in Nat
         /\ s = <<>> <=> Len(s) = 0
         /\ s # <<>> => Len(s) \in 1..Len(s)
         /\ \A n \in 1..Len(s) : s[n] \in S
BY EmptySeq, LenProperties, ElementOfSeq

(* A sequence with one element.                                            *)
LEMMA Singleton ==
  ASSUME NEW T, NEW s \in Seq(T), Len(s) = 1
  PROVE  s = <<s[1]>>
OBVIOUS

(* What the lexer does at a use of the macro is told by the file.          *)
LEMMA UseIsKnown ==
  ASSUME AtMostOneFrame
  PROVE  IsUse(raw) <=> Kind(raw) = "sync" /\ known
BY DEF AtMostOneFrame, IsUse

(* Every step is one of these.                                             *)
LEMMA SingleStep ==
  ASSUME TypeInv, AtMostOneFrame, NoNesting, Next
  PROVE  /\ src' = src
         /\ \/ UNCHANGED vars
            \/ Replay \/ Pass \/ LookAhead \/ Skip \/ Call \/ Return
<1> USE DEF TypeInv
<1>1. /\ src \in Sources /\ Eof \in Nat /\ raw \in Nat /\ raw >= 1
      /\ cpos \in Nat /\ Len(cache) \in Nat /\ cpos <= Len(cache)
  BY EofKind, LenProperties DEF IsTyped
<1>2. /\ frames \in Seq(FrameSet) /\ Len(frames) \in Nat
      /\ InHandler => Len(frames) = 1 /\ frames = <<Top>> /\ cpos = Len(cache)
      /\ ~InHandler => frames = <<>>
  <2>1. frames \in Seq(FrameSet) /\ Len(frames) \in Nat
    BY LenProperties DEF IsTyped
  <2>2. InHandler => Len(frames) = 1 /\ cpos = Len(cache)
    <3>1. InHandler => Len(frames) # 0
      BY <2>1, FramesTyped DEF InHandler
    <3>2. Len(frames) <= 1 /\ (InHandler => cpos = Len(cache))
      BY Zenon DEF AtMostOneFrame
    <3>3. InHandler => Len(frames) = 1
      <4> DEFINE n == Len(frames)
      <4>1. n \in Nat /\ n <= 1 /\ (InHandler => n # 0)
        BY <2>1, <3>1, <3>2
      <4> HIDE DEF n
      <4>2. InHandler => n = 1
        BY <4>1
      <4> QED BY <4>2 DEF n
    <3> QED BY <3>2, <3>3
  <2>3. ASSUME InHandler PROVE frames = <<Top>>
    BY <2>1, <2>2, <2>3, Singleton DEF Top
  <2> QED BY <2>1, <2>2, <2>3 DEF InHandler
<1>3. IsUse(raw) <=> Kind(raw) = "sync" /\ known
  BY UseIsKnown
<1>4. InHandler => Outer = <<>>
  <2>1. SubSeq(frames, 1, 0) = <<>>
    BY <1>2
  <2>2. InHandler => Len(frames) - 1 = 0
    BY <1>2
  <2> QED BY <2>1, <2>2, Zenon DEF Outer
<1>5. Kind(raw) # "eof" => raw < Eof
  BY <1>1, EofKind
<1>6. CASE LexCached
  BY <1>1, <1>2, <1>6 DEF LexCached, Deliver, Replay
<1>7. CASE LexToken
  <2>1. CASE InHandler
    <3>1. Deliver(frames, raw) /\ Len(frames) = 1 /\ frames[1] = Top /\ frames = <<Top>>
      BY <1>2, <1>7, <2>1 DEF LexToken, Top
    <3>2. frames' = <<Feed(Top, raw)>> /\ inSync' = Flag(Top, raw) /\ seen' = seen
      <4>1. frames' = [frames EXCEPT ![1] = Feed(Top, raw)]
            /\ inSync' = Flag(Top, raw) /\ seen' = seen
        BY <2>1, <3>1, Zenon DEF Deliver, InHandler
      <4> QED BY <3>1, <4>1
    <3> QED BY <1>1, <1>2, <1>3, <1>7, <2>1, <3>2 DEF LexToken, FromFile, Lexing, IsToken, LookAhead
  <2>2. CASE ~InHandler
    BY <1>1, <1>2, <1>3, <1>7, <2>2 DEF LexToken, FromFile, Lexing, Deliver, IsToken, Pass
  <2> QED BY <1>7, <2>1, <2>2 DEF LexToken
<1>8. CASE LexDefine
  BY <1>2, <1>5, <1>8 DEF LexDefine, FromFile, Lexing, IsToken, Skip
<1>9. CASE LexSync
  BY <1>2, <1>3, <1>5, <1>9 DEF LexSync, FromFile, Lexing, IsToken, Skip
<1>10. CASE LexBadPragma
  BY <1>2, <1>5, <1>10 DEF LexBadPragma, FromFile, Lexing, IsToken, Skip
<1>11. CASE LexPragma
  <2>1. ~InHandler
    BY <1>2, <1>11 DEF LexPragma, NoNesting
  <2> QED BY <1>2, <1>5, <1>11, <2>1 DEF LexPragma, FromFile, Call
<1>12. CASE FinishPragma
  <2>1. Top.mark \in Nat /\ Top.mark < cpos
    <3>1. 1 \in 1..Len(frames) /\ Top = frames[1] /\ Top.mode # "open"
      <4>1. Len(frames) = 1 /\ Top.mode = "done"
        BY <1>2, <1>12 DEF FinishPragma
      <4> QED BY <4>1 DEF Top
    <3> QED BY <1>2, <3>1, FramesTyped DEF MarksInOrder
  <2> QED BY <1>1, <1>2, <1>4, <1>12, <2>1 DEF FinishPragma, Deliver, Backtrack, Return
<1> QED BY <1>6, <1>7, <1>8, <1>9, <1>10, <1>11, <1>12 DEF Next, Step, Finished, vars,
           LexCached, LexToken, LexDefine, LexSync, LexBadPragma, LexPragma, FinishPragma
-----------------------------------------------------------------------------
(* They keep the lookahead single,                                         *)
LEMMA OneFrameStep ==
  ASSUME TypeInv, AtMostOneFrame, NoNesting, [Next]_vars
  PROVE  AtMostOneFrame'
<1>1. src' = src
  BY SingleStep DEF vars
<1>2. \A q : Kind(q)' = Kind(q)
  BY <1>1, SourceIsFixed
<1>3. raw \in Nat /\ raw >= 1 /\ Len(cache) \in Nat /\ cpos \in Nat /\ cache \in Seq(Positions)
      /\ src \in Sources
  <2>1. src \in Sources /\ Eof \in Nat
    BY EofKind DEF TypeInv, IsTyped
  <2> QED BY <2>1, LenProperties DEF TypeInv, IsTyped
<1>4. CASE UNCHANGED vars
  BY <1>2, <1>4 DEF vars, AtMostOneFrame, InHandler
<1>5. CASE Replay \/ Pass \/ Call \/ Return \/ LookAhead
  <2>1. known' = known /\ Len(frames') <= 1
    <3>1. frames' = <<>> \/ frames' = <<NewFrame(raw)>> \/ frames' = <<Feed(Top, raw)>>
      BY <1>5, Zenon DEF Replay, Pass, Call, Return, LookAhead
    <3>2. Len(frames') <= 1
      <4>1. CASE frames' = <<>>
        BY <4>1
      <4>2. CASE frames' = <<NewFrame(raw)>>
        BY <4>2
      <4>3. CASE frames' = <<Feed(Top, raw)>>
        BY <4>3
      <4> QED BY <3>1, <4>1, <4>2, <4>3
    <3> QED BY <1>5, <3>2 DEF Replay, Pass, Call, Return, LookAhead
  <2>2. InHandler' => cpos' = Len(cache')
    <3>1. CASE LookAhead
      <4>1. raw \in Positions /\ cpos = Len(cache) /\ cache' = Append(cache, raw) /\ cpos' = cpos + 1
        BY <1>3, <3>1, EofKind DEF LookAhead, Positions
      <4> QED BY <1>3, <4>1, AppendProperties
    <3>2. CASE ~LookAhead
      BY <1>5, <3>2 DEF Replay, Pass, Call, Return, InHandler
    <3> QED BY <3>1, <3>2
  <2>3. \/ raw' = raw
        \/ raw' = raw + 1 /\ Kind(raw) # "define"
    BY <1>5 DEF Replay, Pass, Call, Return, LookAhead, IsToken
  <2>4. (\E d \in 1..(raw' - 1) : Kind(d) = "define") <=> (\E d \in 1..(raw - 1) : Kind(d) = "define")
    BY <1>3, <2>3
  <2> QED BY <1>2, <2>1, <2>2, <2>4 DEF AtMostOneFrame
<1>6. CASE Skip
  <2>1. Len(frames') <= 1 /\ (InHandler' => cpos' = Len(cache')) /\ raw' = raw + 1
    BY <1>6 DEF Skip, AtMostOneFrame, InHandler
  <2>2. known' <=> known \/ Kind(raw) = "define"
    BY <1>6 DEF Skip
  <2>3. (\E d \in 1..(raw' - 1) : Kind(d) = "define")
          <=> (\E d \in 1..(raw - 1) : Kind(d) = "define") \/ Kind(raw) = "define"
    BY <1>3, <2>1
  <2> QED BY <1>2, <2>1, <2>2, <2>3 DEF AtMostOneFrame
<1> QED BY <1>4, <1>5, <1>6, SingleStep

(* and the tokens in order,                                                *)
LEMMA TokensStep ==
  ASSUME TypeInv, AtMostOneFrame, TokensInOrder, NoNesting, [Next]_vars
  PROVE  TokensInOrder'
<1>1. src' = src
  BY SingleStep DEF vars
<1>2. \A q : NextToken(q)' = NextToken(q) /\ IsToken(q)' = IsToken(q)
  BY <1>1, SourceIsFixed
<1>3. raw \in Nat /\ raw >= 1 /\ Len(cache) \in Nat /\ cpos \in Nat /\ cache \in Seq(Positions)
      /\ src \in Sources /\ seen \in Seq(Positions) /\ Len(seen) \in Nat /\ Eof \in Nat
      /\ Positions \subseteq Nat /\ cpos <= Len(cache)
  <2>1. src \in Sources /\ Eof \in Nat /\ Positions \subseteq Nat
    BY EofKind DEF TypeInv, IsTyped
  <2> QED BY <2>1, LenProperties DEF TypeInv, IsTyped
<1>4. LastSeen \in Nat /\ \A k \in 1..Len(cache) : cache[k] \in Nat
  <2>1. \A k \in 1..Len(cache) : cache[k] \in Positions
    BY <1>3, SeqFacts
  <2>2. seen # <<>> => seen[Len(seen)] \in Positions
    BY <1>3, SeqFacts
  <2> QED BY <1>3, <2>1, <2>2 DEF LastSeen
<1>5. ASSUME NEW t, t = NextToken(LastSeen), seen' = Append(seen, t), t \in Positions
      PROVE  ParserSeesSource' /\ LastSeen' = t
  <2>1. Len(seen') = Len(seen) + 1 /\ seen' # <<>>
    BY <1>3, <1>5
  <2>2. seen'[Len(seen) + 1] = t /\ \A n \in 1..Len(seen) : seen'[n] = seen[n]
    BY <1>3, <1>5
  <2>3. LastSeen' = t
    BY <2>1, <2>2 DEF LastSeen
  <2>4. \A n \in 1..Len(seen) : seen[n] = NextToken(IF n = 1 THEN 0 ELSE seen[n - 1])
    BY DEF TokensInOrder, ParserSeesSource
  <2>5. ASSUME NEW n \in 1..Len(seen')
        PROVE  seen'[n] = NextToken(IF n = 1 THEN 0 ELSE seen'[n - 1])
    <3>1. CASE n \in 1..Len(seen)
      <4>1. n = 1 \/ n - 1 \in 1..Len(seen)
        BY <1>3, <3>1
      <4> QED BY <2>2, <2>4, <3>1, <4>1
    <3>2. CASE n = Len(seen) + 1
      <4>1. seen = <<>> <=> Len(seen) = 0
        BY <1>3
      <4>2. LastSeen = IF n = 1 THEN 0 ELSE seen'[n - 1]
        <5>1. CASE n = 1
          BY <3>2, <4>1, <5>1, <1>3 DEF LastSeen
        <5>2. CASE n # 1
          BY <1>3, <2>2, <3>2, <4>1, <5>2 DEF LastSeen
        <5> QED BY <5>1, <5>2
      <4> QED BY <1>5, <2>2, <3>2, <4>2
    <3> QED BY <1>3, <2>1, <3>1, <3>2
  <2>6. ParserSeesSource'
    BY <1>2, <2>5 DEF ParserSeesSource
  <2> QED BY <2>3, <2>6
<1> DEFINE N == Len(cache)
<1>6. /\ N \in Nat /\ Base \in 0..N
      /\ frames = <<>> => Base = cpos
      /\ frames = <<Top>> => Base = Top.mark /\ InHandler
      /\ frames = <<Top>> /\ Top.mode # "open" => Base < N
      /\ cpos = Len(cache) => cpos = N
  <2>1. CASE frames = <<>>
    BY <1>3, <2>1 DEF Base, InHandler
  <2>2. CASE frames # <<>>
    <3>1. Len(frames) \in 1..Len(frames) /\ Top = frames[Len(frames)]
      BY <2>2, SeqFacts DEF TypeInv, IsTyped, Top
    <3>2. Top.mark \in Nat /\ Top.mark <= cpos /\ (Top.mode # "open" => Top.mark < cpos)
      BY <3>1, FramesTyped DEF TypeInv, IsTyped, MarksInOrder
    <3> QED BY <1>3, <2>2, <3>2 DEF Base, InHandler
  <2> QED BY <2>1, <2>2
<1>7. /\ \A k \in (Base + 1)..N : cache[k] = NextToken(Before(k))
      /\ LastLexed < raw
      /\ \A q \in (LastLexed + 1)..(raw - 1) : ~IsToken(q)
      /\ \A k : Before(k) = IF k = Base + 1 THEN LastSeen ELSE cache[k - 1]
      /\ LastLexed = Before(N + 1)
      /\ LastLexed \in Nat
  <2>1. LastLexed \in Nat
    BY <1>4, <1>6 DEF LastLexed, Before
  <2> QED BY <2>1 DEF TokensInOrder, LastLexed, Before
<1>8. /\ \A k : Before(k)' = IF k = Base' + 1 THEN LastSeen' ELSE cache'[k - 1]
      /\ LastLexed' = IF Len(cache') + 1 = Base' + 1 THEN LastSeen'
                      ELSE cache'[(Len(cache') + 1) - 1]
  BY DEF LastLexed, Before
<1>9. ASSUME raw \in 1..Eof, IsToken(raw)
      PROVE  NextToken(LastLexed) = raw /\ raw \in Positions
  BY <1>3, <1>7, <1>9, NextTokenIs DEF Positions
<1> HIDE DEF N
<1>10. ASSUME ParserSeesSource',
              \A k \in (Base' + 1)..Len(cache') : cache'[k] = NextToken(Before(k)'),
              LastLexed' < raw',
              \A q \in (LastLexed' + 1)..(raw' - 1) : ~IsToken(q)
       PROVE  TokensInOrder'
  BY <1>2, <1>10 DEF TokensInOrder
<1>11. ASSUME Base < N, seen' = Append(seen, cache[Base + 1]), raw' = raw,
              \/ cache' = cache /\ Base' = Base + 1
              \/ cache' = <<>> /\ Base' = 0 /\ Base + 1 = N
       PROVE  TokensInOrder'
  <2>1. cache[Base + 1] = NextToken(LastSeen) /\ cache[Base + 1] \in Positions
    <3>1. Base + 1 \in (Base + 1)..N /\ Base + 1 \in 1..N
      BY <1>6, <1>11
    <3> QED BY <1>3, <1>7, <3>1, SeqFacts DEF N
  <2>2. ParserSeesSource' /\ LastSeen' = cache[Base + 1]
    BY <1>5, <1>11, <2>1
  <2>3. CASE cache' = cache /\ Base' = Base + 1
    <3>1. Len(cache') = N
      BY <2>3 DEF N
    <3>2. \A k \in (Base + 2)..(N + 1) : Before(k)' = Before(k)
      BY <1>6, <1>7, <1>8, <2>2, <2>3
    <3>3. LastLexed' = LastLexed
      <4>1. LastLexed' = IF N + 1 = Base + 2 THEN cache[Base + 1] ELSE cache[N]
        BY <1>6, <1>8, <2>2, <2>3, <3>1
      <4>2. LastLexed = cache[N]
        BY <1>6, <1>7, <1>11
      <4> QED BY <1>6, <4>1, <4>2
    <3>4. \A k \in (Base' + 1)..Len(cache') : cache'[k] = NextToken(Before(k)')
      BY <1>6, <1>7, <2>3, <3>1, <3>2
    <3> QED BY <1>7, <1>10, <1>11, <2>2, <3>3, <3>4
  <2>4. CASE cache' = <<>> /\ Base' = 0 /\ Base + 1 = N
    <3>1. Len(cache') = 0
      BY <2>4
    <3>2. LastLexed' = cache[N] /\ LastLexed = cache[N]
      BY <1>6, <1>7, <1>8, <2>2, <2>4, <3>1
    <3> QED BY <1>7, <1>10, <1>11, <2>2, <2>4, <3>1, <3>2
  <2> QED BY <1>11, <2>3, <2>4
<1>12. CASE UNCHANGED vars
  BY <1>2, <1>12 DEF TokensInOrder, ParserSeesSource, LastLexed, Before, Base, InHandler, Top, LastSeen, vars
<1>13. CASE Replay
  <2>1. Base < N /\ Base' = Base + 1 /\ seen' = Append(seen, cache[Base + 1])
    BY <1>6, <1>13 DEF Replay, Base, InHandler, N
  <2> QED BY <1>11, <1>13, <2>1 DEF Replay
<1>14. CASE Pass
  <2>1. Base = N /\ raw \in 1..Eof /\ IsToken(raw) /\ cache' = <<>> /\ Base' = 0
        /\ seen' = Append(seen, raw) /\ raw' = raw + 1
    BY <1>3, <1>6, <1>14 DEF Pass, Base, InHandler, N
  <2>2. LastLexed = LastSeen
    BY <1>7, <2>1
  <2>3. ParserSeesSource' /\ LastSeen' = raw
    BY <1>5, <1>9, <2>1, <2>2
  <2>4. Len(cache') = 0
    BY <2>1
  <2>5. LastLexed' = raw
    BY <1>8, <2>1, <2>3, <2>4
  <2> QED BY <1>3, <1>10, <2>1, <2>3, <2>4, <2>5
<1>15. CASE LookAhead
  <2>1. /\ raw \in 1..Eof /\ IsToken(raw) /\ cache' = Append(cache, raw) /\ raw' = raw + 1
        /\ frames = <<Top>> /\ frames' = <<Feed(Top, raw)>> /\ seen' = seen /\ Top.mode # "done"
    BY <1>3, <1>15 DEF LookAhead
  <2>2. Top \in FrameSet /\ CountsArePositive(Top)
    <3>1. frames # <<>> /\ Len(frames) \in 1..Len(frames)
      BY <2>1, SeqFacts DEF TypeInv, IsTyped
    <3> QED BY <3>1, SeqFacts DEF TypeInv, IsTyped, MarksInOrder, Top
  <2>3. Feed(Top, raw).mark = Top.mark
    BY <1>3, <2>1, <2>2, FeedFollows DEF Follows
  <2>4. Base' = Base
    BY <1>6, <2>1, <2>3 DEF Base, InHandler, Top
  <2>5. Len(cache') = N + 1 /\ cache'[N + 1] = raw /\ \A k \in 1..N : cache'[k] = cache[k]
    BY <1>3, <2>1 DEF N
  <2>6. LastSeen' = LastSeen /\ ParserSeesSource'
    BY <1>2, <2>1 DEF LastSeen, TokensInOrder, ParserSeesSource
  <2>7. \A k \in (Base + 1)..(N + 1) : Before(k)' = Before(k)
    BY <1>6, <1>7, <1>8, <2>4, <2>5, <2>6
  <2>8. LastLexed' = raw
    BY <1>6, <1>8, <2>4, <2>5
  <2>9. \A k \in (Base' + 1)..Len(cache') : cache'[k] = NextToken(Before(k)')
    <3> SUFFICES ASSUME NEW k \in (Base + 1)..(N + 1)
                 PROVE  cache'[k] = NextToken(Before(k))
      BY <2>4, <2>5, <2>7
    <3>1. CASE k = N + 1
      BY <1>7, <1>9, <2>1, <2>5, <3>1
    <3>2. CASE k \in (Base + 1)..N
      BY <1>6, <1>7, <2>5, <3>2
    <3> QED BY <1>6, <3>1, <3>2
  <2>10. LastLexed' < raw' /\ \A q \in (LastLexed' + 1)..(raw' - 1) : ~IsToken(q)
    BY <1>3, <2>1, <2>8
  <2> QED BY <1>10, <2>6, <2>9, <2>10
<1>16. CASE Skip \/ Call
  <2>1. /\ cache' = cache /\ seen' = seen /\ raw' = raw + 1 /\ ~IsToken(raw)
        /\ Base' = Base
    <3>1. CASE Skip
      BY <3>1 DEF Skip, Base, InHandler, Top
    <3>2. CASE Call
      <4>1. Top' = NewFrame(raw) /\ InHandler' /\ ~InHandler
        BY <3>2 DEF Call, Top, InHandler
      <4> QED BY <3>2, <4>1 DEF Call, IsToken, Base, NewFrame, Frame
    <3> QED BY <1>16, <3>1, <3>2
  <2>2. LastSeen' = LastSeen /\ ParserSeesSource'
    BY <1>2, <2>1 DEF LastSeen, TokensInOrder, ParserSeesSource
  <2>3. \A k : Before(k)' = Before(k)
    BY <2>1, <2>2 DEF Before
  <2>4. LastLexed' = LastLexed
    BY <1>7, <1>8, <2>1, <2>2 DEF N
  <2>5. \A q \in (LastLexed + 1)..(raw' - 1) : ~IsToken(q)
    BY <1>3, <1>7, <2>1
  <2>6. \A k \in (Base' + 1)..Len(cache') : cache'[k] = NextToken(Before(k)')
    BY <1>7, <2>1, <2>3 DEF N
  <2> QED BY <1>3, <1>7, <1>10, <2>1, <2>2, <2>4, <2>5, <2>6
<1>17. CASE Return
  <2>1. Base = Top.mark /\ Base < N /\ seen' = Append(seen, cache[Base + 1]) /\ raw' = raw
        /\ ~InHandler'
    BY <1>6, <1>17 DEF Return, InHandler
  <2>2. Base' = cpos'
    BY <2>1 DEF Base
  <2> QED BY <1>11, <1>17, <2>1, <2>2 DEF Return, N
<1> QED BY <1>12, <1>13, <1>14, <1>15, <1>16, <1>17, SingleStep

(* as they are at first.                                                   *)
LEMMA TokensInit == Init => AtMostOneFrame /\ TokensInOrder
<1> SUFFICES ASSUME Init PROVE AtMostOneFrame /\ TokensInOrder
  OBVIOUS
<1>1. /\ raw = 1 /\ cache = <<>> /\ cpos = 0 /\ frames = <<>> /\ known = FALSE /\ seen = <<>>
      /\ ~InHandler /\ Len(cache) = 0 /\ Len(seen) = 0 /\ Len(frames) = 0
  BY DEF Init, InHandler
<1>2. AtMostOneFrame
  BY <1>1 DEF AtMostOneFrame
<1>3. Base = 0 /\ LastSeen = 0
  BY <1>1 DEF Base, LastSeen
<1>4. LastLexed = 0
  BY <1>1, <1>3 DEF LastLexed, Before
<1> QED BY <1>1, <1>2, <1>3, <1>4 DEF TokensInOrder, ParserSeesSource

(* The parser sees the file in every behaviour, also in one that stops.    *)
LEMMA SourceKept ==
  ASSUME MaxDepth = 1
  PROVE  HandlerRuns => []ParserSeesSource
<1> DEFINE Inv == TypeInv /\ AtMostOneFrame /\ TokensInOrder
<1>1. Init => Inv
  BY TypeInvInit, TokensInit
<1>2. Inv /\ [Next]_vars => Inv'
  <2>1. NoNesting
    BY DEF NoNesting
  <2> QED BY <2>1, TypeInvStep, OneFrameStep, TokensStep
<1>3. Inv => ParserSeesSource
  BY DEF TokensInOrder
<1> QED BY <1>1, <1>2, <1>3, PTL DEF HandlerRuns

(* In a file whose particles do not nest (in the model, MaxDepth = 1), of  *)
(* any length and with any number of particles: EnableBacktrackAtThisPos,  *)
(* the lookahead and Backtrack neither drop, repeat nor reorder a token on *)
(* its way to the parser, also when the next pragma is met while tokens of *)
(* the last lookahead are still in the cache.                              *)
THEOREM ParserUndisturbed ==
  ASSUME MaxDepth = 1
  PROVE  Spec => []ParserSeesSource
BY SourceKept, PTL DEF Spec, HandlerRuns
=============================================================================
