--------------------------- MODULE RewriteProofs ----------------------------
(***************************************************************************)
(* Proofs about ParserProxy, concluded: what is printed of a plain file.   *)
(*                                                                         *)
(* Every character has a rank: one of the file its place, one of a text    *)
(* that is inserted the place where it goes.  The buffer is always sorted  *)
(* by rank, and its deltas map an offset that is not inside of a removed   *)
(* range to the cut of the text at the rank of the offset.  So an edit is  *)
(* made where it is meant to be, whatever has been edited before, and the  *)
(* text can be told from the set of edits without their order.             *)
(***************************************************************************)
EXTENDS ParserProxyProofs
-----------------------------------------------------------------------------
(* Texts whose characters have ranks. Of two characters of the same        *)
(* inserted text, the first in it stands first.                            *)
InOrder(c, d, rank) ==
  /\ rank[c] <= rank[d]
  /\ c[1] = d[1] /\ c[2] = d[2] => c[3] < d[3]

Sorted(text, rank) ==
  \A j, k \in 1..Len(text) : j < k => InOrder(text[j], text[k], rank)

(* Exactly the characters up to rank r stand before m.                     *)
CutAt(text, rank, m, r) ==
  /\ m \in 0..Len(text)
  /\ \A k \in 1..Len(text) : k <= m <=> rank[text[k]] <= r

Ranks == [Character -> Int]

(* All characters of a text have rank v.                                   *)
Ranked(text, rank, v) == \A k \in 1..Len(text) : rank[text[k]] = v

(* No part of the string is in the text already.                           *)
NewTo(string, text) ==
  \A c \in ToSet(text), d \in ToSet(string) : ~(c[1] = d[1] /\ c[2] = d[2])

(* What a text with a part taken out consists of.                          *)
LEMMA PartOut ==
  ASSUME NEW text \in Seq(Character), NEW r \in Nat, NEW s \in Nat, r <= s, s <= Len(text)
  PROVE  LET t == SubSeq(text, 1, r) \o SubSeq(text, s + 1, Len(text)) IN
         /\ t \in Seq(Character) /\ Len(t) = Len(text) - (s - r)
         /\ \A k \in 1..Len(t) : t[k] = IF k <= r THEN text[k] ELSE text[k + (s - r)]
<1>1. Len(text) \in Nat /\ r \in 0..Len(text) /\ s \in 0..Len(text)
  BY LenProperties
<1> DEFINE N == Len(text)
           left == SubSeq(text, 1, r)
           right == SubSeq(text, s + 1, N)
           t == left \o right
<1>2. left \in Seq(Character) /\ Len(left) = r /\ \A i \in 1..r : left[i] = text[i]
  <2>1. <<>> \in Seq(Character)
    BY EmptySeq
  <2> QED BY <1>1, <2>1, SpliceIs
<1>3. right \in Seq(Character) /\ Len(right) = N - s /\ \A i \in 1..(N - s) : right[i] = text[s + i]
  <2>1. <<>> \in Seq(Character)
    BY EmptySeq
  <2> QED BY <1>1, <2>1, SpliceIs
<1> HIDE DEF left, right
<1>4. /\ t \in Seq(Character) /\ Len(t) = r + (N - s)
      /\ \A k \in 1..r : t[k] = left[k]
      /\ \A k \in 1..(N - s) : t[r + k] = right[k]
  <2>1. left \in Seq(Character) /\ right \in Seq(Character)
    BY <1>2, <1>3
  <2>2. /\ t \in Seq(Character) /\ Len(t) = Len(left) + Len(right)
        /\ \A k \in 1..Len(left) : t[k] = left[k]
        /\ \A k \in 1..Len(right) : t[Len(left) + k] = right[k]
    BY <2>1, ConcatAt
  <2> HIDE DEF t
  <2> QED BY <1>2, <1>3, <2>2
<1> HIDE DEF t
<1>5. ASSUME NEW k \in 1..Len(t) PROVE t[k] = IF k <= r THEN text[k] ELSE text[k + (s - r)]
  <2>1. CASE k <= r
    BY <1>1, <1>2, <1>4, <2>1
  <2>2. CASE ~(k <= r)
    <3>1. k - r \in 1..(N - s) /\ r + (k - r) = k /\ s + (k - r) = k + (s - r)
      BY <1>1, <1>4, <2>2
    <3>2. t[k] = right[k - r] /\ right[k - r] = text[k + (s - r)]
      BY <1>3, <1>4, <3>1
    <3> QED BY <2>2, <3>2
  <2> QED BY <2>1, <2>2
<1>6. Len(t) = N - (s - r)
  BY <1>1, <1>4
<1> QED BY <1>4, <1>5, <1>6 DEF t, left, right, N

(* What a text with another one put into it consists of.                   *)
LEMMA PartIn ==
  ASSUME NEW text \in Seq(Character), NEW string \in Seq(Character), NEW r \in Nat, r <= Len(text)
  PROVE  LET t == Splice(text, r, string)
             l == Len(string)
         IN  /\ l \in Nat /\ t \in Seq(Character) /\ Len(t) = Len(text) + l
             /\ \A k \in 1..Len(t) : t[k] = IF k <= r THEN text[k]
                                            ELSE IF k <= r + l THEN string[k - r] ELSE text[k - l]
             /\ ToSet(t) = ToSet(text) \cup ToSet(string)
<1>1. Len(text) \in Nat /\ r \in 0..Len(text) /\ Len(string) \in Nat
  BY LenProperties
<1> DEFINE N == Len(text)
           l == Len(string)
           left == SubSeq(text, 1, r)
           right == SubSeq(text, r + 1, N)
           d == left \o string
           t == Splice(text, r, string)
<1>2. left \in Seq(Character) /\ Len(left) = r /\ \A i \in 1..r : left[i] = text[i]
  BY <1>1, SpliceIs
<1>3. right \in Seq(Character) /\ Len(right) = N - r /\ \A i \in 1..(N - r) : right[i] = text[r + i]
  BY <1>1, SpliceIs
<1>4. t \in Seq(Character) /\ Len(t) = N + l /\ ToSet(t) = ToSet(text) \cup ToSet(string) /\ t = d \o right
  <2>1. t \in Seq(Character) /\ Len(t) = N + l /\ ToSet(t) = ToSet(text) \cup ToSet(string)
    BY <1>1, SpliceIs
  <2>2. t = d \o right
    BY DEF Splice
  <2> QED BY <2>1, <2>2
<1> HIDE DEF left, right, t
<1>5. /\ d \in Seq(Character) /\ Len(d) = r + l
      /\ \A k \in 1..r : d[k] = left[k]
      /\ \A k \in 1..l : d[r + k] = string[k]
  <2>1. left \in Seq(Character)
    BY <1>2
  <2>2. /\ d \in Seq(Character) /\ Len(d) = Len(left) + Len(string)
        /\ \A k \in 1..Len(left) : d[k] = left[k]
        /\ \A k \in 1..Len(string) : d[Len(left) + k] = string[k]
    BY <2>1, ConcatAt
  <2> HIDE DEF d
  <2> QED BY <1>2, <2>2
<1> HIDE DEF d
<1>6. /\ \A k \in 1..(r + l) : t[k] = d[k]
      /\ \A k \in 1..(N - r) : t[(r + l) + k] = right[k]
  <2>1. d \in Seq(Character) /\ right \in Seq(Character)
    BY <1>3, <1>5
  <2>2. /\ \A k \in 1..Len(d) : (d \o right)[k] = d[k]
        /\ \A k \in 1..Len(right) : (d \o right)[Len(d) + k] = right[k]
    BY <2>1, ConcatAt
  <2> QED BY <1>3, <1>4, <1>5, <2>2
<1> HIDE DEF l
<1>7. ASSUME NEW k \in 1..Len(t)
      PROVE  t[k] = IF k <= r THEN text[k]
                    ELSE IF k <= r + l THEN string[k - r] ELSE text[k - l]
  <2>1. CASE k <= r
    <3>1. k \in 1..r /\ k \in 1..(r + l)
      BY <1>1, <2>1 DEF l
    <3> QED BY <1>2, <1>5, <1>6, <2>1, <3>1
  <2>2. CASE ~(k <= r) /\ k <= r + l
    <3>1. k - r \in 1..l /\ r + (k - r) = k /\ k \in 1..(r + l)
      BY <1>1, <2>2 DEF l
    <3> QED BY <1>5, <1>6, <2>2, <3>1
  <2>3. CASE ~(k <= r) /\ ~(k <= r + l)
    <3>1. k - (r + l) \in 1..(N - r) /\ (r + l) + (k - (r + l)) = k /\ r + (k - (r + l)) = k - l
      BY <1>1, <1>4, <2>3 DEF l
    <3>2. t[k] = right[k - (r + l)] /\ right[k - (r + l)] = text[k - l]
      BY <1>3, <1>6, <3>1
    <3> QED BY <2>3, <3>2
  <2> QED BY <2>1, <2>2, <2>3
<1> QED BY <1>1, <1>4, <1>7 DEF t, l, N

(* What stands between two cuts can be taken out: the rest stays sorted,   *)
(* and every other cut finds its place.                                    *)
LEMMA SortedOut ==
  ASSUME NEW text \in Seq(Character), NEW rank \in Ranks, Sorted(text, rank),
         NEW a \in Int, NEW b \in Int, a <= b, NEW r, NEW s,
         CutAt(text, rank, r, a), CutAt(text, rank, s, b)
  PROVE  LET t == SubSeq(text, 1, r) \o SubSeq(text, s + 1, Len(text)) IN
         /\ r \in Nat /\ s \in Nat /\ r <= s /\ s <= Len(text)
         /\ t \in Seq(Character) /\ Sorted(t, rank) /\ Len(t) = Len(text) - (s - r)
         /\ ToSet(t) = {c \in ToSet(text) : ~(a < rank[c] /\ rank[c] <= b)}
         /\ \A m, x : CutAt(text, rank, m, x) /\ x \in Int /\ x <= a => CutAt(t, rank, m, x)
         /\ \A m, x : CutAt(text, rank, m, x) /\ x \in Int /\ x >= b => CutAt(t, rank, m - (s - r), x)
<1> DEFINE N == Len(text)
           t == SubSeq(text, 1, r) \o SubSeq(text, s + 1, N)
           n == s - r
<1>1. N \in Nat /\ \A k \in 1..N : text[k] \in Character /\ rank[text[k]] \in Int
  BY LenProperties, ElementOfSeq DEF Ranks
<1>2. r \in Nat /\ s \in Nat /\ r <= N /\ s <= N
  BY <1>1 DEF CutAt
<1>3. r <= s
  <2> SUFFICES ASSUME s < r PROVE FALSE
    BY <1>2
  <2>1. r \in 1..N /\ ~(r <= s)
    BY <1>2
  <2>2. rank[text[r]] <= a
    BY <1>1, <1>2, <2>1 DEF CutAt
  <2>3. ~(rank[text[r]] <= b)
    BY <2>1 DEF CutAt
  <2> QED BY <1>1, <2>1, <2>2, <2>3
<1>4. /\ t \in Seq(Character) /\ Len(t) = N - n
      /\ \A k \in 1..Len(t) : t[k] = IF k <= r THEN text[k] ELSE text[k + n]
  BY <1>2, <1>3, PartOut
<1> HIDE DEF t
<1>5. n \in Nat /\ r + n = s
  BY <1>2, <1>3
<1> HIDE DEF n
<1> DEFINE old(k) == IF k <= r THEN k ELSE k + n
<1>6. \A k \in 1..(N - n) : old(k) \in 1..N /\ t[k] = text[old(k)]
  BY <1>1, <1>2, <1>4, <1>5
<1>7. \A j, k \in 1..(N - n) : j < k => old(j) < old(k)
  BY <1>1, <1>2, <1>5
<1>8. \A k \in 1..N : k <= r => k \in 1..(N - n) /\ old(k) = k
  BY <1>1, <1>2, <1>3, <1>5
<1>9. \A k \in 1..N : k > s => k - n \in 1..(N - n) /\ old(k - n) = k
  BY <1>1, <1>2, <1>3, <1>5
<1>10. \A k \in 1..(N - n) : old(k) <= r \/ old(k) > s
  BY <1>1, <1>2, <1>3, <1>5
<1>11. Sorted(t, rank)
  <2> SUFFICES ASSUME NEW j \in 1..(N - n), NEW k \in 1..(N - n), j < k
               PROVE  InOrder(t[j], t[k], rank)
    BY <1>4 DEF Sorted
  <2> HIDE DEF old
  <2>1. old(j) \in 1..N /\ old(k) \in 1..N /\ old(j) < old(k)
    BY <1>6, <1>7
  <2> QED BY <1>6, <2>1 DEF Sorted
<1>12. \A k \in 1..N : (k <= r \/ k > s) <=> ~(a < rank[text[k]] /\ rank[text[k]] <= b)
  BY <1>1, <1>2, <1>3 DEF CutAt
<1>13. ToSet(t) = {c \in ToSet(text) : ~(a < rank[c] /\ rank[c] <= b)}
  <2>1. ToSet(t) = {t[k] : k \in 1..(N - n)} /\ ToSet(text) = {text[k] : k \in 1..N}
    BY <1>4, LenProperties DEF ToSet
  <2> HIDE DEF old
  <2>2. \A k \in 1..(N - n) : t[k] \in ToSet(text) /\ ~(a < rank[t[k]] /\ rank[t[k]] <= b)
    BY <1>6, <1>10, <1>12, <2>1
  <2>3. \A k \in 1..N : ~(a < rank[text[k]] /\ rank[text[k]] <= b) => text[k] \in ToSet(t)
    BY <1>6, <1>8, <1>9, <1>12, <2>1
  <2> QED BY <2>1, <2>2, <2>3
<1>14. ASSUME NEW m, NEW x \in Int, CutAt(text, rank, m, x), x <= a PROVE CutAt(t, rank, m, x)
  <2>1. m \in 0..N
    BY <1>14 DEF CutAt
  <2>2. m <= r
    <3> SUFFICES ASSUME r < m PROVE FALSE
      BY <1>2, <2>1
    <3>1. m \in 1..N /\ ~(m <= r) /\ m <= m
      BY <1>2, <2>1
    <3>2. rank[text[m]] <= x /\ ~(rank[text[m]] <= a)
      BY <1>14, <3>1 DEF CutAt
    <3> QED BY <1>1, <1>14, <3>1, <3>2
  <2>3. m \in 0..(N - n)
    BY <1>2, <1>3, <1>5, <2>1, <2>2
  <2>4. ASSUME NEW k \in 1..(N - n) PROVE k <= m <=> rank[t[k]] <= x
    <3>1. old(k) \in 1..N /\ t[k] = text[old(k)]
      BY <1>6
    <3>2. old(k) <= m <=> k <= m
      BY <1>2, <1>5, <2>1, <2>2
    <3> HIDE DEF old
    <3> QED BY <1>14, <3>1, <3>2 DEF CutAt
  <2> QED BY <1>4, <2>3, <2>4 DEF CutAt
<1>15. ASSUME NEW m, NEW x \in Int, CutAt(text, rank, m, x), x >= b PROVE CutAt(t, rank, m - n, x)
  <2>1. m \in 0..N
    BY <1>15 DEF CutAt
  <2>2. s <= m
    <3> SUFFICES ASSUME m < s PROVE FALSE
      BY <1>2, <2>1
    <3>1. s \in 1..N /\ ~(s <= m) /\ s <= s
      BY <1>2, <2>1
    <3>2. rank[text[s]] <= b /\ ~(rank[text[s]] <= x)
      BY <1>15, <3>1 DEF CutAt
    <3> QED BY <1>1, <1>15, <3>1, <3>2
  <2>3. m - n \in 0..(N - n)
    BY <1>2, <1>3, <1>5, <2>1, <2>2
  <2>4. ASSUME NEW k \in 1..(N - n) PROVE k <= m - n <=> rank[t[k]] <= x
    <3>1. old(k) \in 1..N /\ t[k] = text[old(k)]
      BY <1>6
    <3>2. old(k) <= m <=> k <= m - n
      BY <1>2, <1>3, <1>5, <2>1, <2>2
    <3> HIDE DEF old
    <3> QED BY <1>15, <3>1, <3>2 DEF CutAt
  <2> QED BY <1>4, <2>3, <2>4 DEF CutAt
<1> QED BY <1>2, <1>3, <1>4, <1>11, <1>13, <1>14, <1>15 DEF t, n, N

(* A text that is new can be put at a cut next to its rank.                *)
LEMMA SortedIn ==
  ASSUME NEW text \in Seq(Character), NEW string \in Seq(Character), NEW rank \in Ranks,
         Sorted(text, rank), Sorted(string, rank),
         NEW v \in Int, Ranked(string, rank, v), NewTo(string, text),
         NEW a \in Int, v - 1 <= a, a <= v, NEW r, CutAt(text, rank, r, a)
  PROVE  LET t == Splice(text, r, string) IN
         /\ r \in 0..Len(text) /\ t \in Seq(Character) /\ Sorted(t, rank)
         /\ ToSet(t) = ToSet(text) \cup ToSet(string)
         /\ \A m, x : CutAt(text, rank, m, x) /\ x \in Int /\ x < v => CutAt(t, rank, m, x)
         /\ \A m, x : CutAt(text, rank, m, x) /\ x \in Int /\ x >= v
                        => CutAt(t, rank, m + Len(string), x)
<1> DEFINE N == Len(text)
           l == Len(string)
           t == Splice(text, r, string)
<1>1. /\ N \in Nat /\ \A k \in 1..N : text[k] \in Character /\ rank[text[k]] \in Int
      /\ l \in Nat /\ \A k \in 1..l : string[k] \in Character /\ rank[string[k]] = v
  BY LenProperties, ElementOfSeq DEF Ranks, Ranked
<1>11. \A j \in 1..N, k \in 1..l : ~(text[j][1] = string[k][1] /\ text[j][2] = string[k][2])
  <2>1. \A j \in 1..N : text[j] \in ToSet(text)
    BY <1>1, LenProperties DEF ToSet
  <2>2. \A k \in 1..l : string[k] \in ToSet(string)
    BY <1>1, LenProperties DEF ToSet
  <2> QED BY <2>1, <2>2 DEF NewTo
<1>2. r \in Nat /\ r <= N
  BY <1>1 DEF CutAt
<1>3. /\ t \in Seq(Character) /\ Len(t) = N + l
      /\ \A k \in 1..Len(t) : t[k] = IF k <= r THEN text[k]
                                     ELSE IF k <= r + l THEN string[k - r] ELSE text[k - l]
      /\ ToSet(t) = ToSet(text) \cup ToSet(string)
  BY <1>2, PartIn
<1> HIDE DEF t
<1> DEFINE Old(k) == k <= r \/ k > r + l
           old(k) == IF k <= r THEN k ELSE k - l
<1>4. \A k \in 1..(N + l) : /\ Old(k) => old(k) \in 1..N /\ t[k] = text[old(k)]
                            /\ ~Old(k) => k - r \in 1..l /\ t[k] = string[k - r]
  BY <1>1, <1>2, <1>3
<1>5. \A k \in 1..N : rank[text[k]] <= a <=> k <= r
  BY DEF CutAt
<1>6. \A k \in 1..N : /\ k <= r => rank[text[k]] <= v
                      /\ ~(k <= r) => rank[text[k]] >= v
  BY <1>1, <1>5
<1>7. ASSUME NEW j \in 1..(N + l), NEW k \in 1..(N + l), j < k
      PROVE  InOrder(t[j], t[k], rank)
  <2>1. CASE Old(j) /\ Old(k)
    <3>1. old(j) \in 1..N /\ old(k) \in 1..N /\ old(j) < old(k) /\ t[j] = text[old(j)] /\ t[k] = text[old(k)]
      BY <1>1, <1>2, <1>4, <1>7, <2>1
    <3> HIDE DEF old
    <3> QED BY <3>1 DEF Sorted
  <2>2. CASE ~Old(j) /\ ~Old(k)
    <3>1. j - r \in 1..l /\ k - r \in 1..l /\ j - r < k - r /\ t[j] = string[j - r] /\ t[k] = string[k - r]
      BY <1>2, <1>4, <1>7, <2>2
    <3> QED BY <3>1 DEF Sorted
  <2>3. CASE Old(j) /\ ~Old(k)
    <3>1. old(j) \in 1..N /\ old(j) <= r /\ k - r \in 1..l /\ t[j] = text[old(j)] /\ t[k] = string[k - r]
      BY <1>1, <1>2, <1>4, <1>7, <2>3
    <3> HIDE DEF old
    <3> QED BY <1>1, <1>6, <1>11, <3>1 DEF InOrder
  <2>4. CASE ~Old(j) /\ Old(k)
    <3>1. old(k) \in 1..N /\ ~(old(k) <= r) /\ j - r \in 1..l /\ t[k] = text[old(k)] /\ t[j] = string[j - r]
      BY <1>1, <1>2, <1>4, <1>7, <2>4
    <3> HIDE DEF old
    <3> QED BY <1>1, <1>6, <1>11, <3>1 DEF InOrder
  <2> QED BY <2>1, <2>2, <2>3, <2>4
<1>8. Sorted(t, rank)
  BY <1>3, <1>7 DEF Sorted
<1>9. ASSUME NEW m, NEW x \in Int, CutAt(text, rank, m, x), x < v PROVE CutAt(t, rank, m, x)
  <2>1. m \in 0..N
    BY <1>9 DEF CutAt
  <2>2. m <= r
    <3> SUFFICES ASSUME r < m PROVE FALSE
      BY <1>2, <2>1
    <3>1. m \in 1..N /\ ~(m <= r) /\ m <= m
      BY <1>2, <2>1
    <3>2. rank[text[m]] <= x /\ ~(rank[text[m]] <= a)
      BY <1>9, <3>1 DEF CutAt
    <3> QED BY <1>1, <1>9, <3>1, <3>2
  <2>3. m \in 0..(N + l)
    BY <1>1, <2>1
  <2>4. ASSUME NEW k \in 1..(N + l) PROVE k <= m <=> rank[t[k]] <= x
    <3>1. CASE Old(k)
      <4>1. old(k) \in 1..N /\ t[k] = text[old(k)]
        BY <1>4, <3>1
      <4>2. old(k) <= m <=> k <= m
        BY <1>1, <1>2, <2>1, <2>2, <3>1
      <4> HIDE DEF old
      <4> QED BY <1>9, <4>1, <4>2 DEF CutAt
    <3>2. CASE ~Old(k)
      <4>1. t[k] = string[k - r] /\ k - r \in 1..l /\ ~(k <= m)
        BY <1>2, <1>4, <2>1, <2>2, <3>2
      <4> QED BY <1>1, <1>9, <4>1
    <3> QED BY <3>1, <3>2
  <2> QED BY <1>3, <2>3, <2>4 DEF CutAt
<1>10. ASSUME NEW m, NEW x \in Int, CutAt(text, rank, m, x), x >= v PROVE CutAt(t, rank, m + l, x)
  <2>1. m \in 0..N
    BY <1>10 DEF CutAt
  <2>2. r <= m
    <3> SUFFICES ASSUME m < r PROVE FALSE
      BY <1>2, <2>1
    <3>1. r \in 1..N /\ ~(r <= m) /\ r <= r
      BY <1>2, <2>1
    <3>2. rank[text[r]] <= a /\ ~(rank[text[r]] <= x)
      BY <1>10, <3>1 DEF CutAt
    <3> QED BY <1>1, <1>10, <3>1, <3>2
  <2>3. m + l \in 0..(N + l)
    BY <1>1, <2>1
  <2>4. ASSUME NEW k \in 1..(N + l) PROVE k <= m + l <=> rank[t[k]] <= x
    <3>1. CASE Old(k)
      <4>1. old(k) \in 1..N /\ t[k] = text[old(k)]
        BY <1>4, <3>1
      <4>2. old(k) <= m <=> k <= m + l
        BY <1>1, <1>2, <2>1, <2>2, <3>1
      <4> HIDE DEF old
      <4> QED BY <1>10, <4>1, <4>2 DEF CutAt
    <3>2. CASE ~Old(k)
      <4>1. t[k] = string[k - r] /\ k - r \in 1..l /\ k <= m + l
        BY <1>1, <1>2, <1>4, <2>1, <2>2, <3>2
      <4> QED BY <1>1, <1>10, <4>1
    <3> QED BY <3>1, <3>2
  <2> QED BY <1>3, <2>3, <2>4 DEF CutAt
<1> QED BY <1>2, <1>3, <1>8, <1>9, <1>10 DEF t, l, N
-----------------------------------------------------------------------------
(* A buffer of a file of N characters: its text is sorted; at every offset *)
(* but those that are lost both cuts are where the deltas say; and the     *)
(* deltas change only at the marks, where edits have been recorded.        *)
Buffers(S, D) == [text : S, deltas : D, invalid : BOOLEAN]

Maps(b, N, rank, lost, marks) ==
  /\ b \in Buffers(Seq(Character), [0..(2 * N + 1) -> Int])
  /\ b.invalid = FALSE
  /\ Sorted(b.text, rank)
  /\ \A x \in 0..N : x \notin lost =>
       /\ CutAt(b.text, rank, Mapped(b, x, FALSE), 2 * x)
       /\ CutAt(b.text, rank, Mapped(b, x, TRUE), 2 * x + 1)
  /\ \A i \in 0..(2 * N) : i \notin marks => b.deltas[i] = b.deltas[i + 1]

(* A buffer gets another text, or other deltas.                            *)
LEMMA NewText ==
  ASSUME NEW S, NEW D, NEW b \in Buffers(S, D), NEW t \in S
  PROVE  LET c == [b EXCEPT !.text = t] IN
         c \in Buffers(S, D) /\ c.text = t /\ c.deltas = b.deltas /\ c.invalid = b.invalid
BY DEF Buffers

LEMMA NewDeltas ==
  ASSUME NEW S, NEW D, NEW b \in Buffers(S, D), NEW d \in D
  PROVE  LET c == [b EXCEPT !.deltas = d] IN
         c \in Buffers(S, D) /\ c.deltas = d /\ c.text = b.text /\ c.invalid = b.invalid
BY DEF Buffers

(* What a mapped offset is.                                                *)
LEMMA MappedIs ==
  ASSUME NEW N \in Nat, NEW b, b.deltas \in [0..(2 * N + 1) -> Int], NEW x \in 0..N
  PROVE  /\ Mapped(b, x, FALSE) = x + b.deltas[2 * x]
         /\ Mapped(b, x, TRUE) = x + b.deltas[2 * x + 1]
         /\ Mapped(b, x, FALSE) \in Int /\ Mapped(b, x, TRUE) \in Int
<1>1. 2 * x \in 0..(2 * N + 1) /\ 2 * x + 1 \in 0..(2 * N + 1) /\ 2 * x + 0 = 2 * x
  OBVIOUS
<1>2. b.deltas[2 * x] \in Int /\ b.deltas[2 * x + 1] \in Int
  BY <1>1
<1> QED BY <1>1, <1>2, SMTT(20) DEF Mapped, DeltaAt

(* The size of a removal, from one offset to another.                      *)
SizeOf(b, from, to) == Mapped(b, to, FALSE) - Mapped(b, from, FALSE)

(* Some character stands behind everything up to rank r.                   *)
Reaches(text, rank, r) == \E k \in 1..Len(text) : rank[text[k]] > r

(* The characters whose ranks are not from r on up to s.                   *)
Spared(S, rank, r, s) == {c \in S : ~(r < rank[c] /\ rank[c] <= s)}

(* A buffer that maps its offsets, and the characters it consists of.      *)
Becomes(c, N, rank, lost, marks, S) == Maps(c, N, rank, lost, marks) /\ ToSet(c.text) = S

(* Taking out what stands between two offsets that are not lost.           *)
LEMMA RemoveKeeps ==
  ASSUME NEW N \in Nat, NEW rank \in Ranks, NEW lost, NEW marks, NEW b,
         Maps(b, N, rank, lost, marks),
         NEW from \in 0..N, NEW to \in 0..N, from < to, from \notin lost, to \notin lost,
         2 * from \notin marks,
         Reaches(b.text, rank, 2 * to)
  PROVE  Becomes(RemoveText(b, from, SizeOf(b, from, to)), N, rank,
                 lost \cup (from + 1)..(to - 1), marks \cup {2 * from + 1},
                 Spared(ToSet(b.text), rank, 2 * from, 2 * to))
<1> DEFINE r == Mapped(b, from, FALSE)
           s == Mapped(b, to, FALSE)
           n == SizeOf(b, from, to)
           u == 2 * from
           v == 2 * to
           lost2 == lost \cup (from + 1)..(to - 1)
           marks2 == marks \cup {2 * from + 1}
           text == b.text
           e == b.deltas
           t == SubSeq(text, 1, r) \o SubSeq(text, s + 1, Len(text))
           d == [i \in 0..(2 * N + 1) |-> IF u + 1 < i THEN e[i] - n ELSE e[i]]
           c == RemoveText(b, from, n)
<1> DEFINE D == [0..(2 * N + 1) -> Int]
<1>1. /\ text \in Seq(Character) /\ Sorted(text, rank) /\ Len(text) \in Nat
      /\ e \in [0..(2 * N + 1) -> Int]
      /\ b \in Buffers(Seq(Character), D) /\ b.text = text /\ b.deltas = e /\ b.invalid = FALSE
  BY LenProperties DEF Maps, Buffers
<1>2. /\ u \in Int /\ v \in Int /\ u <= v /\ u \in 0..(2 * N) /\ u \in 0..(2 * N + 1)
      /\ u + 1 \in 0..(2 * N + 1) /\ v \in 0..(2 * N + 1) /\ u + 2 <= v
  OBVIOUS
<1>3. \A x \in 0..N : /\ Mapped(b, x, FALSE) = x + e[2 * x]
                      /\ Mapped(b, x, TRUE) = x + e[2 * x + 1]
                      /\ Mapped(b, x, FALSE) \in Int /\ Mapped(b, x, TRUE) \in Int
  BY <1>1, MappedIs
<1>4. r \in Int /\ s \in Int /\ n = s - r /\ n \in Int
  <2>1. r \in Int /\ s \in Int
    BY <1>3
  <2>2. n = s - r
    BY DEF SizeOf
  <2> HIDE DEF r, s, n
  <2> QED BY <2>1, <2>2
<1>5. \A i \in 0..(2 * N) : i \notin marks => e[i] = e[i + 1]
  BY DEF Maps
<1>6. Mapped(b, from, TRUE) = r
  <2>1. e[u] = e[u + 1]
    BY <1>2, <1>5
  <2>2. /\ Mapped(b, from, FALSE) = from + e[u]
        /\ Mapped(b, from, TRUE) = from + e[u + 1]
    BY <1>3
  <2> QED BY <2>1, <2>2
<1>7. CutAt(text, rank, r, u) /\ CutAt(text, rank, s, v)
  BY DEF Maps
<1>8. \A x \in 0..N : x \notin lost => /\ CutAt(text, rank, x + e[2 * x], 2 * x)
                                       /\ CutAt(text, rank, x + e[2 * x + 1], 2 * x + 1)
  <2> SUFFICES ASSUME NEW x \in 0..N, x \notin lost
               PROVE  /\ CutAt(text, rank, x + e[2 * x], 2 * x)
                      /\ CutAt(text, rank, x + e[2 * x + 1], 2 * x + 1)
    OBVIOUS
  <2>1. /\ CutAt(text, rank, Mapped(b, x, FALSE), 2 * x)
        /\ CutAt(text, rank, Mapped(b, x, TRUE), 2 * x + 1)
    BY DEF Maps
  <2>2. Mapped(b, x, FALSE) = x + e[2 * x] /\ Mapped(b, x, TRUE) = x + e[2 * x + 1]
    BY <1>3
  <2> HIDE DEF text, e
  <2> QED BY <2>1, <2>2
<1>9. PICK k \in 1..Len(text) : rank[text[k]] > v
  BY DEF Reaches
<1>10. c = RemoveText(b, from, n) /\ DOMAIN e = 0..(2 * N + 1)
  BY <1>1
<1>11. u = 2 * from /\ v = 2 * to
  OBVIOUS
<1> HIDE DEF r, s, n, u, v, text, e, c
<1>12. /\ r \in Nat /\ s \in Nat /\ r <= s /\ s <= Len(text)
       /\ t \in Seq(Character) /\ Sorted(t, rank) /\ Len(t) = Len(text) - (s - r)
       /\ ToSet(t) = {w \in ToSet(text) : ~(u < rank[w] /\ rank[w] <= v)}
       /\ \A m, x : CutAt(text, rank, m, x) /\ x \in Int /\ x <= u => CutAt(t, rank, m, x)
       /\ \A m, x : CutAt(text, rank, m, x) /\ x \in Int /\ x >= v => CutAt(t, rank, m - (s - r), x)
  <2>1. text \in Seq(Character) /\ Sorted(text, rank) /\ u \in Int /\ v \in Int /\ u <= v
    BY <1>1, <1>2
  <2> QED BY <1>7, <2>1, SortedOut
<1>13. s < Len(text)
  <2>1. rank[text[k]] \in Int
    BY <1>1, ElementOfSeq DEF Ranks
  <2>2. ~(k <= s)
    BY <1>2, <1>7, <1>9, <2>1 DEF CutAt
  <2> QED BY <1>1, <1>12, <2>2
<1>14. /\ d \in [0..(2 * N + 1) -> Int]
       /\ \A i \in 0..(2 * N + 1) : d[i] = IF u + 1 < i THEN e[i] - n ELSE e[i]
  <2>1. \A i \in 0..(2 * N + 1) : e[i] \in Int
    BY <1>1
  <2> QED BY <1>4, <2>1
<1>15. \A i \in 0..(2 * N + 1) : /\ i <= u + 1 => d[i] = e[i]
                                 /\ i > u + 1 => d[i] = e[i] - n
  BY <1>2, <1>14
<1>16. /\ c.text = t /\ c.deltas = d /\ c.invalid = FALSE
       /\ c \in Buffers(Seq(Character), D)
  <2>1. CASE n = 0
    <3>1. c = b
      BY <1>6, <1>10, <2>1 DEF RemoveText
    <3>2. d = e
      BY <1>1, <1>14, <2>1
    <3>3. t = text
      <4>1. s = r /\ s - r = 0 /\ Len(t) = Len(text) /\ \A i \in 1..Len(text) : i + (s - r) = i
        <5>1. s - r = 0 /\ s = r
          BY <1>4, <2>1
        <5>2. Len(t) = Len(text) - (s - r)
          BY <1>12
        <5> HIDE DEF t
        <5> QED BY <1>1, <5>1, <5>2
      <4>2. \A i \in 1..Len(t) : t[i] = IF i <= r THEN text[i] ELSE text[i + (s - r)]
        <5>1. text \in Seq(Character) /\ r \in Nat /\ s \in Nat /\ r <= s /\ s <= Len(text)
          BY <1>1, <1>12
        <5> QED BY <5>1, PartOut, ZenonT(60)
      <4> HIDE DEF t
      <4>3. \A i \in 1..Len(text) : t[i] = text[i]
        BY <1>1, <4>1, <4>2
      <4> QED BY <1>1, <1>12, <4>1, <4>3, SeqEqual
    <3> HIDE DEF t, d
    <3> QED BY <1>1, <3>1, <3>2, <3>3
  <2>2. CASE n # 0
    <3>1. ~(n < 0 \/ r < 0 \/ r + n >= Len(text)) /\ r + n = s /\ r + n + 1 = s + 1
      BY <1>1, <1>4, <1>12, <1>13
    <3>2. b.text = text
      BY <1>1
    <3> DEFINE w == [b EXCEPT !.text = SubSeq(@, 1, r) \o SubSeq(@, r + n + 1, Len(@))]
    <3>3. c = AddDelta(w, 2 * from + 1, -n)
      BY <1>6, <1>10, <2>2, <3>1, <3>2 DEF RemoveText
    <3>4. w = [b EXCEPT !.text = t]
      BY <3>1, <3>2
    <3> HIDE DEF w, t
    <3>5. w \in Buffers(Seq(Character), D) /\ w.text = t /\ w.deltas = e /\ w.invalid = FALSE
      <4>1. b \in Buffers(Seq(Character), D) /\ t \in Seq(Character)
        BY <1>1, <1>12
      <4> QED BY <1>1, <3>4, <4>1, NewText
    <3>6. AddDelta(w, 2 * from + 1, -n)
            = [w EXCEPT !.deltas = [i \in DOMAIN @ |-> IF 2 * from + 1 < i THEN @[i] + (-n) ELSE @[i]]]
      BY DEF AddDelta
    <3>7. [i \in DOMAIN w.deltas |-> IF 2 * from + 1 < i THEN w.deltas[i] + (-n) ELSE w.deltas[i]] = d
      <4>1. \A i \in 0..(2 * N + 1) : e[i] \in Int /\ e[i] + (-n) = e[i] - n
        BY <1>1, <1>4
      <4> QED BY <1>10, <1>11, <3>5, <4>1
    <3>8. d \in D
      BY <1>14
    <3> HIDE DEF d, D
    <3>9. c = [w EXCEPT !.deltas = d]
      BY <3>3, <3>6, <3>7
    <3> QED BY <3>5, <3>8, <3>9, NewDeltas
  <2> QED BY <2>1, <2>2
<1> HIDE DEF t, d
<1>17. ASSUME NEW i \in 0..(2 * N), i \notin marks2 PROVE d[i] = d[i + 1]
  <2>1. i \notin marks /\ i # u + 1 /\ i \in 0..(2 * N + 1) /\ i + 1 \in 0..(2 * N + 1)
    BY <1>11, <1>17
  <2>2. e[i] = e[i + 1]
    BY <1>5, <2>1
  <2>3. u + 1 < i <=> u + 1 < i + 1
    BY <1>2, <2>1
  <2> QED BY <1>14, <2>1, <2>2, <2>3
<1>18. ASSUME NEW x \in 0..N, x \notin lost2
       PROVE  /\ CutAt(t, rank, x + d[2 * x], 2 * x)
              /\ CutAt(t, rank, x + d[2 * x + 1], 2 * x + 1)
  <2>1. x \notin lost /\ (x <= from \/ x >= to)
    BY <1>18
  <2>2. /\ CutAt(text, rank, x + e[2 * x], 2 * x)
        /\ CutAt(text, rank, x + e[2 * x + 1], 2 * x + 1)
    BY <1>8, <2>1
  <2>3. 2 * x \in 0..(2 * N + 1) /\ 2 * x + 1 \in 0..(2 * N + 1)
    OBVIOUS
  <2>4. e[2 * x] \in Int /\ e[2 * x + 1] \in Int
    BY <1>1, <2>3
  <2>5. CASE x < from
    <3>1. d[2 * x] = e[2 * x] /\ d[2 * x + 1] = e[2 * x + 1]
      <4>1. 2 * x <= u + 1 /\ 2 * x + 1 <= u + 1
        BY <1>11, <2>5
      <4> HIDE DEF d
      <4> QED BY <1>15, <2>3, <4>1
    <3>2. 2 * x <= u /\ 2 * x + 1 <= u /\ 2 * x \in Int /\ 2 * x + 1 \in Int
      BY <1>11, <2>5
    <3> QED BY <1>12, <2>2, <3>1, <3>2
  <2>6. CASE x = from
    <3>1. d[u] = e[u] /\ d[u + 1] = e[u + 1] /\ e[u] = e[u + 1] /\ 2 * x = u
      <4>1. 2 * x = u /\ u \notin marks /\ u <= u + 1 /\ u + 1 <= u + 1
        BY <1>2, <1>11, <2>6
      <4>2. e[u] = e[u + 1]
        BY <1>2, <1>5, <4>1
      <4>3. d[u] = e[u] /\ d[u + 1] = e[u + 1]
        BY <1>2, <1>15, <4>1
      <4> QED BY <4>1, <4>2, <4>3
    <3>2. u <= u /\ u \in Int
      BY <1>2
    <3>3. CutAt(t, rank, x + d[u], u)
      BY <1>12, <2>2, <3>1, <3>2
    <3>4. \A j \in 1..Len(t) : rank[t[j]] <= u <=> rank[t[j]] <= u + 1
      <4> SUFFICES ASSUME NEW j \in 1..Len(t) PROVE rank[t[j]] <= u <=> rank[t[j]] <= u + 1
        OBVIOUS
      <4>1. rank[t[j]] \in Int
        BY <1>12, ElementOfSeq DEF Ranks
      <4>2. t[j] \in ToSet(t)
        BY <1>12, LenProperties DEF ToSet
      <4>3. ~(u < rank[t[j]] /\ rank[t[j]] <= v)
        BY <1>12, <4>2
      <4> DEFINE R == rank[t[j]]
      <4> HIDE DEF R
      <4>4. R \in Int /\ ~(u < R /\ R <= v)
        BY <4>1, <4>3 DEF R
      <4>5. R <= u <=> R <= u + 1
        BY <1>2, <4>4
      <4> QED BY <4>5 DEF R
    <3>5. CutAt(t, rank, x + d[u], u + 1)
      BY <3>3, <3>4 DEF CutAt
    <3> QED BY <3>1, <3>3, <3>5
  <2>7. CASE x >= to
    <3>1. d[2 * x] = e[2 * x] - n /\ d[2 * x + 1] = e[2 * x + 1] - n
      <4>1. 2 * x > u + 1 /\ 2 * x + 1 > u + 1
        BY <1>11, <2>7
      <4> QED BY <1>15, <2>3, <4>1
    <3>2. 2 * x >= v /\ 2 * x + 1 >= v /\ 2 * x \in Int /\ 2 * x + 1 \in Int
      BY <1>11, <2>7
    <3>3. /\ CutAt(t, rank, (x + e[2 * x]) - (s - r), 2 * x)
          /\ CutAt(t, rank, (x + e[2 * x + 1]) - (s - r), 2 * x + 1)
      BY <1>12, <2>2, <3>2
    <3>4. /\ (x + e[2 * x]) - (s - r) = x + (e[2 * x] - n)
          /\ (x + e[2 * x + 1]) - (s - r) = x + (e[2 * x + 1] - n)
      <4>1. \A y, w \in Int : (y + w) - (s - r) = y + (w - n)
        BY <1>4
      <4>2. x \in Int
        OBVIOUS
      <4> QED BY <2>4, <4>1, <4>2, Zenon
    <3> QED BY <3>1, <3>3, <3>4
  <2> QED BY <2>1, <2>5, <2>6, <2>7
<1>19. \A x \in 0..N : /\ Mapped(c, x, FALSE) = x + d[2 * x]
                       /\ Mapped(c, x, TRUE) = x + d[2 * x + 1]
  <2>1. c.deltas \in [0..(2 * N + 1) -> Int]
    BY <1>14, <1>16
  <2>2. \A x \in 0..N : /\ Mapped(c, x, FALSE) = x + c.deltas[2 * x]
                        /\ Mapped(c, x, TRUE) = x + c.deltas[2 * x + 1]
    BY <2>1, MappedIs
  <2> QED BY <1>16, <2>2
<1>20. Maps(c, N, rank, lost2, marks2)
  <2> HIDE DEF lost2, marks2
  <2> QED BY <1>12, <1>16, <1>17, <1>18, <1>19 DEF Maps
<1> QED BY <1>11, <1>12, <1>16, <1>20 DEF c, n, text, Spared, Becomes, lost2, marks2

(* Putting a new text in at an offset o, when the edit is recorded at y.   *)
LEMMA InsertKeeps ==
  ASSUME NEW N \in Nat, NEW rank \in Ranks, NEW lost, NEW marks, NEW b,
         Maps(b, N, rank, lost, marks),
         NEW string \in Seq(Character), Sorted(string, rank),
         NEW o \in 0..N, o \notin lost, Ranked(string, rank, 2 * o + 1), NewTo(string, b.text),
         NEW y \in o..N, y = o \/ y \in lost,
         NEW after \in BOOLEAN, Mapped(b, y, after) = Mapped(b, o, after)
  PROVE  Becomes(InsertText(b, y, string, after), N, rank, lost \cup o..(y - 1), marks \cup {2 * y},
                 ToSet(b.text) \cup ToSet(string))
<1> DEFINE r == Mapped(b, o, after)
           l == Len(string)
           u == 2 * y
           v == 2 * o + 1
           a == IF after THEN v ELSE 2 * o
           lost2 == lost \cup o..(y - 1)
           marks2 == marks \cup {2 * y}
           text == b.text
           e == b.deltas
           t == Splice(text, r, string)
           d == [i \in 0..(2 * N + 1) |-> IF u < i THEN e[i] + l ELSE e[i]]
           c == InsertText(b, y, string, after)
<1> DEFINE D == [0..(2 * N + 1) -> Int]
<1>1. /\ text \in Seq(Character) /\ Sorted(text, rank) /\ Len(text) \in Nat
      /\ e \in [0..(2 * N + 1) -> Int] /\ l \in Nat
      /\ b \in Buffers(Seq(Character), D) /\ b.text = text /\ b.deltas = e /\ b.invalid = FALSE
  BY LenProperties DEF Maps, Buffers
<1>2. /\ u = 2 * y /\ v = 2 * o + 1 /\ u \in 0..(2 * N) /\ v \in Int /\ a \in Int
      /\ v - 1 <= a /\ a <= v /\ o \in Int /\ y \in Int /\ o <= y
  OBVIOUS
<1>3. \A x \in 0..N : /\ Mapped(b, x, FALSE) = x + e[2 * x]
                      /\ Mapped(b, x, TRUE) = x + e[2 * x + 1]
                      /\ Mapped(b, x, FALSE) \in Int /\ Mapped(b, x, TRUE) \in Int
  BY <1>1, MappedIs
<1>4. \A i \in 0..(2 * N) : i \notin marks => e[i] = e[i + 1]
  BY DEF Maps
<1>5. CutAt(text, rank, r, a)
  <2>1. CutAt(text, rank, Mapped(b, o, FALSE), 2 * o) /\ CutAt(text, rank, Mapped(b, o, TRUE), 2 * o + 1)
    BY DEF Maps
  <2>2. CASE after = TRUE
    BY <2>1, <2>2
  <2>3. CASE after = FALSE
    BY <2>1, <2>3
  <2> QED BY <2>2, <2>3
<1>6. \A x \in 0..N : x \notin lost => /\ CutAt(text, rank, x + e[2 * x], 2 * x)
                                       /\ CutAt(text, rank, x + e[2 * x + 1], 2 * x + 1)
  <2> SUFFICES ASSUME NEW x \in 0..N, x \notin lost
               PROVE  /\ CutAt(text, rank, x + e[2 * x], 2 * x)
                      /\ CutAt(text, rank, x + e[2 * x + 1], 2 * x + 1)
    OBVIOUS
  <2>1. /\ CutAt(text, rank, Mapped(b, x, FALSE), 2 * x)
        /\ CutAt(text, rank, Mapped(b, x, TRUE), 2 * x + 1)
    BY DEF Maps
  <2>2. Mapped(b, x, FALSE) = x + e[2 * x] /\ Mapped(b, x, TRUE) = x + e[2 * x + 1]
    BY <1>3
  <2> HIDE DEF text, e
  <2> QED BY <2>1, <2>2
<1>8. /\ c = InsertText(b, y, string, after) /\ DOMAIN e = 0..(2 * N + 1)
      /\ Mapped(b, y, after) = r /\ Ranked(string, rank, v) /\ NewTo(string, text)
  BY <1>1
<1> HIDE DEF r, u, v, a, text, e, c
<1>9. /\ r \in 0..Len(text) /\ t \in Seq(Character) /\ Sorted(t, rank)
      /\ ToSet(t) = ToSet(text) \cup ToSet(string)
      /\ \A m, x : CutAt(text, rank, m, x) /\ x \in Int /\ x < v => CutAt(t, rank, m, x)
      /\ \A m, x : CutAt(text, rank, m, x) /\ x \in Int /\ x >= v => CutAt(t, rank, m + l, x)
  <2>1. /\ text \in Seq(Character) /\ Sorted(text, rank) /\ v \in Int /\ a \in Int
        /\ v - 1 <= a /\ a <= v /\ Ranked(string, rank, v) /\ NewTo(string, text)
    BY <1>1, <1>2, <1>8
  <2> HIDE DEF t
  <2> QED BY <1>5, <2>1, SortedIn DEF t, l
<1> HIDE DEF l
<1>10. /\ d \in [0..(2 * N + 1) -> Int]
       /\ \A i \in 0..(2 * N + 1) : /\ i <= u => d[i] = e[i]
                                    /\ i > u => d[i] = e[i] + l
  <2>1. \A i \in 0..(2 * N + 1) : e[i] \in Int /\ e[i] + l \in Int
    BY <1>1
  <2>2. \A i \in 0..(2 * N + 1) : d[i] = IF u < i THEN e[i] + l ELSE e[i]
    OBVIOUS
  <2>3. d \in [0..(2 * N + 1) -> Int]
    BY <2>1
  <2> HIDE DEF d
  <2> QED BY <1>2, <2>2, <2>3
<1>11. c = AddDelta([b EXCEPT !.text = t], 2 * y, l)
  <2>1. b.text = text
    BY <1>1
  <2> QED BY <1>8, <1>9, <2>1 DEF InsertText, l
<1> HIDE DEF t
<1>12. /\ c.text = t /\ c.deltas = d /\ c.invalid = FALSE
       /\ c \in Buffers(Seq(Character), D)
  <2> DEFINE w == [b EXCEPT !.text = t]
  <2>1. w \in Buffers(Seq(Character), D) /\ w.text = t /\ w.deltas = e /\ w.invalid = FALSE
    <3>1. b \in Buffers(Seq(Character), D) /\ t \in Seq(Character)
      BY <1>1, <1>9
    <3> QED BY <1>1, <3>1, NewText
  <2>2. c = AddDelta(w, 2 * y, l)
    BY <1>11
  <2> HIDE DEF w
  <2>3. AddDelta(w, 2 * y, l)
          = [w EXCEPT !.deltas = [i \in DOMAIN @ |-> IF 2 * y < i THEN @[i] + l ELSE @[i]]]
    BY DEF AddDelta
  <2>4. [i \in DOMAIN w.deltas |-> IF 2 * y < i THEN w.deltas[i] + l ELSE w.deltas[i]] = d
    BY <1>2, <1>8, <2>1
  <2>5. d \in D
    BY <1>10
  <2> HIDE DEF d, D
  <2>6. c = [w EXCEPT !.deltas = d]
    BY <2>2, <2>3, <2>4
  <2> QED BY <2>1, <2>5, <2>6, NewDeltas
<1> HIDE DEF d
<1>13. ASSUME NEW i \in 0..(2 * N), i \notin marks2 PROVE d[i] = d[i + 1]
  <2>1. i \notin marks /\ i # u /\ i \in 0..(2 * N + 1) /\ i + 1 \in 0..(2 * N + 1)
    BY <1>2, <1>13
  <2>2. e[i] = e[i + 1]
    BY <1>4, <2>1
  <2>3. CASE i < u
    <3>1. i <= u /\ i + 1 <= u
      BY <1>2, <2>1, <2>3
    <3> QED BY <1>10, <2>1, <2>2, <3>1
  <2>4. CASE i > u
    <3>1. i > u /\ i + 1 > u
      BY <1>2, <2>1, <2>4
    <3> QED BY <1>10, <2>1, <2>2, <3>1
  <2>5. i < u \/ i > u
    BY <1>2, <2>1
  <2> QED BY <2>3, <2>4, <2>5
<1>14. ASSUME NEW x \in 0..N, x \notin lost2
       PROVE  /\ CutAt(t, rank, x + d[2 * x], 2 * x)
              /\ CutAt(t, rank, x + d[2 * x + 1], 2 * x + 1)
  <2>1. x \notin lost /\ (x < o \/ (x = o /\ y = o) \/ (x > y /\ x > o))
    BY <1>2, <1>14
  <2>2. /\ CutAt(text, rank, x + e[2 * x], 2 * x)
        /\ CutAt(text, rank, x + e[2 * x + 1], 2 * x + 1)
    BY <1>6, <2>1
  <2>3. 2 * x \in 0..(2 * N + 1) /\ 2 * x + 1 \in 0..(2 * N + 1)
    OBVIOUS
  <2>4. e[2 * x] \in Int /\ e[2 * x + 1] \in Int /\ x \in Int
    BY <1>1, <2>3
  <2>5. \A k, w \in Int : k + (w + l) = (k + w) + l
    BY <1>1 DEF l
  <2>6. /\ x + (e[2 * x] + l) = (x + e[2 * x]) + l
        /\ x + (e[2 * x + 1] + l) = (x + e[2 * x + 1]) + l
    BY <2>4, <2>5, Zenon
  <2>7. CASE x < o
    <3>1. 2 * x <= u /\ 2 * x + 1 <= u /\ 2 * x < v /\ 2 * x + 1 < v /\ 2 * x \in Int /\ 2 * x + 1 \in Int
      BY <1>2, <2>7
    <3>2. d[2 * x] = e[2 * x] /\ d[2 * x + 1] = e[2 * x + 1]
      BY <1>10, <2>3, <3>1
    <3> QED BY <1>9, <2>2, <3>1, <3>2
  <2>8. CASE x = o /\ y = o
    <3>1. 2 * x <= u /\ 2 * x + 1 > u /\ 2 * x < v /\ 2 * x + 1 >= v /\ 2 * x \in Int /\ 2 * x + 1 \in Int
      BY <1>2, <2>8
    <3>2. d[2 * x] = e[2 * x] /\ d[2 * x + 1] = e[2 * x + 1] + l
      BY <1>10, <2>3, <3>1
    <3> QED BY <1>9, <2>2, <2>6, <3>1, <3>2
  <2>9. CASE x > y /\ x > o
    <3>1. 2 * x > u /\ 2 * x + 1 > u /\ 2 * x >= v /\ 2 * x + 1 >= v /\ 2 * x \in Int /\ 2 * x + 1 \in Int
      BY <1>2, <2>9
    <3>2. d[2 * x] = e[2 * x] + l /\ d[2 * x + 1] = e[2 * x + 1] + l
      BY <1>10, <2>3, <3>1
    <3> QED BY <1>9, <2>2, <2>6, <3>1, <3>2
  <2> QED BY <2>1, <2>7, <2>8, <2>9
<1>15. \A x \in 0..N : /\ Mapped(c, x, FALSE) = x + d[2 * x]
                       /\ Mapped(c, x, TRUE) = x + d[2 * x + 1]
  <2>1. c.deltas \in [0..(2 * N + 1) -> Int]
    BY <1>10, <1>12
  <2>2. \A x \in 0..N : /\ Mapped(c, x, FALSE) = x + c.deltas[2 * x]
                        /\ Mapped(c, x, TRUE) = x + c.deltas[2 * x + 1]
    BY <2>1, MappedIs
  <2> QED BY <1>12, <2>2
<1>16. Maps(c, N, rank, lost2, marks2)
  <2> HIDE DEF lost2, marks2
  <2> QED BY <1>9, <1>12, <1>13, <1>14, <1>15 DEF Maps
<1> QED BY <1>9, <1>12, <1>16 DEF c, text, Becomes, lost2, marks2
-----------------------------------------------------------------------------
(* Where declarations and particles lie in the text.                       *)

(* What is not joined to the token before it has white space before it.    *)
LEMMA Gap ==
  ASSUME src \in Sources, NEW a \in 1..Len(src), NEW b \in 1..Eof, a < b,
         Kind(b) \notin {"semi", "comma", "glued"}
  PROVE  Offset[a] \in Nat /\ Offset[b] \in Nat /\ Offset[a] + Width(a) + 1 <= Offset[b]
<1>1. Len(src) \in Nat /\ Eof = Len(src) + 1
  BY SourceType DEF Eof
<1> DEFINE q == b - 1
<1>2. q \in 1..Len(src) /\ q + 1 = b /\ a <= q /\ q < b
  BY <1>1
<1> HIDE DEF q
<1>3. Offset[b] = Offset[q] + Width(q) + SpaceAfter(q)
  BY <1>2, OffsetGrows
<1>4. Offset[q] \in Nat /\ Offset[b] \in Nat /\ Width(q) \in Nat /\ Width(q) >= 1 /\ SpaceAfter(q) \in Nat
  BY <1>1, <1>2, TokensApart
<1>5. SpaceAfter(q) >= 1
  <2>1. Kind(q + 1) \notin {"semi", "comma", "glued"}
    BY <1>2
  <2> QED BY <2>1, ParserProxyAssumption DEF SpaceAfter
<1>8. Offset[q] + Width(q) + 1 <= Offset[b]
  BY <1>3, <1>4, <1>5
<1>6. CASE a = q
  BY <1>4, <1>6, <1>8
<1>7. CASE a < q
  <2>1. q \in 1..Eof
    BY <1>1, <1>2
  <2>2. Offset[a] + Width(a) + SpaceAfter(a) <= Offset[q] /\ Offset[a] \in Nat /\ Width(a) \in Nat /\ SpaceAfter(a) \in Nat
    BY <1>7, <2>1, TokensApart
  <2>3. Offset[a] + Width(a) <= Offset[q]
    BY <1>4, <2>2
  <2>4. Offset[q] + 1 <= Offset[b]
    BY <1>4, <1>8
  <2> QED BY <1>4, <2>2, <2>3, <2>4, SMTT(20)
<1> QED BY <1>1, <1>2, <1>6, <1>7

(* The rest of a token from an offset inside of it or behind it.           *)
LEMMA TokenAt ==
  ASSUME src \in Sources, NEW q \in 1..Len(src), NEW x \in Nat,
         Offset[q] <= x, x < Offset[q + 1]
  PROVE  TokenLength(x) = IF Offset[q] + Width(q) > x THEN Offset[q] + Width(q) - x ELSE 0
<1> DEFINE S == {p \in 1..Len(src) : Offset[p] <= x}
<1>1. Len(src) \in Nat /\ Eof = Len(src) + 1
  BY SourceType DEF Eof
<1>2. q \in S
  OBVIOUS
<1>3. ASSUME NEW p \in S PROVE p <= q
  <2> SUFFICES ASSUME q < p PROVE FALSE
    BY <1>1
  <2>1. q + 1 \in 0..Eof /\ p \in 0..Eof /\ q + 1 <= p
    BY <1>1
  <2>2. Offset[q + 1] \in Nat /\ Offset[p] \in Nat /\ Offset[q + 1] <= Offset[p]
    BY <2>1, OffsetsInOrder
  <2> QED BY <1>3, <2>2
<1>4. S \in SUBSET Nat
  BY <1>1
<1>5. TokenLength(x) = Max({0, Offset[Max(S)] + Width(Max(S)) - x})
  BY DEF TokenLength
<1> HIDE DEF S
<1>6. Max(S) = q
  <2>1. Max(S) \in S /\ \A p \in S : p <= Max(S)
    BY <1>2, <1>3, <1>4, Greatest
  <2>2. Max(S) \in Nat /\ Max(S) <= q /\ q <= Max(S)
    BY <1>2, <1>3, <1>4, <2>1
  <2> QED BY <2>2
<1> DEFINE z == Offset[q] + Width(q) - x
<1>7. z \in Int /\ (z > 0 <=> Offset[q] + Width(q) > x)
  <2>1. Offset[q] \in Nat
    BY <1>1, OffsetGrows
  <2>2. Width(q) \in Nat
    BY DEF Width
  <2> QED BY <2>1, <2>2
<1>8. TokenLength(x) = Max({0, z})
  BY <1>5, <1>6
<1> HIDE DEF z
<1>9. Max({0, z}) = IF z > 0 THEN z ELSE 0
  <2>1. Max({0, z}) \in {0, z} /\ \A y \in {0, z} : Max({0, z}) >= y
    <3>1. \E m \in {0, z} : \A y \in {0, z} : m >= y
      BY <1>7
    <3> QED BY <3>1 DEF Max
  <2> QED BY <1>7, <2>1
<1> QED BY <1>7, <1>8, <1>9 DEF z

(* The `;' of a declaration.                                               *)
SemiOf(d) == Least({s \in d.begin..Len(src) : Kind(s) = "semi"}, Eof)

(* The kinds of what a declaration does not contain and what is not joined *)
(* to the token before it.                                                 *)
Borders == {"shared", "fn", "lb", "rb", "pragma", "eof"}

LEMMA Declared ==
  ASSUME src \in Sources, Plain, NEW d \in Declarations
  PROVE  /\ d.begin \in 1..Len(src) /\ d.end \in 1..Len(src) /\ SemiOf(d) \in 1..Len(src)
         /\ d = [begin |-> d.begin, end |-> d.end]
         /\ d.begin <= d.end /\ d.end < SemiOf(d)
         /\ Kind(d.begin) = "shared" /\ Kind(SemiOf(d)) = "semi"
         /\ \A q \in d.begin..(SemiOf(d) - 1) : Kind(q) # "semi"
         /\ \A q \in (d.begin + 1)..SemiOf(d) : Kind(q) \notin Borders \cup {"sync", "define"}
         /\ Kind(d.end + 1) \in {"comma", "semi"}
         /\ Kind(d.end + 2) \notin {"comma", "semi", "glued"}
         /\ [begin |-> d.begin, end |-> SemiOf(d) - 1] \in Declarations
         /\ Kind(SemiOf(d) - 1) # "wide"
<1>1. Len(src) \in Nat /\ Eof = Len(src) + 1
  BY SourceType DEF Eof
<1>2. PICK q \in 1..Len(src) : Kind(q) = "shared" /\ d \in DeclaredAt(q)
  BY DEF Declarations
<1> DEFINE S == {s \in q..Len(src) : Kind(s) = "semi"}
           semi == Least(S, Eof)
<1>3. d.begin = q /\ d.end \in q..(semi - 1) /\ Kind(d.end + 1) \in {"comma", "semi"}
      /\ d = [begin |-> d.begin, end |-> d.end]
  BY <1>2, SMTT(20) DEF DeclaredAt
<1>4. /\ \A r \in (d.begin + 1)..d.end :
            Kind(r) \notin {"shared", "fn", "lb", "rb", "sync", "pragma", "define"}
      /\ \E r \in (d.end + 1)..Len(src) : Kind(r) = "semi"
      /\ Kind(d.end + 2) \notin {"semi", "comma", "glued"}
      /\ Kind(d.end + 1) = "semi" => Kind(d.end) # "wide"
  BY DEF Plain
<1>5. SemiOf(d) = semi
  BY <1>3 DEF SemiOf
<1>6. semi \in S /\ \A s \in S : semi <= s
  <2>1. S \in SUBSET Nat
    BY <1>1
  <2>2. S # {}
    <3>1. PICK r \in (d.end + 1)..Len(src) : Kind(r) = "semi"
      BY <1>4
    <3> HIDE DEF S
    <3>2. semi \in Int
      <4>1. CASE S = {}
        BY <1>1, <4>1 DEF Least
      <4>2. CASE S # {}
        <5>1. PICK n \in S : \A m \in S : n <= m
          BY <2>1, <4>2, LeastNumber
        <5>2. semi = n
          BY <2>1, <5>1, LeastIs
        <5> QED BY <2>1, <5>2
      <4> QED BY <4>1, <4>2
    <3> USE DEF S
    <3>3. d.end \in Int /\ q <= d.end
      BY <1>1, <1>3, <3>2
    <3>4. r \in S
      BY <1>1, <3>1, <3>3
    <3> QED BY <3>4
  <2> HIDE DEF S
  <2>3. PICK n \in S : \A m \in S : n <= m
    BY <2>1, <2>2, LeastNumber
  <2>4. semi = n
    BY <2>1, <2>3, LeastIs
  <2> QED BY <2>3, <2>4
<1> HIDE DEF semi
<1>7. semi \in 1..Len(src) /\ Kind(semi) = "semi" /\ q < semi
  <2>1. semi \in q..Len(src) /\ Kind(semi) = "semi"
    BY <1>6
  <2>2. semi # q
    BY <1>2, <2>1
  <2> QED BY <1>1, <1>2, <2>1, <2>2
<1>8. \A r \in q..(semi - 1) : Kind(r) # "semi"
  BY <1>1, <1>2, <1>6, <1>7
<1> DEFINE e == [begin |-> q, end |-> semi - 1]
<1>9. e \in Declarations
  <2>1. semi - 1 \in q..(semi - 1) /\ (semi - 1) + 1 = semi
    BY <1>1, <1>2, <1>7
  <2>2. e \in DeclaredAt(q)
    BY <1>7, <2>1 DEF DeclaredAt, semi
  <2> QED BY <1>2, <2>2 DEF Declarations
<1>10. /\ \A r \in (q + 1)..(semi - 1) :
            Kind(r) \notin {"shared", "fn", "lb", "rb", "sync", "pragma", "define"}
       /\ Kind(semi - 1) # "wide"
  <2>1. e.begin = q /\ e.end = semi - 1 /\ e.end + 1 = semi
    BY <1>7
  <2> HIDE DEF e
  <2> QED BY <1>7, <1>9, <2>1 DEF Plain
<1>11. \A r \in (q + 1)..semi : Kind(r) \notin Borders \cup {"sync", "define"}
  <2> SUFFICES ASSUME NEW r \in (q + 1)..semi PROVE Kind(r) \notin Borders \cup {"sync", "define"}
    OBVIOUS
  <2>1. Kind(r) # "eof"
    <3>1. r \in 1..Len(src)
      BY <1>1, <1>2, <1>7
    <3> QED BY <1>1, <3>1, EofKind DEF Eof, Positions
  <2>2. r = semi \/ r \in (q + 1)..(semi - 1)
    BY <1>1, <1>7
  <2> QED BY <1>7, <1>10, <2>1, <2>2 DEF Borders
<1> QED BY <1>1, <1>2, <1>3, <1>4, <1>5, <1>7, <1>8, <1>9, <1>10, <1>11

(* The range of the text that is removed with a variable: up to and with   *)
(* the `;' or `,' after it, or up to it after a long token.                *)
Lo(d) == Offset[d.begin]
Hi(d) == Offset[d.end] + (IF Kind(d.end) = "wide" THEN 5 ELSE 2)

LEMMA HiIs ==
  ASSUME src \in Sources, Plain, NEW d \in Declarations
  PROVE  /\ Lo(d) \in Nat /\ Hi(d) \in Nat /\ EndOf(d) \in Nat /\ Lo(d) < EndOf(d)
         /\ TokenLength(EndOf(d)) \in {0, 3} /\ Hi(d) = EndOf(d) + TokenLength(EndOf(d))
         /\ Offset[SemiOf(d)] \in Nat /\ Hi(d) <= Offset[SemiOf(d)] + 1
         /\ d.end + 2 \in 1..Eof /\ Offset[d.end + 2] \in Nat /\ Hi(d) < Offset[d.end + 2]
         /\ d.end = SemiOf(d) - 1 => Hi(d) = EndOf(d) /\ Hi(d) = Offset[SemiOf(d)] + 1
<1> DEFINE e == d.end
           s == SemiOf(d)
<1>1. /\ Len(src) \in Nat /\ Eof = Len(src) + 1
      /\ d.begin \in 1..Len(src) /\ e \in 1..Len(src) /\ s \in 1..Len(src)
      /\ d.begin <= e /\ e < s
  BY SourceType, Declared DEF Eof
<1>2. /\ e + 1 \in 1..Len(src) /\ e + 2 \in 1..Eof /\ e + 1 <= s
      /\ e \in 0..Eof /\ e + 1 \in 0..Eof /\ s \in 0..Eof /\ d.begin \in 0..Eof
      /\ e + 2 = (e + 1) + 1
  BY <1>1
<1>3. Kind(e) \notin {"sync", "pragma", "define"}
  <2>1. CASE e = d.begin
    BY <2>1, Declared
  <2>2. CASE e # d.begin
    <3>1. e \in (d.begin + 1)..s
      BY <1>1, <2>2
    <3> QED BY <3>1, Declared DEF Borders
  <2> QED BY <2>1, <2>2
<1>4. Kind(e + 1) \in {"comma", "semi"} /\ Kind(e + 2) \notin {"semi", "comma", "glued"}
  BY Declared
<1> HIDE DEF e, s
<1>5. Width(e) = IF Kind(e) = "wide" THEN 5 ELSE 1
  BY <1>3 DEF Width
<1>6. Width(e + 1) = 1
  BY <1>4 DEF Width
<1>7. SpaceAfter(e) = 0
  BY <1>3, <1>4 DEF SpaceAfter
<1>8. Offset[e + 1] = Offset[e] + Width(e)
  <2>1. Offset[e + 1] = Offset[e] + Width(e) + SpaceAfter(e) /\ Offset[e] \in Nat /\ Width(e) \in Nat
    BY <1>1, <1>2, OffsetGrows, TokensApart
  <2> QED BY <1>7, <2>1
<1>9. /\ Offset[d.begin] \in Nat /\ Offset[e] \in Nat /\ Offset[e + 1] \in Nat /\ Offset[s] \in Nat
      /\ Offset[d.begin] <= Offset[e] /\ Offset[e + 1] <= Offset[s]
  BY <1>1, <1>2, OffsetsInOrder
<1>10. Offset[e + 2] \in Nat /\ Offset[e + 1] + 1 + 1 <= Offset[e + 2]
  <2>1. e + 1 < e + 2
    BY <1>1
  <2> QED BY <1>2, <1>4, <1>6, <2>1, Gap
<1>11. EndOf(d) = Offset[e] + 2 /\ EndOf(d) \in Nat
  BY <1>9 DEF EndOf, e
<1>12. Hi(d) = Offset[e] + (IF Kind(e) = "wide" THEN 5 ELSE 2)
  BY DEF Hi, e
<1> DEFINE x == EndOf(d)
<1> HIDE DEF x
<1>16. x = Offset[e] + 2 /\ x \in Nat
  BY <1>11 DEF x
<1>13. CASE Kind(e) = "wide"
  <2>1. Offset[e] <= x /\ x < Offset[e + 1] /\ Offset[e] + Width(e) > x /\ Offset[e] + Width(e) - x = 3
    BY <1>5, <1>8, <1>9, <1>13, <1>16
  <2>2. TokenLength(x) = 3
    BY <1>1, <1>16, <2>1, TokenAt
  <2>3. Hi(d) = x + 3 /\ Hi(d) = Offset[e + 1]
    BY <1>5, <1>8, <1>9, <1>12, <1>13, <1>16
  <2>4. e # s - 1
    BY <1>13, Declared DEF e, s
  <2>5. Offset[d.begin] < x /\ Hi(d) \in Nat /\ Hi(d) <= Offset[s] + 1 /\ Hi(d) < Offset[e + 2]
    BY <1>9, <1>10, <1>16, <2>3
  <2> QED BY <1>2, <1>9, <1>10, <1>16, <2>2, <2>3, <2>4, <2>5 DEF Lo, e, s, x
<1>14. CASE Kind(e) # "wide"
  <2>1. /\ Offset[e + 1] <= x /\ x < Offset[e + 2] /\ ~(Offset[e + 1] + Width(e + 1) > x)
        /\ x = Offset[e + 1] + 1
    BY <1>5, <1>6, <1>8, <1>9, <1>10, <1>14, <1>16
  <2>2. TokenLength(x) = 0
    BY <1>2, <1>16, <2>1, TokenAt
  <2>3. Hi(d) = x
    BY <1>9, <1>12, <1>14, <1>16
  <2>4. e = s - 1 => Offset[e + 1] = Offset[s]
    <3>1. e = s - 1 => e + 1 = s
      BY <1>1
    <3> QED BY <3>1
  <2>5. /\ Offset[d.begin] < x /\ Hi(d) \in Nat /\ Hi(d) <= Offset[s] + 1 /\ Hi(d) < Offset[e + 2]
        /\ e = s - 1 => Hi(d) = Offset[s] + 1
        /\ Hi(d) = x + 0
    BY <1>9, <1>10, <1>16, <2>1, <2>3, <2>4
  <2> QED BY <1>2, <1>9, <1>10, <1>16, <2>2, <2>3, <2>5 DEF Lo, e, s, x
<1> QED BY <1>13, <1>14

(* Two variables of the same declaration.                                  *)
LEMMA HiGrows ==
  ASSUME src \in Sources, Plain, NEW d \in Declarations, NEW e \in Declarations,
         d.begin = e.begin, d.end < e.end
  PROVE  Hi(d) < Hi(e)
<1> DEFINE s == SemiOf(d)
<1>1. /\ d.begin \in 1..Len(src) /\ d.end \in 1..Len(src) /\ e.end \in 1..Len(src) /\ Len(src) \in Nat
      /\ s \in 1..Len(src) /\ Eof = Len(src) + 1
      /\ d.begin <= d.end /\ e.end < s
  <2>1. SemiOf(e) = s
    BY DEF SemiOf
  <2> QED BY <2>1, SourceType, Declared DEF Eof
<1>2. d.end + 1 # e.end
  <2> SUFFICES ASSUME d.end + 1 = e.end PROVE FALSE
    OBVIOUS
  <2>1. e.end + 1 = d.end + 2
    BY <1>1
  <2>2. Kind(e.end + 1) \in {"comma", "semi"} /\ Kind(d.end + 2) \notin {"comma", "semi", "glued"}
    BY Declared
  <2> QED BY <2>1, <2>2
<1>3. d.end + 2 \in 0..Eof /\ e.end \in 0..Eof /\ d.end + 2 <= e.end
  BY <1>1, <1>2
<1>4. Offset[d.end + 2] <= Offset[e.end] /\ Offset[e.end] \in Nat
  BY <1>3, OffsetsInOrder
<1>5. Hi(d) \in Nat /\ Offset[d.end + 2] \in Nat /\ Hi(d) < Offset[d.end + 2]
  BY HiIs
<1>6. Hi(e) \in Nat /\ Hi(e) >= Offset[e.end]
  BY <1>4, HiIs DEF Hi
<1> QED BY <1>4, <1>5, <1>6

(* A token that declarations do not contain lies before or behind one.     *)
LEMMA OutsideDeclaration ==
  ASSUME src \in Sources, Plain, NEW d \in Declarations,
         NEW t \in 1..Eof, Kind(t) \in Borders, t # d.begin
  PROVE  /\ Offset[t] \in Nat
         /\ \/ t < d.begin /\ Offset[t] + 1 < Lo(d)
            \/ SemiOf(d) < t /\ Hi(d) < Offset[t]
<1> DEFINE s == SemiOf(d)
<1>1. /\ Len(src) \in Nat /\ Eof = Len(src) + 1
      /\ d.begin \in 1..Len(src) /\ d.begin \in 1..Eof /\ s \in 1..Len(src) /\ d.begin < s
      /\ Kind(d.begin) = "shared"
  <2>1. /\ Len(src) \in Nat /\ Eof = Len(src) + 1
        /\ d.begin \in 1..Len(src) /\ d.end \in 1..Len(src) /\ s \in 1..Len(src)
        /\ d.begin <= d.end /\ d.end < s /\ Kind(d.begin) = "shared"
    BY SourceType, Declared DEF Eof
  <2> HIDE DEF s
  <2> QED BY <2>1
<1>2. t < d.begin \/ s < t
  <2>1. t \notin (d.begin + 1)..s
    BY Declared
  <2> QED BY <1>1, <2>1
<1>3. Lo(d) \in Nat /\ Hi(d) \in Nat /\ Hi(d) <= Offset[s] + 1 /\ Offset[s] \in Nat
  BY HiIs
<1> HIDE DEF s
<1>4. CASE t < d.begin
  <2>1. t \in 1..Len(src)
    BY <1>1, <1>4
  <2>2. Offset[t] \in Nat /\ Offset[t] + Width(t) + 1 <= Lo(d)
    BY <1>1, <1>4, <2>1, Gap DEF Lo
  <2>3. Width(t) \in Nat /\ Width(t) >= 1
    BY <1>1, <1>4, <2>1, TokensApart
  <2>4. Offset[t] + 1 < Lo(d)
    BY <1>3, <2>2, <2>3
  <2> QED BY <1>4, <2>2, <2>4
<1>5. CASE s < t
  <2>1. Kind(t) \notin {"semi", "comma", "glued"}
    BY DEF Borders
  <2>2. Offset[t] \in Nat /\ Offset[s] + Width(s) + 1 <= Offset[t]
    BY <1>1, <1>5, <2>1, Gap
  <2>3. Width(s) \in Nat /\ Width(s) >= 1
    BY <1>1, <1>5, TokensApart
  <2>4. Hi(d) < Offset[t]
    BY <1>3, <2>2, <2>3
  <2> QED BY <1>5, <2>2, <2>4 DEF s
<1> QED BY <1>2, <1>4, <1>5
-----------------------------------------------------------------------------
(* The range of the text that is removed with a particle.                  *)
Left(p)  == Offset[p.begin]
Right(p) == Offset[p.end] + 1

(* The declarations, particles and functions that are rewritten.           *)
Vars   == {d \in Declarations : Container(d.begin) # 0}
Parts  == {p \in AllParticles : Owners(p) # {}}
Scopes == {f \in Functions : VariablesOf(f) # {}}

(* A particle around which there is a scope.                               *)
LEMMA ParticleIs ==
  ASSUME TypeInv, SpansInOrder, Registered, NEW p \in Parts
  PROVE  /\ src \in Sources
         /\ p.line \in 1..Len(src) /\ p.begin \in 1..Len(src) /\ p.end \in 1..Len(src)
         /\ p.line < p.begin /\ p.begin < p.end
         /\ Kind(p.line) = "pragma" /\ Kind(p.begin) = "lb" /\ Kind(p.end) = "rb"
         /\ Leads(p.line, p.begin) /\ p.id \in Nat
<1>1. src \in Sources /\ particles \in Seq(ParticleSet) /\ DOMAIN particles = 1..Len(particles)
  BY DEF TypeInv, IsTyped
<1>2. PICK n \in 1..Len(particles) : p = particles[n]
  BY DEF Parts, AllParticles, ToSet
<1>3. PICK f \in Functions : InScope(f, p)
  BY DEF Parts, Owners, InScope
<1>4. Closed(p)
  <2>1. n \in Own(f)
    BY <1>1, <1>2, <1>3 DEF Own
  <2> QED BY <1>2, <2>1, OwnIsClosed
<1>5. p \in ParticleSet /\ p.line \in Nat /\ p.id \in Nat
  <2>1. p \in ParticleSet
    BY <1>4 DEF Closed
  <2> QED BY <2>1 DEF ParticleSet
<1>6. PICK r : Spans(p, r)
  BY <1>2 DEF SpansInOrder
<1>7. Len(src) \in Nat
  BY <1>1, SourceType
<1>8. /\ p.begin \in 1..Len(src) /\ p.end \in 1..Len(src) /\ p.begin < p.end
      /\ Kind(p.begin) = "lb" /\ Kind(p.end) = "rb"
  BY <1>4 DEF Closed
<1>9. 0 < p.line /\ p.line < p.begin /\ Leads(p.line, p.begin)
  BY <1>6, <1>8 DEF Spans
<1>10. Kind(p.line) = "pragma"
  BY <1>2 DEF Registered, IsRegistered
<1>11. p.line \in 1..Len(src)
  BY <1>5, <1>7, <1>8, <1>9
<1> QED BY <1>1, <1>2, <1>5, <1>8, <1>9, <1>10, <1>11

(* The numbers of a particle.                                              *)
LEMMA RightIs ==
  ASSUME TypeInv, SpansInOrder, Registered, NEW p \in Parts
  PROVE  /\ Left(p) \in Nat /\ Right(p) \in Nat
         /\ Left(p) >= 1 /\ Left(p) + 1 < Right(p) - 1 /\ Right(p) < Offset[Eof]
         /\ Offset[p.end] = Right(p) - 1 /\ TokenLength(Offset[p.end]) = 1
<1>1. /\ src \in Sources
      /\ p.line \in 1..Len(src) /\ p.begin \in 1..Len(src) /\ p.end \in 1..Len(src)
      /\ p.line < p.begin /\ p.begin < p.end
      /\ Kind(p.begin) = "lb" /\ Kind(p.end) = "rb"
  BY ParticleIs
<1>2. /\ Len(src) \in Nat /\ Eof = Len(src) + 1 /\ Kind(Eof) = "eof"
      /\ p.begin \in 1..Eof /\ p.end \in 1..Eof /\ Eof \in 1..Eof /\ p.end < Eof
  BY <1>1, SourceType, EofKind DEF Eof
<1>3. /\ Offset[p.line] \in Nat /\ Offset[p.begin] \in Nat
      /\ Offset[p.line] + Width(p.line) + 1 <= Offset[p.begin]
      /\ Width(p.line) \in Nat /\ Width(p.line) >= 1
  BY <1>1, <1>2, Gap, TokensApart
<1>4. /\ Offset[p.end] \in Nat /\ Offset[p.begin] + Width(p.begin) + 1 <= Offset[p.end]
      /\ Width(p.begin) = 1
  BY <1>1, <1>2, Gap DEF Width
<1>5. /\ Offset[Eof] \in Nat /\ Offset[p.end] + Width(p.end) + 1 <= Offset[Eof]
      /\ Width(p.end) = 1
  BY <1>1, <1>2, Gap DEF Width
<1> DEFINE x == Offset[p.end]
<1>6. TokenLength(x) = 1
  <2>1. Offset[p.end] + Width(p.end) + SpaceAfter(p.end) = Offset[p.end + 1] /\ SpaceAfter(p.end) \in Nat
    BY <1>1, <1>2, OffsetGrows, TokensApart
  <2>2. x \in Nat /\ x <= x /\ x < Offset[p.end + 1]
    BY <1>4, <1>5, <2>1
  <2>3. Offset[p.end] + Width(p.end) > x /\ Offset[p.end] + Width(p.end) - x = 1
    BY <1>4, <1>5
  <2> HIDE DEF x
  <2>4. Offset[p.end] <= x
    BY <2>2 DEF x
  <2> QED BY <1>1, <2>2, <2>3, <2>4, TokenAt
<1>7. /\ Offset[p.begin] >= 1 /\ Offset[p.begin] + 1 < Offset[p.end]
      /\ Offset[p.end] + 1 < Offset[Eof]
  BY <1>3, <1>4, <1>5
<1> QED BY <1>3, <1>4, <1>6, <1>7 DEF Left, Right, x

(* A token outside of a particle and of its pragma.                        *)
LEMMA OutsideParticle ==
  ASSUME TypeInv, SpansInOrder, Registered, NEW p \in Parts,
         NEW t \in 1..Eof, Kind(t) \in Borders, t \notin p.line..p.end
  PROVE  /\ Offset[t] \in Nat
         /\ \/ t < p.line /\ Offset[t] + 1 < Left(p) - 1
            \/ p.end < t /\ Right(p) < Offset[t]
<1>1. /\ src \in Sources
      /\ p.line \in 1..Len(src) /\ p.begin \in 1..Len(src) /\ p.end \in 1..Len(src)
      /\ p.line < p.begin /\ p.begin < p.end
      /\ Kind(p.line) = "pragma" /\ Kind(p.begin) = "lb" /\ Kind(p.end) = "rb"
  BY ParticleIs
<1>2. /\ Len(src) \in Nat /\ Eof = Len(src) + 1 /\ p.line \in 1..Eof /\ p.begin \in 1..Eof
  BY <1>1, SourceType DEF Eof
<1>3. t < p.line \/ p.end < t
  BY <1>1, <1>2
<1>4. CASE t < p.line
  <2>1. t \in 1..Len(src)
    BY <1>1, <1>2, <1>4
  <2>2. /\ Offset[t] \in Nat /\ Offset[p.line] \in Nat /\ Offset[t] + Width(t) + 1 <= Offset[p.line]
        /\ Width(t) \in Nat /\ Width(t) >= 1
    BY <1>1, <1>2, <1>4, <2>1, Gap, TokensApart
  <2>3. /\ Offset[p.begin] \in Nat /\ Offset[p.line] + Width(p.line) + 1 <= Offset[p.begin]
        /\ Width(p.line) \in Nat /\ Width(p.line) >= 1
    BY <1>1, <1>2, Gap, TokensApart
  <2>4. Offset[t] + 1 < Offset[p.begin] - 1
    BY <2>2, <2>3
  <2> QED BY <1>4, <2>2, <2>4 DEF Left
<1>5. CASE p.end < t
  <2>1. Kind(t) \notin {"semi", "comma", "glued"}
    BY DEF Borders
  <2>2. /\ Offset[p.end] \in Nat /\ Offset[t] \in Nat /\ Offset[p.end] + Width(p.end) + 1 <= Offset[t]
    BY <1>1, <1>5, <2>1, Gap
  <2>3. Width(p.end) = 1
    BY <1>1 DEF Width
  <2>4. Offset[p.end] + 1 < Offset[t]
    BY <2>2, <2>3
  <2> QED BY <1>5, <2>2, <2>4 DEF Right
<1> QED BY <1>3, <1>4, <1>5

(* Before the brace of a particle comes its pragma, so a token of the      *)
(* program outside of its braces is also outside of these.                 *)
LEMMA OutsideBraces ==
  ASSUME TypeInv, SpansInOrder, Registered, NEW p \in Parts,
         NEW t \in 1..Eof, Kind(t) \in Borders \ {"pragma"}, t \notin p.begin..p.end
  PROVE  t \notin p.line..p.end
<1>1. /\ src \in Sources
      /\ p.line \in 1..Len(src) /\ p.begin \in 1..Len(src) /\ p.end \in 1..Len(src)
      /\ p.line < p.begin /\ p.begin < p.end
      /\ Kind(p.line) = "pragma" /\ Leads(p.line, p.begin)
  BY ParticleIs
<1>2. Len(src) \in Nat /\ Eof = Len(src) + 1
  BY <1>1, SourceType DEF Eof
<1>3. IsToken(t)
  BY DEF Borders, IsToken, IsUse
<1>4. t \notin (p.line + 1)..(p.begin - 1)
  BY <1>1, <1>3 DEF Leads
<1>5. t # p.line
  BY <1>1
<1> QED BY <1>1, <1>2, <1>4, <1>5

(* Where the body of a function ends.                                      *)
LEMMA FunctionEndIs ==
  ASSUME src \in Sources, NEW f \in Functions
  PROVE  /\ FunctionEnd(f) \in 0..Len(src)
         /\ FunctionEnd(f) # 0 => FunctionEnd(f) > f /\ Kind(FunctionEnd(f)) = "rb"
<1> DEFINE S == {e \in (f + 1)..Len(src) : /\ Kind(e) = "rb"
                             /\ Braces("lb", f + 1, e) = Braces("rb", f + 1, e)}
<1>1. Len(src) \in Nat /\ f \in Nat
  BY SourceType DEF Functions
<1>2. FunctionEnd(f) = Least(S, 0)
  BY Zenon DEF FunctionEnd, Matching
<1>3. Least(S, 0) \in S \cup {0}
  <2>1. S \in SUBSET Nat
    BY <1>1
  <2> HIDE DEF S
  <2>3. CASE S = {}
    BY <2>3 DEF Least
  <2>4. CASE S # {}
    <3>1. PICK n \in S : \A m \in S : n <= m
      BY <2>1, <2>4, LeastNumber
    <3>2. Least(S, 0) = n
      BY <2>1, <3>1, LeastIs
    <3> QED BY <3>2
  <2> QED BY <2>3, <2>4
<1> QED BY <1>1, <1>2, <1>3
-----------------------------------------------------------------------------
(* What is removed for one declaration or particle lies apart from what is *)
(* removed for another and from the ends of the functions with a scope,    *)
(* except that a particle may contain declarations of its function.        *)
Ready == TypeInv /\ SpansInOrder /\ Registered /\ Plain

LEMMA VarIs ==
  ASSUME Ready, NEW d \in Vars
  PROVE  /\ d \in Declarations /\ src \in Sources
         /\ Lo(d) \in Nat /\ Hi(d) \in Nat /\ Lo(d) < Hi(d) /\ Hi(d) < Offset[Eof] /\ Offset[Eof] \in Nat
         /\ Container(d.begin) \in Scopes /\ Within(Container(d.begin), d.begin)
<1>1. d \in Declarations /\ src \in Sources /\ Container(d.begin) # 0
  BY DEF Ready, TypeInv, IsTyped, Vars
<1>2. Kind(Eof) = "eof" /\ Eof \in 1..Eof /\ Eof \in Nat /\ Eof = Len(src) + 1 /\ Len(src) \in Nat
  BY <1>1, EofKind, SourceType DEF Eof
<1>3. d.begin \in 1..Len(src)
  BY <1>1, Declared DEF Ready
<1>4. Lo(d) \in Nat /\ Hi(d) \in Nat /\ EndOf(d) \in Nat /\ Lo(d) < EndOf(d) /\ EndOf(d) <= Hi(d)
  <2>1. /\ Lo(d) \in Nat /\ Hi(d) \in Nat /\ EndOf(d) \in Nat /\ Lo(d) < EndOf(d)
        /\ TokenLength(EndOf(d)) \in {0, 3} /\ Hi(d) = EndOf(d) + TokenLength(EndOf(d))
    BY <1>1, HiIs DEF Ready
  <2> QED BY <2>1
<1>5. Hi(d) < Offset[Eof] /\ Offset[Eof] \in Nat
  <2>1. Eof # d.begin /\ ~(Eof < d.begin)
    BY <1>2, <1>3
  <2> QED BY <1>1, <1>2, <2>1, OutsideDeclaration DEF Ready, Borders
<1>6. Container(d.begin) \in Functions /\ Within(Container(d.begin), d.begin)
  <2> DEFINE S == {f \in Functions : Within(f, d.begin)} \cup {0}
  <2>1. S \in SUBSET Nat /\ S # {} /\ \A m \in S : m <= Len(src)
    BY <1>2 DEF Functions
  <2>2. Container(d.begin) = Max(S)
    BY DEF Container
  <2>3. Max(S) \in S
    <3> HIDE DEF S
    <3> QED BY <1>2, <2>1, Greatest
  <2> QED BY <1>1, <2>2, <2>3
<1>7. Container(d.begin) \in Scopes
  BY <1>1, <1>6 DEF Scopes, VariablesOf
<1> QED BY <1>1, <1>4, <1>5, <1>6, <1>7

LEMMA VarsApart ==
  ASSUME Ready, NEW d \in Vars, NEW e \in Vars, d.begin # e.begin
  PROVE  Hi(d) < Lo(e) \/ Hi(e) < Lo(d)
<1>1. d \in Declarations /\ e \in Declarations /\ src \in Sources /\ Eof = Len(src) + 1 /\ Len(src) \in Nat
      /\ Plain
  BY SourceType DEF Ready, TypeInv, IsTyped, Vars, Eof
<1>2. e.begin \in 1..Eof /\ d.begin \in 1..Eof /\ Kind(e.begin) = "shared" /\ Kind(d.begin) = "shared"
  <2>1. /\ e.begin \in 1..Len(src) /\ d.begin \in 1..Len(src)
        /\ Kind(e.begin) = "shared" /\ Kind(d.begin) = "shared"
    BY <1>1, Declared
  <2> QED BY <1>1, <2>1
<1>3. \/ Offset[e.begin] + 1 < Lo(d) /\ e.begin < d.begin
      \/ Hi(d) < Offset[e.begin]
  BY <1>1, <1>2, OutsideDeclaration DEF Borders
<1>4. Hi(d) < Offset[e.begin] => Hi(d) < Lo(e)
  BY DEF Lo
<1>5. ASSUME e.begin < d.begin PROVE Hi(e) < Lo(d)
  <2>2. \/ d.begin < e.begin
        \/ Hi(e) < Offset[d.begin]
    BY <1>1, <1>2, OutsideDeclaration DEF Borders
  <2>3. ~(d.begin < e.begin)
    BY <1>2, <1>5
  <2> QED BY <2>2, <2>3 DEF Lo
<1> QED BY <1>3, <1>4, <1>5

LEMMA VarPart ==
  ASSUME Ready, NEW d \in Vars, NEW p \in Parts
  PROVE  \/ Hi(d) < Left(p) - 1
         \/ Right(p) < Lo(d)
         \/ Left(p) < Lo(d) /\ Hi(d) < Right(p) - 1 /\ Container(d.begin) \in Owners(p)
<1>1. d \in Declarations /\ src \in Sources /\ Eof = Len(src) + 1 /\ Len(src) \in Nat /\ Plain
      /\ TypeInv /\ SpansInOrder /\ Registered
  BY SourceType DEF Ready, TypeInv, IsTyped, Vars, Eof
<1>2. /\ p.line \in 1..Len(src) /\ p.begin \in 1..Len(src) /\ p.end \in 1..Len(src)
      /\ p.line < p.begin /\ p.begin < p.end
      /\ Kind(p.line) = "pragma" /\ Kind(p.begin) = "lb" /\ Kind(p.end) = "rb"
      /\ Leads(p.line, p.begin)
  BY <1>1, ParticleIs
<1>3. /\ Left(p) \in Nat /\ Right(p) \in Nat /\ Offset[p.end] = Right(p) - 1
      /\ Offset[p.begin] = Left(p)
  BY <1>1, RightIs DEF Left
<1>4. /\ d.begin \in 1..Len(src) /\ Kind(d.begin) = "shared"
      /\ SemiOf(d) \in 1..Len(src)
  BY <1>1, Declared
<1>5. Lo(d) \in Nat /\ Hi(d) \in Nat
  BY VarIs
<1>6. /\ \/ p.begin < d.begin /\ Left(p) + 1 < Lo(d)
         \/ SemiOf(d) < p.begin /\ d.begin < p.begin
      /\ \/ p.end < d.begin /\ (Right(p) - 1) + 1 < Lo(d)
         \/ d.begin < p.end /\ Hi(d) < Right(p) - 1
      /\ \/ p.line < d.begin
         \/ Hi(d) < Offset[p.line]
  <2>1. p.begin \in 1..Eof /\ p.end \in 1..Eof /\ p.line \in 1..Eof
    BY <1>1, <1>2
  <2>2. SemiOf(d) > d.begin
    <3>1. d.begin <= d.end /\ d.end < SemiOf(d) /\ d.end \in 1..Len(src)
      BY <1>1, Declared
    <3> QED BY <1>4, <3>1
  <2>3. /\ \/ p.begin < d.begin /\ Offset[p.begin] + 1 < Lo(d)
           \/ SemiOf(d) < p.begin /\ Hi(d) < Offset[p.begin]
        /\ \/ p.end < d.begin /\ Offset[p.end] + 1 < Lo(d)
           \/ SemiOf(d) < p.end /\ Hi(d) < Offset[p.end]
        /\ \/ p.line < d.begin /\ Offset[p.line] + 1 < Lo(d)
           \/ SemiOf(d) < p.line /\ Hi(d) < Offset[p.line]
    <3>1. p.begin # d.begin /\ p.end # d.begin /\ p.line # d.begin
      BY <1>2, <1>4
    <3> QED BY <1>1, <1>2, <2>1, <3>1, OutsideDeclaration DEF Borders
  <2>4. SemiOf(d) < p.begin => d.begin < p.begin
    BY <1>2, <1>4, <2>2
  <2>5. SemiOf(d) < p.end => d.begin < p.end
    BY <1>2, <1>4, <2>2
  <2> QED BY <1>3, <2>3, <2>4, <2>5
<1>7. CASE d.begin < p.begin
  <2>1. ~(p.line < d.begin)
    <3>1. IsToken(d.begin)
      BY <1>4 DEF IsToken, IsUse
    <3>2. d.begin \notin (p.line + 1)..(p.begin - 1)
      BY <1>2, <3>1 DEF Leads
    <3> QED BY <1>2, <1>4, <1>7, <3>2
  <2>2. Hi(d) < Offset[p.line]
    BY <1>6, <2>1
  <2>3. Offset[p.line] \in Nat /\ Offset[p.line] + Width(p.line) + 1 <= Offset[p.begin]
        /\ Width(p.line) \in Nat /\ Width(p.line) >= 1
    <3>1. p.begin \in 1..Eof
      BY <1>1, <1>2
    <3> QED BY <1>1, <1>2, <3>1, Gap, TokensApart
  <2>4. Hi(d) < Left(p) - 1
    BY <1>3, <1>5, <2>2, <2>3
  <2> QED BY <2>4
<1>8. CASE p.begin < d.begin /\ p.end < d.begin
  <2>1. ~(d.begin < p.end)
    BY <1>2, <1>4, <1>8
  <2>2. (Right(p) - 1) + 1 < Lo(d)
    BY <1>6, <2>1
  <2> QED BY <1>3, <1>5, <2>2
<1>9. CASE p.begin < d.begin /\ d.begin < p.end
  <2>1. ~(p.end < d.begin) /\ ~(d.begin < p.begin)
    BY <1>2, <1>4, <1>9
  <2>2. Left(p) + 1 < Lo(d) /\ Hi(d) < Right(p) - 1
    BY <1>6, <2>1
  <2> DEFINE g == Container(d.begin)
  <2>3. g \in Scopes /\ Within(g, d.begin)
    BY VarIs
  <2>4. {g, FunctionEnd(g)} \cap (p.begin..p.end) = {}
    BY <1>1, <2>3 DEF Plain, Parts, Scopes
  <2> HIDE DEF g
  <2>5. g \in Int /\ g < d.begin /\ d.begin < FunctionEnd(g) /\ g \in Functions /\ VariablesOf(g) # {}
    BY <2>3 DEF Within, Scopes, Functions
  <2>7. ~(FunctionEnd(g) \in p.begin..p.end) /\ ~(g \in p.begin..p.end)
    BY <2>4
  <2>6. g < p.begin /\ g < p.end
    BY <1>2, <1>4, <1>9, <2>5, <2>7
  <2>8. FunctionEnd(g) \in Int
    BY <1>1, <2>5, FunctionEndIs
  <2>9. p.begin < FunctionEnd(g) /\ p.end < FunctionEnd(g)
    BY <1>2, <1>4, <1>9, <2>5, <2>7, <2>8
  <2>10. g \in Owners(p)
    BY <2>5, <2>6, <2>9 DEF Owners, Within
  <2>11. Left(p) < Lo(d)
    BY <1>3, <1>5, <2>2
  <2> QED BY <2>2, <2>10, <2>11 DEF g
<1>10. d.begin < p.begin \/ p.begin < d.begin
  BY <1>6
<1>11. p.end < d.begin \/ d.begin < p.end
  BY <1>6
<1> QED BY <1>7, <1>8, <1>9, <1>10, <1>11

LEMMA PartsApart ==
  ASSUME Ready, NEW p \in Parts, NEW q \in Parts, p # q
  PROVE  p.id # q.id /\ (Right(p) < Left(q) - 1 \/ Right(q) < Left(p) - 1)
<1>1. TypeInv /\ SpansInOrder /\ Registered /\ Len(particles) \in Nat /\ Eof = Len(src) + 1
  BY LenProperties DEF Ready, TypeInv, IsTyped, Eof
<1>2. PICK m \in 1..Len(particles) : p = particles[m]
  BY DEF Parts, AllParticles, ToSet
<1>3. PICK n \in 1..Len(particles) : q = particles[n]
  BY DEF Parts, AllParticles, ToSet
<1>4. p.id # q.id
  BY <1>1, <1>2, <1>3 DEF Registered
<1>5. \A a, b \in Parts : \A i, j \in 1..Len(particles) :
        i < j /\ a = particles[i] /\ b = particles[j] => Right(a) < Left(b) - 1
  <2> SUFFICES ASSUME NEW a \in Parts, NEW b \in Parts,
                      NEW i \in 1..Len(particles), NEW j \in 1..Len(particles),
                      i < j, a = particles[i], b = particles[j]
               PROVE  Right(a) < Left(b) - 1
    OBVIOUS
  <2>1. Spans(a, b.line)
    <3>1. i \in 1..(j - 1)
      BY <1>1
    <3> QED BY <1>1, <3>1 DEF SpansInOrder
  <2>2. /\ a.end \in 1..Len(src) /\ Kind(a.end) = "rb" /\ src \in Sources
        /\ b.line \in 1..Len(src) /\ b.begin \in 1..Len(src) /\ b.end \in 1..Len(src)
        /\ b.line < b.begin /\ b.begin < b.end
    BY <1>1, ParticleIs
  <2>3. a.end < b.line
    BY <2>1, <2>2 DEF Spans
  <2>4. Len(src) \in Nat
    BY <2>2, SourceType
  <2>5. a.end \in 1..Eof /\ a.end \notin b.line..b.end /\ ~(b.end < a.end)
    BY <1>1, <2>2, <2>3, <2>4, SMTT(20)
  <2>6. Offset[a.end] + 1 < Left(b) - 1
    BY <1>1, <2>2, <2>5, OutsideParticle DEF Borders
  <2> QED BY <2>6 DEF Right
<1>6. m < n \/ n < m
  BY <1>1, <1>2, <1>3
<1> QED BY <1>2, <1>3, <1>4, <1>5, <1>6

(* The ends of a function with a scope.                                    *)
EdgesOf(f) == {Offset[f], Offset[FunctionEnd(f)]}

LEMMA ScopeIs ==
  ASSUME Ready, NEW f \in Scopes
  PROVE  /\ f \in 1..Len(src) /\ FunctionEnd(f) \in 1..Len(src) /\ f < FunctionEnd(f)
         /\ Kind(f) = "fn" /\ Kind(FunctionEnd(f)) = "rb" /\ f \in Nat
         /\ Offset[f] \in Nat /\ Offset[FunctionEnd(f)] \in Nat
         /\ Offset[f] < Offset[FunctionEnd(f)] /\ Offset[FunctionEnd(f)] < Offset[Eof]
<1>1. f \in Functions /\ src \in Sources /\ Len(src) \in Nat /\ Eof = Len(src) + 1
  BY SourceType DEF Ready, TypeInv, IsTyped, Scopes, Eof
<1>2. PICK d \in Declarations : Container(d.begin) = f
  BY DEF Scopes, VariablesOf
<1>3. d \in Vars
  BY <1>1, <1>2 DEF Vars, Functions
<1>4. f < d.begin /\ d.begin < FunctionEnd(f)
  BY <1>2, <1>3, VarIs DEF Within
<1>5. d.begin \in 1..Len(src)
  BY <1>1, <1>2, Declared DEF Ready
<1>6. f \in 1..Len(src) /\ Kind(f) = "fn"
  BY <1>1 DEF Functions
<1>7. FunctionEnd(f) \in 1..Len(src) /\ f < FunctionEnd(f) /\ Kind(FunctionEnd(f)) = "rb"
  <2>1. FunctionEnd(f) # 0
    BY <1>4, <1>5
  <2> QED BY <1>1, <2>1, FunctionEndIs
<1> DEFINE e == FunctionEnd(f)
<1> HIDE DEF e
<1>8. e \in 1..Len(src) /\ f < e
  BY <1>7 DEF e
<1>9. Offset[f] \in Nat /\ Offset[e] \in Nat /\ Offset[Eof] \in Nat /\ Offset[f] < Offset[e] /\ Offset[e] < Offset[Eof]
  <2>1. e \in 1..Eof /\ Eof \in 1..Eof /\ e < Eof
    BY <1>1, <1>8
  <2>2. /\ Offset[f] + Width(f) + SpaceAfter(f) <= Offset[e] /\ Offset[f] \in Nat /\ Offset[e] \in Nat
        /\ Width(f) \in Nat /\ Width(f) >= 1 /\ SpaceAfter(f) \in Nat
    BY <1>1, <1>6, <1>8, <2>1, TokensApart
  <2>3. /\ Offset[e] + Width(e) + SpaceAfter(e) <= Offset[Eof] /\ Offset[Eof] \in Nat
        /\ Width(e) \in Nat /\ Width(e) >= 1 /\ SpaceAfter(e) \in Nat
    BY <1>1, <1>8, <2>1, TokensApart
  <2> QED BY <2>2, <2>3
<1> QED BY <1>1, <1>6, <1>7, <1>9 DEF e

LEMMA EndsApart ==
  ASSUME Ready, NEW f \in Scopes, NEW x \in EdgesOf(f)
  PROVE  /\ \A d \in Vars : x < Lo(d) \/ Hi(d) < x
         /\ \A p \in Parts : x < Left(p) - 1 \/ Right(p) < x
<1>1. PICK t \in {f, FunctionEnd(f)} : x = Offset[t]
  BY DEF EdgesOf
<1>2. /\ src \in Sources /\ Len(src) \in Nat /\ Eof = Len(src) + 1
      /\ Plain /\ TypeInv /\ SpansInOrder /\ Registered
  BY SourceType DEF Ready, TypeInv, IsTyped, Eof
<1>3. t \in 1..Eof /\ Kind(t) \in {"fn", "rb"}
  <2>1. t \in 1..Len(src) /\ Kind(t) \in {"fn", "rb"}
    BY <1>1, ScopeIs
  <2> QED BY <1>2, <2>1
<1>4. ASSUME NEW d \in Vars PROVE x < Lo(d) \/ Hi(d) < x
  <2>1. d \in Declarations /\ Kind(d.begin) = "shared"
    BY <1>2, Declared DEF Vars
  <2>2. t # d.begin
    BY <1>3, <2>1
  <2>3. Offset[t] \in Nat /\ (Offset[t] + 1 < Lo(d) \/ Hi(d) < Offset[t])
    BY <1>2, <1>3, <2>1, <2>2, OutsideDeclaration DEF Borders
  <2>4. Lo(d) \in Nat
    BY VarIs
  <2> QED BY <1>1, <2>3, <2>4
<1>5. ASSUME NEW p \in Parts PROVE x < Left(p) - 1 \/ Right(p) < x
  <2>1. t \notin p.begin..p.end
    BY <1>1, <1>2 DEF Plain, Parts, Scopes
  <2>2. t \notin p.line..p.end
    BY <1>2, <1>3, <2>1, OutsideBraces DEF Borders
  <2>3. Offset[t] \in Nat /\ (Offset[t] + 1 < Left(p) - 1 \/ Right(p) < Offset[t])
    BY <1>2, <1>3, <2>2, OutsideParticle DEF Borders
  <2>4. Left(p) \in Nat
    BY <1>2, RightIs
  <2> QED BY <1>1, <2>3, <2>4
<1> QED BY <1>4, <1>5
-----------------------------------------------------------------------------
(* Ranks: that of a character of the file is its place; that of a text     *)
(* that is inserted lies between the two of the place that it goes to. The *)
(* call that replaces a particle comes to stand before the character that  *)
(* precedes the particle's brace.                                          *)
LastOf(f) == CHOOSE d \in VariablesOf(f) : \A e \in VariablesOf(f) : e.end <= d.end

PartOf(id) == CHOOSE p \in AllParticles : p.id = id

Anchor(kind, x) ==
  IF kind = "threads" THEN Offset[x]
  ELSE IF kind = "undef" THEN Offset[FunctionEnd(x)]
  ELSE IF kind = "alloc" THEN Hi(LastOf(x))
  ELSE Left(PartOf(x)) - 1

RankOf ==
  [c \in Character |->
     IF c[1] = "text" THEN 2 * c[2]
     ELSE IF Anchor(c[1], c[2]) \in Nat THEN 2 * Anchor(c[1], c[2]) + 1 ELSE 0]

LEMMA RankIs ==
  /\ RankOf \in Ranks
  /\ \A n \in Nat : RankOf[Char(n)] = 2 * n
  /\ \A kind \in {"threads", "alloc", "undef", "set"}, x \in Nat, i \in {1, 2} :
       /\ <<kind, x, i>> \in Character
       /\ Anchor(kind, x) \in Nat => RankOf[<<kind, x, i>>] = 2 * Anchor(kind, x) + 1
<1>1. \A c \in Character : c[2] \in Nat
  BY DEF Character
<1>2. \A c \in Character : (IF c[1] = "text" THEN 2 * c[2]
        ELSE IF Anchor(c[1], c[2]) \in Nat THEN 2 * Anchor(c[1], c[2]) + 1 ELSE 0) \in Int
  <2> SUFFICES ASSUME NEW c \in Character
               PROVE  (IF c[1] = "text" THEN 2 * c[2]
        ELSE IF Anchor(c[1], c[2]) \in Nat THEN 2 * Anchor(c[1], c[2]) + 1 ELSE 0) \in Int
    OBVIOUS
  <2>1. c[2] \in Nat
    BY <1>1
  <2> DEFINE a == Anchor(c[1], c[2])
             n == c[2]
  <2> HIDE DEF a, n
  <2>2. n \in Nat
    BY <2>1 DEF n
  <2>3. (IF c[1] = "text" THEN 2 * n ELSE IF a \in Nat THEN 2 * a + 1 ELSE 0) \in Int
    BY <2>2
  <2> QED BY <2>3 DEF a, n
<1>3. RankOf \in Ranks
  BY <1>2 DEF RankOf, Ranks
<1>4. ASSUME NEW n \in Nat PROVE RankOf[Char(n)] = 2 * n
  <2>1. Char(n) \in Character /\ Char(n)[1] = "text" /\ Char(n)[2] = n
    BY CharIs
  <2> QED BY <2>1 DEF RankOf
<1>5. ASSUME NEW kind \in {"threads", "alloc", "undef", "set"}, NEW x \in Nat, NEW i \in {1, 2}
      PROVE  /\ <<kind, x, i>> \in Character
             /\ Anchor(kind, x) \in Nat => RankOf[<<kind, x, i>>] = 2 * Anchor(kind, x) + 1
  <2> DEFINE c == <<kind, x, i>>
  <2>1. c \in Character /\ c[1] = kind /\ c[2] = x /\ kind # "text"
    BY DEF Character
  <2> HIDE DEF c
  <2> QED BY <2>1 DEF RankOf, c
<1> QED BY <1>3, <1>4, <1>5

(* The last variable of a function.                                        *)
LEMMA LastIs ==
  ASSUME Ready, NEW f \in Scopes
  PROVE  /\ LastOf(f) \in VariablesOf(f) /\ LastOf(f) \in Vars
         /\ \A e \in VariablesOf(f) : e.end <= LastOf(f).end /\ Hi(e) <= Hi(LastOf(f))
         /\ LastOf(f).end = SemiOf(LastOf(f)) - 1
         /\ \A d \in VariablesOf(f) : (\A e \in VariablesOf(f) : e.end <= d.end) =>
              EndOf(d) = Hi(LastOf(f))
<1>1. src \in Sources /\ Len(src) \in Nat /\ Plain /\ f \in Functions /\ VariablesOf(f) # {} /\ f # 0
      /\ Eof = Len(src) + 1
  BY SourceType DEF Ready, TypeInv, IsTyped, Scopes, Functions, Eof
<1>2. \A d \in VariablesOf(f) : d \in Declarations /\ d \in Vars /\ Container(d.begin) = f
  BY <1>1 DEF VariablesOf, Vars
<1>3. \A d \in VariablesOf(f) : d.end \in 1..Len(src)
  BY <1>1, <1>2, Declared
<1> DEFINE l == LastOf(f)
<1>4. l \in VariablesOf(f) /\ \A e \in VariablesOf(f) : e.end <= l.end
  <2> DEFINE S == {d.end : d \in VariablesOf(f)}
  <2>1. S \in SUBSET Nat /\ S # {} /\ \A m \in S : m <= Len(src)
    BY <1>1, <1>3
  <2>2. Max(S) \in S /\ \A m \in S : m <= Max(S)
    <3> HIDE DEF S
    <3> QED BY <1>1, <2>1, Greatest
  <2>3. PICK d \in VariablesOf(f) : d.end = Max(S)
    BY <2>2
  <2>4. \A e \in VariablesOf(f) : e.end <= d.end
    BY <2>2, <2>3
  <2> QED BY <2>4 DEF LastOf
<1> HIDE DEF l
<1>5. \A d \in VariablesOf(f) : (\A e \in VariablesOf(f) : e.end <= d.end) => d.end = SemiOf(d) - 1
  <2> SUFFICES ASSUME NEW d \in VariablesOf(f), \A e \in VariablesOf(f) : e.end <= d.end
               PROVE  d.end = SemiOf(d) - 1
    OBVIOUS
  <2> DEFINE s == SemiOf(d)
             e == [begin |-> d.begin, end |-> s - 1]
  <2>1. e \in Declarations /\ s \in 1..Len(src) /\ d.end < s /\ d.end \in 1..Len(src)
    BY <1>1, <1>2, Declared
  <2>2. e.begin = d.begin /\ e.end = s - 1
    OBVIOUS
  <2> HIDE DEF e
  <2>3. e \in VariablesOf(f)
    BY <1>2, <2>1, <2>2 DEF VariablesOf
  <2>4. s - 1 <= d.end
    BY <2>2, <2>3
  <2> HIDE DEF s
  <2>5. d.end = s - 1
    BY <2>1, <2>4
  <2> QED BY <2>5 DEF s
<1>6. ASSUME NEW d \in VariablesOf(f), NEW e \in VariablesOf(f), e.end <= d.end
      PROVE  Hi(e) <= Hi(d)
  <2>1. d \in Declarations /\ e \in Declarations /\ d \in Vars /\ e \in Vars /\ d.end \in 1..Len(src) /\ e.end \in 1..Len(src)
    BY <1>2, <1>3
  <2>2. Hi(d) \in Nat /\ Hi(e) \in Nat /\ Lo(d) \in Nat /\ Lo(e) \in Nat /\ Lo(d) < Hi(d)
    BY <2>1, VarIs
  <2>3. CASE e.end = d.end
    BY <2>2, <2>3 DEF Hi
  <2>4. CASE e.end # d.end /\ e.begin = d.begin
    <3>1. e.end < d.end
      BY <1>6, <2>1, <2>4
    <3> QED BY <1>1, <2>1, <2>2, <2>4, <3>1, HiGrows
  <2>5. CASE e.begin # d.begin
    <3>1. Hi(e) < Lo(d) \/ Hi(d) < Lo(e)
      BY <2>1, <2>5, VarsApart
    <3>2. ~(Hi(d) < Lo(e))
      <4>1. e.begin \in 0..Eof /\ d.end \in 0..Eof /\ e.begin <= d.end
        <5>1. e.begin \in 1..Len(src) /\ e.begin <= e.end
          BY <1>1, <2>1, Declared
        <5> QED BY <1>1, <1>6, <2>1, <5>1
      <4>2. Offset[e.begin] <= Offset[d.end] /\ Offset[d.end] \in Nat
        BY <1>1, <4>1, OffsetsInOrder
      <4>3. Offset[d.end] < Hi(d)
        BY <4>2 DEF Hi
      <4> QED BY <2>2, <4>2, <4>3 DEF Lo
    <3> QED BY <2>2, <3>1, <3>2
  <2> QED BY <2>3, <2>4, <2>5
<1>7. l \in Vars /\ l.end = SemiOf(l) - 1
  BY <1>2, <1>4, <1>5
<1>8. ASSUME NEW d \in VariablesOf(f), \A e \in VariablesOf(f) : e.end <= d.end
      PROVE  EndOf(d) = Hi(l)
  <2>1. d.end = l.end
    <3>1. d.end <= l.end /\ l.end <= d.end /\ d.end \in 1..Len(src) /\ l.end \in 1..Len(src)
      BY <1>3, <1>4, <1>8
    <3> QED BY <1>1, <3>1
  <2>2. Hi(d) = Hi(l)
    BY <2>1 DEF Hi
  <2>3. d.end = SemiOf(d) - 1
    BY <1>5, <1>8
  <2>4. Hi(d) = EndOf(d)
    BY <1>1, <1>2, <2>3, HiIs
  <2> QED BY <2>2, <2>4
<1> QED BY <1>4, <1>6, <1>7, <1>8 DEF l

(* A particle is told by its number.                                       *)
LEMMA PartOfIs ==
  ASSUME Registered, TypeInv, NEW p \in AllParticles
  PROVE  PartOf(p.id) = p
<1>1. \A q \in AllParticles : q.id = p.id => q = p
  BY DEF Registered, AllParticles, ToSet
<1> QED BY <1>1 DEF PartOf
-----------------------------------------------------------------------------
(* The edits: variables that have been removed, particles that have been   *)
(* replaced, and texts put into the file.                                  *)
Puts == {"threads", "alloc", "undef"} \X Scopes

Spot(t) == Anchor(t[1], t[2])

Made(t) == ToSet(Inserted(t[1], t[2]))

(* Where the text of an inserted string goes.                              *)
LEMMA SpotIs ==
  ASSUME Ready, NEW t \in Puts
  PROVE  /\ t = <<t[1], t[2]>> /\ t[1] \in {"threads", "alloc", "undef"} /\ t[2] \in Scopes /\ t[2] \in Nat
         /\ Spot(t) \in Nat /\ Spot(t) < Offset[Eof] /\ Offset[Eof] \in Nat
         /\ \A d \in Vars : \/ Spot(t) < Lo(d)
                            \/ Hi(d) < Spot(t)
                            \/ t[1] = "alloc" /\ t[2] = Container(d.begin) /\ Hi(d) <= Spot(t)
         /\ \A p \in Parts : \/ Spot(t) < Left(p) - 1
                             \/ Right(p) < Spot(t)
                             \/ /\ t[1] = "alloc" /\ t[2] \in Owners(p)
                                /\ Left(p) < Spot(t) /\ Spot(t) < Right(p) - 1
<1>1. t = <<t[1], t[2]>> /\ t[1] \in {"threads", "alloc", "undef"} /\ t[2] \in Scopes
  BY DEF Puts
<1> DEFINE f == t[2]
<1>2. f \in Scopes
  BY <1>1
<1> HIDE DEF f
<1>3. /\ f \in Nat /\ Offset[f] \in Nat /\ Offset[FunctionEnd(f)] \in Nat
      /\ Offset[f] < Offset[Eof] /\ Offset[FunctionEnd(f)] < Offset[Eof]
  <2>1. src \in Sources
    BY DEF Ready, TypeInv, IsTyped
  <2>2. Offset[Eof] \in Nat
    BY <2>1, TextIs
  <2> QED BY <1>2, <2>2, ScopeIs
<1>4. CASE t[1] \in {"threads", "undef"}
  <2>1. Spot(t) \in EdgesOf(f) /\ Spot(t) \in Nat /\ Spot(t) < Offset[Eof]
    <3>1. t[1] = "threads" => Spot(t) = Offset[f]
      BY DEF Spot, Anchor, f
    <3>2. t[1] = "undef" => Spot(t) = Offset[FunctionEnd(f)]
      BY DEF Spot, Anchor, f
    <3> QED BY <1>3, <1>4, <3>1, <3>2 DEF EdgesOf
  <2>2. /\ \A d \in Vars : Spot(t) < Lo(d) \/ Hi(d) < Spot(t)
        /\ \A p \in Parts : Spot(t) < Left(p) - 1 \/ Right(p) < Spot(t)
    BY <1>2, <2>1, EndsApart
  <2>3. Offset[Eof] \in Nat
    BY TextIs DEF Ready, TypeInv, IsTyped
  <2> QED BY <1>1, <1>3, <2>1, <2>2, <2>3 DEF f
<1>5. CASE t[1] = "alloc"
  <2> DEFINE l == LastOf(f)
  <2>1. l \in VariablesOf(f) /\ l \in Vars /\ \A e \in VariablesOf(f) : Hi(e) <= Hi(l)
    BY <1>2, LastIs
  <2>2. Container(l.begin) = f
    BY <2>1 DEF VariablesOf
  <2>3. Spot(t) = Hi(l)
    BY <1>5 DEF Spot, Anchor, f
  <2> HIDE DEF l
  <2>4. Hi(l) \in Nat /\ Lo(l) \in Nat /\ Lo(l) < Hi(l) /\ Hi(l) < Offset[Eof] /\ Offset[Eof] \in Nat
    BY <2>1, VarIs
  <2>5. ASSUME NEW d \in Vars
        PROVE  Hi(l) < Lo(d) \/ Hi(d) < Hi(l) \/ (f = Container(d.begin) /\ Hi(d) <= Hi(l))
    <3>1. CASE Container(d.begin) = f
      BY <2>1, <3>1 DEF VariablesOf, Vars
    <3>2. CASE Container(d.begin) # f
      <4>1. d.begin # l.begin
        BY <2>2, <3>2
      <4>2. Hi(d) < Lo(l) \/ Hi(l) < Lo(d)
        BY <2>1, <4>1, VarsApart
      <4>3. Hi(d) \in Nat
        BY VarIs
      <4> QED BY <2>4, <4>2, <4>3
    <3> QED BY <3>1, <3>2
  <2>6. ASSUME NEW p \in Parts
        PROVE  Hi(l) < Left(p) - 1 \/ Right(p) < Hi(l) \/ (f \in Owners(p) /\ Left(p) < Hi(l) /\ Hi(l) < Right(p) - 1)
    <3>1. \/ Hi(l) < Left(p) - 1
          \/ Right(p) < Lo(l)
          \/ Left(p) < Lo(l) /\ Hi(l) < Right(p) - 1 /\ f \in Owners(p)
      BY <2>1, <2>2, VarPart
    <3>2. Left(p) \in Nat /\ Right(p) \in Nat
      BY RightIs DEF Ready
    <3> QED BY <2>4, <3>1, <3>2
  <2> QED BY <1>1, <1>3, <1>5, <2>3, <2>4, <2>5, <2>6 DEF f
<1> QED BY <1>1, <1>4, <1>5

(* The two characters of an inserted string have the rank of its place.    *)
LEMMA InsertedIs ==
  ASSUME NEW kind \in {"threads", "alloc", "undef", "set"}, NEW x \in Nat, Anchor(kind, x) \in Nat
  PROVE  LET s == Inserted(kind, x) IN
         /\ s \in Seq(Character) /\ Sorted(s, RankOf) /\ Ranked(s, RankOf, 2 * Anchor(kind, x) + 1)
         /\ ToSet(s) = {<<kind, x, 1>>, <<kind, x, 2>>} /\ Len(s) = 2
<1> DEFINE s == Inserted(kind, x)
           a == 2 * Anchor(kind, x) + 1
           c == <<kind, x, 1>>
           d == <<kind, x, 2>>
<1>1. c \in Character /\ d \in Character /\ RankOf[c] = a /\ RankOf[d] = a /\ a \in Nat
  BY RankIs
<1>2. s = <<c, d>>
  BY DEF Inserted
<1>3. s \in Seq(Character) /\ Len(s) = 2 /\ s[1] = c /\ s[2] = d
  <2> HIDE DEF c, d, a, s
  <2> QED BY <1>1, <1>2
<1>4. ToSet(s) = {c, d}
  <2> HIDE DEF c, d, a, s
  <2>1. DOMAIN s = {1, 2}
    BY <1>2
  <2> QED BY <1>3, <2>1 DEF ToSet
<1>5. InOrder(c, d, RankOf)
  <2>1. c[3] < d[3]
    OBVIOUS
  <2> HIDE DEF c, d, a
  <2> QED BY <1>1, <2>1 DEF InOrder
<1>6. Sorted(s, RankOf)
  <2> HIDE DEF c, d, a, s
  <2> SUFFICES ASSUME NEW j \in 1..Len(s), NEW k \in 1..Len(s), j < k
               PROVE  InOrder(s[j], s[k], RankOf)
    BY DEF Sorted
  <2>1. j = 1 /\ k = 2
    BY <1>3
  <2> QED BY <1>3, <1>5, <2>1
<1>7. Ranked(s, RankOf, a)
  <2> HIDE DEF c, d, a, s
  <2> SUFFICES ASSUME NEW k \in 1..Len(s) PROVE RankOf[s[k]] = a
    BY DEF Ranked
  <2>1. k = 1 \/ k = 2
    BY <1>3
  <2> QED BY <1>1, <1>3, <2>1
<1> HIDE DEF s, a
<1>8. s \in Seq(Character) /\ Sorted(s, RankOf) /\ Ranked(s, RankOf, a) /\ ToSet(s) = {c, d} /\ Len(s) = 2
  BY <1>3, <1>4, <1>6, <1>7
<1> QED BY <1>8 DEF s, a
-----------------------------------------------------------------------------
(* What the buffer is once the variables of V have been removed, the       *)
(* particles of P replaced, and the texts of A put in.                     *)
Lost(V, P) ==
  (UNION {(Lo(d) + 1)..(Hi(d) - 1) : d \in V}) \cup
  (UNION {(Left(p) - 1)..(Right(p) - 1) : p \in P})

Marks(V, P, A) ==
  {2 * Lo(d) + 1 : d \in V} \cup {2 * Left(p) + 1 : p \in P} \cup
  {2 * (Right(p) - 1) : p \in P} \cup {2 * Spot(t) : t \in A}

IsCut(V, P, r) ==
  \/ \E d \in V : 2 * Lo(d) < r /\ r <= 2 * Hi(d)
  \/ \E p \in P : 2 * Left(p) < r /\ r <= 2 * Right(p)

SetCall(p) == <<"set", p.id>>

Remains(V, P, A) ==
  {c \in ToSet(Text) \cup (UNION {Made(t) : t \in A}) \cup (UNION {Made(SetCall(p)) : p \in P}) :
     ~IsCut(V, P, RankOf[c])}

Edits(b, V, P, A) ==
  /\ Maps(b, Offset[Eof], RankOf, Lost(V, P), Marks(V, P, A))
  /\ ToSet(b.text) = Remains(V, P, A)

Doing(V, P, A) == Ready /\ V \subseteq Vars /\ P \subseteq Parts /\ A \subseteq Puts

LEMMA Sizes ==
  ASSUME NEW V, NEW P, NEW A, Doing(V, P, A)
  PROVE  /\ src \in Sources /\ Offset[Eof] \in Nat
         /\ \A d \in V : Lo(d) \in Nat /\ Hi(d) \in Nat /\ Lo(d) < Hi(d) /\ Hi(d) < Offset[Eof]
         /\ \A p \in P : /\ Left(p) \in Nat /\ Right(p) \in Nat /\ Left(p) >= 1
                         /\ Left(p) + 1 < Right(p) - 1 /\ Right(p) < Offset[Eof]
         /\ \A t \in A : Spot(t) \in Nat
<1>1. src \in Sources /\ Offset[Eof] \in Nat
  BY TextIs DEF Doing, Ready, TypeInv, IsTyped
<1>2. \A d \in V : Lo(d) \in Nat /\ Hi(d) \in Nat /\ Lo(d) < Hi(d) /\ Hi(d) < Offset[Eof]
  BY VarIs DEF Doing
<1>3. \A p \in P : /\ Left(p) \in Nat /\ Right(p) \in Nat /\ Left(p) >= 1
                   /\ Left(p) + 1 < Right(p) - 1 /\ Right(p) < Offset[Eof]
  BY RightIs DEF Doing, Ready
<1>4. \A t \in A : Spot(t) \in Nat
  BY SpotIs DEF Doing
<1> QED BY <1>1, <1>2, <1>3, <1>4

LEMMA NotLost ==
  ASSUME NEW V, NEW P, NEW A, Doing(V, P, A), NEW x \in Int,
         \A d \in V : x <= Lo(d) \/ Hi(d) <= x,
         \A p \in P : x < Left(p) - 1 \/ Right(p) <= x
  PROVE  x \notin Lost(V, P)
<1>1. \A d \in V : x \notin (Lo(d) + 1)..(Hi(d) - 1)
  BY Sizes
<1>2. \A p \in P : x \notin (Left(p) - 1)..(Right(p) - 1)
  BY Sizes
<1> SUFFICES ASSUME x \in Lost(V, P) PROVE FALSE
  OBVIOUS
<1>3. \/ x \in UNION {(Lo(d) + 1)..(Hi(d) - 1) : d \in V}
      \/ x \in UNION {(Left(p) - 1)..(Right(p) - 1) : p \in P}
  BY DEF Lost
<1>4. (\E d \in V : x \in (Lo(d) + 1)..(Hi(d) - 1)) \/ (\E p \in P : x \in (Left(p) - 1)..(Right(p) - 1))
  BY <1>3
<1> QED BY <1>1, <1>2, <1>4

LEMMA NotMarked ==
  ASSUME NEW V, NEW P, NEW A, NEW i,
         \A d \in V : i # 2 * Lo(d) + 1,
         \A p \in P : i # 2 * Left(p) + 1 /\ i # 2 * (Right(p) - 1),
         \A t \in A : i # 2 * Spot(t)
  PROVE  i \notin Marks(V, P, A)
BY DEF Marks

(* No mark, no change.                                                     *)
LEMMA NoChange ==
  ASSUME NEW N, NEW b, NEW rank, NEW lost, NEW marks, Maps(b, N, rank, lost, marks),
         NEW i \in 0..(2 * N), i \notin marks
  PROVE  b.deltas[i] = b.deltas[i + 1]
BY DEF Maps

(* The variables are removed in order, and before the particles that they  *)
(* are in are replaced and the text of their function is put in.           *)
Removable(V, P, A, d) ==
  /\ \A e \in V : e.begin = d.begin => e.end < d.end
  /\ \A p \in P : Container(d.begin) \notin Owners(p)
  /\ \A t \in A : t[1] = "alloc" => t[2] # Container(d.begin)

LEMMA VariableIsThere ==
  ASSUME NEW V, NEW P, NEW A, Doing(V, P, A), NEW d \in Vars, Removable(V, P, A, d)
  PROVE  /\ Lo(d) \notin Lost(V, P) /\ Hi(d) \notin Lost(V, P) /\ 2 * Lo(d) \notin Marks(V, P, A)
         /\ \A i \in Int : 2 * EndOf(d) <= i /\ i <= 2 * Hi(d) => i \notin Marks(V, P, A)
<1>1. /\ Lo(d) \in Nat /\ Hi(d) \in Nat /\ EndOf(d) \in Nat /\ Lo(d) < EndOf(d) /\ EndOf(d) <= Hi(d)
  <2>1. Plain /\ src \in Sources /\ d \in Declarations
    BY VarIs DEF Doing, Ready
  <2>2. TokenLength(EndOf(d)) \in {0, 3} /\ Hi(d) = EndOf(d) + TokenLength(EndOf(d)) /\ EndOf(d) \in Nat
        /\ Lo(d) \in Nat /\ Hi(d) \in Nat /\ Lo(d) < EndOf(d)
    BY <2>1, HiIs
  <2> QED BY <2>2
<1>2. ASSUME NEW e \in V
      PROVE  \/ Hi(e) < Lo(d) \/ Hi(d) < Lo(e)
             \/ Lo(e) = Lo(d) /\ Hi(e) < Hi(d)
  <2>1. e \in Vars /\ src \in Sources /\ Plain /\ e \in Declarations /\ d \in Declarations
    BY VarIs DEF Doing, Ready
  <2>2. CASE e.begin = d.begin
    <3>1. e.end < d.end
      BY <2>2 DEF Removable
    <3>2. Hi(e) < Hi(d)
      BY <2>1, <2>2, <3>1, HiGrows
    <3> QED BY <2>2, <3>2 DEF Lo
  <2>3. CASE e.begin # d.begin
    BY <2>1, <2>3, VarsApart DEF Doing
  <2> QED BY <2>2, <2>3
<1>3. ASSUME NEW p \in P
      PROVE  Hi(d) < Left(p) - 1 \/ Right(p) < Lo(d)
  BY VarPart DEF Doing, Removable
<1>4. ASSUME NEW t \in A
      PROVE  Spot(t) < Lo(d) \/ Hi(d) < Spot(t)
  <2>1. ~(t[1] = "alloc" /\ t[2] = Container(d.begin))
    BY DEF Removable
  <2> QED BY <2>1, SpotIs DEF Doing
<1>5. /\ \A e \in V : Lo(e) \in Nat /\ Hi(e) \in Nat /\ Lo(e) < Hi(e)
      /\ \A p \in P : Left(p) \in Nat /\ Right(p) \in Nat /\ Left(p) + 1 < Right(p) - 1
      /\ \A t \in A : Spot(t) \in Nat
  BY Sizes
<1>6. Lo(d) \notin Lost(V, P)
  <2>1. \A e \in V : Lo(d) <= Lo(e) \/ Hi(e) <= Lo(d)
    BY <1>1, <1>2, <1>5
  <2>2. \A p \in P : Lo(d) < Left(p) - 1 \/ Right(p) <= Lo(d)
    BY <1>1, <1>3, <1>5
  <2> QED BY <1>1, <2>1, <2>2, NotLost
<1>7. Hi(d) \notin Lost(V, P)
  <2>1. \A e \in V : Hi(d) <= Lo(e) \/ Hi(e) <= Hi(d)
    BY <1>1, <1>2, <1>5
  <2>2. \A p \in P : Hi(d) < Left(p) - 1 \/ Right(p) <= Hi(d)
    BY <1>1, <1>3, <1>5
  <2> QED BY <1>1, <2>1, <2>2, NotLost
<1>8. 2 * Lo(d) \notin Marks(V, P, A)
  <2>1. \A e \in V : 2 * Lo(d) # 2 * Lo(e) + 1
    BY <1>1, <1>5
  <2>2. \A p \in P : 2 * Lo(d) # 2 * Left(p) + 1 /\ 2 * Lo(d) # 2 * (Right(p) - 1)
    BY <1>1, <1>3, <1>5
  <2>3. \A t \in A : 2 * Lo(d) # 2 * Spot(t)
    BY <1>1, <1>4, <1>5
  <2> QED BY <2>1, <2>2, <2>3, NotMarked
<1>9. ASSUME NEW i \in Int, 2 * EndOf(d) <= i, i <= 2 * Hi(d)
      PROVE  i \notin Marks(V, P, A)
  <2>1. \A e \in V : i # 2 * Lo(e) + 1
    BY <1>1, <1>2, <1>5, <1>9
  <2>2. \A p \in P : i # 2 * Left(p) + 1 /\ i # 2 * (Right(p) - 1)
    BY <1>1, <1>3, <1>5, <1>9
  <2>3. \A t \in A : i # 2 * Spot(t)
    BY <1>1, <1>4, <1>5, <1>9
  <2> QED BY <2>1, <2>2, <2>3, NotMarked
<1> QED BY <1>6, <1>7, <1>8, <1>9

(* The last character of the file always stays.                            *)
LEMMA LastStays ==
  ASSUME NEW V, NEW P, NEW A, Doing(V, P, A), NEW b, Edits(b, V, P, A), NEW x \in Nat, x < Offset[Eof]
  PROVE  Reaches(b.text, RankOf, 2 * x)
<1> DEFINE N == Offset[Eof]
           c == Char(N)
<1>1. N \in Nat /\ N >= 1 /\ N > x /\ src \in Sources
  BY Sizes
<1>2. c \in ToSet(Text)
  <2>1. N \in DOMAIN Text /\ Text[N] = c
    BY <1>1, TextIs
  <2> QED BY <2>1 DEF ToSet
<1>3. RankOf[c] = 2 * N
  BY <1>1, RankIs
<1> HIDE DEF c
<1>4. ~IsCut(V, P, RankOf[c])
  <2>1. \A d \in V : ~(2 * N <= 2 * Hi(d))
    BY Sizes
  <2>2. \A p \in P : ~(2 * N <= 2 * Right(p))
    BY Sizes
  <2> QED BY <1>3, <2>1, <2>2 DEF IsCut
<1>5. c \in ToSet(b.text)
  BY <1>2, <1>4 DEF Edits, Remains
<1>6. b.text \in Seq(Character)
  BY DEF Edits, Maps, Buffers
<1>7. PICK k \in 1..Len(b.text) : b.text[k] = c
  BY <1>5, <1>6 DEF ToSet
<1>8. RankOf[b.text[k]] > 2 * x
  <2> HIDE DEF N
  <2> QED BY <1>1, <1>3, <1>7
<1> QED BY <1>8 DEF Reaches

(* The characters of the file, of an inserted text, of a call.             *)
LEMMA TextHas ==
  ASSUME src \in Sources
  PROVE  ToSet(Text) = {Char(n) : n \in 1..Offset[Eof]} /\ \A c \in ToSet(Text) : c[1] = "text"
<1>1. ToSet(Text) = {Text[n] : n \in 1..Offset[Eof]} /\ Offset[Eof] \in Nat
  BY TextIs DEF ToSet
<1>2. \A n \in 1..Offset[Eof] : Text[n] = Char(n) /\ Char(n)[1] = "text"
  BY <1>1, TextIs, CharIs
<1> QED BY <1>1, <1>2

LEMMA MadeIs ==
  ASSUME Ready, NEW t \in Puts
  PROVE  /\ t = <<t[1], t[2]>> /\ Made(t) = {<<t[1], t[2], 1>>, <<t[1], t[2], 2>>}
         /\ \A c \in Made(t) : c[1] = t[1] /\ c[2] = t[2] /\ RankOf[c] = 2 * Spot(t) + 1
<1>1. t = <<t[1], t[2]>> /\ t[1] \in {"threads", "alloc", "undef", "set"} /\ t[2] \in Nat /\ Spot(t) \in Nat
  BY SpotIs
<1>2. Made(t) = {<<t[1], t[2], 1>>, <<t[1], t[2], 2>>}
  BY <1>1, InsertedIs DEF Made, Spot
<1>3. RankOf[<<t[1], t[2], 1>>] = 2 * Spot(t) + 1 /\ RankOf[<<t[1], t[2], 2>>] = 2 * Spot(t) + 1
  BY <1>1, RankIs DEF Spot
<1>4. \A c \in Made(t) : c[1] = t[1] /\ c[2] = t[2]
  BY <1>2
<1> QED BY <1>1, <1>2, <1>3, <1>4

LEMMA CallIs ==
  ASSUME Ready, NEW p \in Parts
  PROVE  /\ SetCall(p)[1] = "set" /\ SetCall(p)[2] = p.id /\ p.id \in Nat
         /\ Anchor("set", p.id) = Left(p) - 1 /\ Anchor("set", p.id) \in Nat
         /\ Made(SetCall(p)) = {<<"set", p.id, 1>>, <<"set", p.id, 2>>}
         /\ \A c \in Made(SetCall(p)) : c[1] = "set" /\ c[2] = p.id /\ RankOf[c] = 2 * (Left(p) - 1) + 1
<1>1. p.id \in Nat /\ p \in AllParticles
  BY ParticleIs DEF Parts, Ready
<1>2. Anchor("set", p.id) = Left(p) - 1
  BY <1>1, PartOfIs DEF Anchor, Ready
<1>3. Left(p) - 1 \in Nat
  <2>1. Left(p) \in Nat /\ Left(p) >= 1
    BY RightIs DEF Ready
  <2> QED BY <2>1
<1>4. SetCall(p)[1] = "set" /\ SetCall(p)[2] = p.id
  BY DEF SetCall
<1>5. Made(SetCall(p)) = {<<"set", p.id, 1>>, <<"set", p.id, 2>>}
  <2>1. Anchor("set", p.id) \in Nat
    BY <1>2, <1>3
  <2> QED BY <1>1, <1>4, <2>1, InsertedIs DEF Made
<1>6. RankOf[<<"set", p.id, 1>>] = 2 * (Left(p) - 1) + 1 /\ RankOf[<<"set", p.id, 2>>] = 2 * (Left(p) - 1) + 1
  BY <1>1, <1>2, <1>3, RankIs
<1>7. \A c \in Made(SetCall(p)) : c[1] = "set" /\ c[2] = p.id
  BY <1>5
<1> QED BY <1>1, <1>2, <1>3, <1>4, <1>5, <1>6, <1>7
-----------------------------------------------------------------------------
(* A variable is removed.                                                  *)
LEMMA VariableRemoved ==
  ASSUME NEW V, NEW P, NEW A, Doing(V, P, A), NEW b, Edits(b, V, P, A),
         NEW d \in Vars, Removable(V, P, A, d)
  PROVE  Doing(V \cup {d}, P, A) /\ Edits(RemoveVariable(b, d), V \cup {d}, P, A)
<1> DEFINE N == Offset[Eof]
           lost == Lost(V, P)
           marks == Marks(V, P, A)
           l == Lo(d)
           h == Hi(d)
           e == EndOf(d)
           n == TokenLength(e)
<1>1. /\ N \in Nat /\ l \in Nat /\ h \in Nat /\ e \in Nat /\ l < e /\ h < N
      /\ n \in {0, 3} /\ h = e + n /\ src \in Sources
  <2>1. Plain /\ src \in Sources /\ d \in Declarations /\ Hi(d) < Offset[Eof] /\ Offset[Eof] \in Nat
    BY VarIs DEF Doing, Ready
  <2> QED BY <2>1, HiIs
<1>2. /\ l \notin lost /\ h \notin lost /\ 2 * l \notin marks
      /\ \A i \in Int : 2 * e <= i /\ i <= 2 * h => i \notin marks
  BY VariableIsThere
<1>3. Maps(b, N, RankOf, lost, marks) /\ ToSet(b.text) = Remains(V, P, A)
  BY DEF Edits
<1>4. RemoveVariable(b, d) = RemoveText(b, l, RangeSize(b, l, e, n))
  BY DEF RemoveVariable, RemoveRange, Lo
<1> HIDE DEF N, lost, marks, l, h, e, n
<1>5. b.deltas \in [0..(2 * N + 1) -> Int]
  BY <1>3 DEF Maps, Buffers
<1>6. \A i \in Int : 2 * e <= i /\ i <= 2 * h => b.deltas[i] = b.deltas[i + 1]
  <2> SUFFICES ASSUME NEW i \in Int, 2 * e <= i, i <= 2 * h
               PROVE  b.deltas[i] = b.deltas[i + 1]
    OBVIOUS
  <2>1. i \in 0..(2 * N) /\ i \notin marks
    BY <1>1, <1>2
  <2> QED BY <1>3, <2>1, NoChange
<1>7. b.deltas[2 * e + 1] = b.deltas[2 * h]
  <2>1. CASE n = 0
    <3>1. 2 * e \in Int /\ 2 * e <= 2 * e /\ 2 * e <= 2 * h /\ h = e
      BY <1>1, <2>1
    <3> QED BY <1>6, <3>1
  <2>2. CASE n = 3
    <3> DEFINE i == 2 * e + 1
    <3>1. i \in Int /\ 2 * e <= i /\ i + 5 = 2 * h
      BY <1>1, <2>2
    <3> HIDE DEF i
    <3>2. /\ i + 1 \in Int /\ i + 2 \in Int /\ i + 3 \in Int /\ i + 4 \in Int
          /\ (i + 1) + 1 = i + 2 /\ (i + 2) + 1 = i + 3 /\ (i + 3) + 1 = i + 4 /\ (i + 4) + 1 = i + 5
          /\ 2 * e <= i + 1 /\ 2 * e <= i + 2 /\ 2 * e <= i + 3 /\ 2 * e <= i + 4
          /\ i <= 2 * h /\ i + 1 <= 2 * h /\ i + 2 <= 2 * h /\ i + 3 <= 2 * h /\ i + 4 <= 2 * h
      BY <1>1, <3>1
    <3>3. b.deltas[i] = b.deltas[i + 1]
      BY <1>6, <3>1, <3>2
    <3>4. b.deltas[i + 1] = b.deltas[i + 2]
      BY <1>6, <3>1, <3>2
    <3>5. b.deltas[i + 2] = b.deltas[i + 3]
      BY <1>6, <3>1, <3>2
    <3>6. b.deltas[i + 3] = b.deltas[i + 4]
      BY <1>6, <3>1, <3>2
    <3>7. b.deltas[i + 4] = b.deltas[i + 5]
      BY <1>6, <3>1, <3>2
    <3>8. b.deltas[i] = b.deltas[2 * h]
      BY <3>1, <3>3, <3>4, <3>5, <3>6, <3>7
    <3> QED BY <3>8 DEF i
  <2> QED BY <1>1, <2>1, <2>2
<1>8. RangeSize(b, l, e, n) = SizeOf(b, l, h)
  <2>1. l \in 0..N /\ e \in 0..N /\ h \in 0..N
    BY <1>1
  <2> DEFINE me == Mapped(b, e, TRUE)
             mh == Mapped(b, h, FALSE)
             ml == Mapped(b, l, FALSE)
  <2>2. me = e + b.deltas[2 * e + 1] /\ mh = h + b.deltas[2 * h] /\ me \in Int /\ ml \in Int
    BY <1>1, <1>5, <2>1, MappedIs
  <2> HIDE DEF me, mh, ml
  <2>3. b.deltas[2 * e + 1] \in Int
    <3>1. 2 * e + 1 \in 0..(2 * N + 1)
      BY <1>1
    <3> QED BY <1>5, <3>1
  <2>4. mh = me + n
    <3> DEFINE y == b.deltas[2 * e + 1]
    <3>1. mh = h + y /\ me = e + y /\ y \in Int
      BY <1>7, <2>2, <2>3
    <3> HIDE DEF y
    <3>2. n \in Int /\ e \in Int /\ h = e + n
      BY <1>1
    <3> QED BY <3>1, <3>2
  <2>5. n \in Int
    BY <1>1
  <2>6. me + (n - ml) = mh - ml
    BY <2>2, <2>4, <2>5
  <2> QED BY <2>6 DEF RangeSize, SizeOf, me, mh, ml
<1>9. Reaches(b.text, RankOf, 2 * h)
  BY <1>1, LastStays DEF N
<1> DEFINE c == RemoveText(b, l, SizeOf(b, l, h))
<1>10. /\ Maps(c, N, RankOf, lost \cup (l + 1)..(h - 1), marks \cup {2 * l + 1})
       /\ ToSet(c.text) = Spared(ToSet(b.text), RankOf, 2 * l, 2 * h)
  <2>1. l \in 0..N /\ h \in 0..N /\ l < h
    BY <1>1
  <2>2. RankOf \in Ranks
    BY RankIs
  <2>3. N \in Nat /\ Maps(b, N, RankOf, lost, marks) /\ l \notin lost /\ h \notin lost /\ 2 * l \notin marks
    BY <1>1, <1>2, <1>3
  <2>4. Becomes(c, N, RankOf, lost \cup (l + 1)..(h - 1), marks \cup {2 * l + 1},
                Spared(ToSet(b.text), RankOf, 2 * l, 2 * h))
    BY <1>9, <2>1, <2>2, <2>3, RemoveKeeps
  <2> HIDE DEF c
  <2> QED BY <2>4 DEF Becomes
<1>11. c = RemoveVariable(b, d)
  BY <1>4, <1>8
<1> HIDE DEF c
<1> DEFINE W == V \cup {d}
<1>12. Lost(W, P) = lost \cup (l + 1)..(h - 1)
  <2>1. UNION {(Lo(x) + 1)..(Hi(x) - 1) : x \in W} =
          (UNION {(Lo(x) + 1)..(Hi(x) - 1) : x \in V}) \cup (Lo(d) + 1)..(Hi(d) - 1)
    OBVIOUS
  <2> QED BY <2>1 DEF Lost, lost, l, h
<1>13. Marks(W, P, A) = marks \cup {2 * l + 1}
  <2>1. {2 * Lo(x) + 1 : x \in W} = {2 * Lo(x) + 1 : x \in V} \cup {2 * Lo(d) + 1}
    OBVIOUS
  <2> QED BY <2>1 DEF Marks, marks, l
<1>14. Remains(W, P, A) = Spared(Remains(V, P, A), RankOf, 2 * l, 2 * h)
  <2>1. \A r : IsCut(W, P, r) <=> (IsCut(V, P, r) \/ (2 * l < r /\ r <= 2 * h))
    BY DEF IsCut, l, h
  <2> QED BY <2>1 DEF Remains, Spared
<1>15. Edits(c, W, P, A)
  BY <1>3, <1>10, <1>12, <1>13, <1>14 DEF Edits, N
<1>16. Doing(W, P, A)
  BY DEF Doing
<1> QED BY <1>11, <1>15, <1>16

(* A text is put in.                                                       *)
LEMMA TextPut ==
  ASSUME NEW V, NEW P, NEW A, Doing(V, P, A), NEW b, Edits(b, V, P, A),
         NEW t \in Puts, t \notin A, NEW after \in BOOLEAN,
         t[1] = "alloc" => \A p \in P : t[2] \notin Owners(p)
  PROVE  /\ Doing(V, P, A \cup {t})
         /\ Edits(InsertText(b, Spot(t), Inserted(t[1], t[2]), after), V, P, A \cup {t})
<1> DEFINE N == Offset[Eof]
           lost == Lost(V, P)
           marks == Marks(V, P, A)
           o == Spot(t)
           s == Inserted(t[1], t[2])
           B == A \cup {t}
<1>1. /\ o \in Nat /\ o < N /\ N \in Nat /\ t = <<t[1], t[2]>> /\ t[2] \in Nat
      /\ t[1] \in {"threads", "alloc", "undef", "set"}
      /\ \A e \in V : \/ o < Lo(e) \/ Hi(e) <= o
      /\ \A p \in P : \/ o < Left(p) - 1 \/ Right(p) < o
      /\ \A e \in V : Lo(e) \in Nat /\ Hi(e) \in Nat /\ Lo(e) < Hi(e)
      /\ \A p \in P : Left(p) \in Nat /\ Right(p) \in Nat /\ Left(p) + 1 < Right(p) - 1
  <2>1. /\ o \in Nat /\ o < N /\ N \in Nat /\ t = <<t[1], t[2]>> /\ t[2] \in Nat
        /\ t[1] \in {"threads", "alloc", "undef", "set"}
        /\ \A p \in P : \/ o < Left(p) - 1 \/ Right(p) < o
    BY SpotIs DEF Doing
  <2>2. /\ \A e \in V : Lo(e) \in Nat /\ Hi(e) \in Nat /\ Lo(e) < Hi(e)
        /\ \A p \in P : Left(p) \in Nat /\ Right(p) \in Nat /\ Left(p) + 1 < Right(p) - 1
    BY Sizes
  <2>3. \A e \in V : \/ o < Lo(e) \/ Hi(e) < o \/ Hi(e) <= o
    BY SpotIs DEF Doing
  <2>4. \A e \in V : \/ o < Lo(e) \/ Hi(e) <= o
    <3> HIDE DEF o
    <3> QED BY <2>1, <2>2, <2>3
  <2> QED BY <2>1, <2>2, <2>4
<1>2. Maps(b, N, RankOf, lost, marks) /\ ToSet(b.text) = Remains(V, P, A)
  BY DEF Edits
<1>3. /\ s \in Seq(Character) /\ Sorted(s, RankOf) /\ Ranked(s, RankOf, 2 * o + 1)
      /\ ToSet(s) = {<<t[1], t[2], 1>>, <<t[1], t[2], 2>>}
  BY <1>1, InsertedIs DEF Spot
<1> HIDE DEF N, o
<1>4. o \notin lost
  <2>1. \A e \in V : o <= Lo(e) \/ Hi(e) <= o
    BY <1>1
  <2>2. \A p \in P : o < Left(p) - 1 \/ Right(p) <= o
    BY <1>1
  <2> QED BY <1>1, <2>1, <2>2, NotLost
<1>5. ~IsCut(V, P, 2 * o + 1)
  <2>1. \A e \in V : ~(2 * Lo(e) < 2 * o + 1 /\ 2 * o + 1 <= 2 * Hi(e))
    BY <1>1
  <2>2. \A p \in P : ~(2 * Left(p) < 2 * o + 1 /\ 2 * o + 1 <= 2 * Right(p))
    BY <1>1
  <2> QED BY <2>1, <2>2 DEF IsCut
<1>6. NewTo(s, b.text)
  <2> SUFFICES ASSUME NEW c \in ToSet(b.text), NEW x \in ToSet(s), c[1] = x[1], c[2] = x[2]
               PROVE  FALSE
    BY DEF NewTo
  <2>1. x[1] = t[1] /\ x[2] = t[2]
    BY <1>3
  <2>2. c \in ToSet(Text) \/ (\E a \in A : c \in Made(a)) \/ (\E p \in P : c \in Made(SetCall(p)))
    BY <1>2 DEF Remains
  <2>3. CASE c \in ToSet(Text)
    <3>1. c[1] = "text"
      BY <2>3, Sizes, TextHas
    <3> QED BY <1>1, <2>1, <3>1
  <2>4. ASSUME NEW a \in A, c \in Made(a) PROVE FALSE
    <3>1. a = <<a[1], a[2]>> /\ c[1] = a[1] /\ c[2] = a[2]
      BY <2>4, MadeIs DEF Doing
    <3>2. a = t
      BY <1>1, <2>1, <3>1
    <3> QED BY <3>2
  <2>5. ASSUME NEW p \in P, c \in Made(SetCall(p)) PROVE FALSE
    <3>1. c[1] = "set"
      BY <2>5, CallIs DEF Doing
    <3>2. t[1] # "set"
      BY DEF Puts
    <3> QED BY <2>1, <3>1, <3>2
  <2> QED BY <2>2, <2>3, <2>4, <2>5
<1> DEFINE c == InsertText(b, o, s, after)
<1> HIDE DEF s
<1>7. /\ Maps(c, N, RankOf, lost \cup o..(o - 1), marks \cup {2 * o})
      /\ ToSet(c.text) = ToSet(b.text) \cup ToSet(s)
  <2>1. o \in 0..N /\ o \in o..N /\ RankOf \in Ranks /\ N \in Nat
    BY <1>1, RankIs
  <2> HIDE DEF lost, marks
  <2>2. /\ Maps(b, N, RankOf, lost, marks) /\ s \in Seq(Character) /\ Sorted(s, RankOf)
        /\ Ranked(s, RankOf, 2 * o + 1) /\ o \notin lost
    BY <1>2, <1>3, <1>4
  <2>3. Becomes(c, N, RankOf, lost \cup o..(o - 1), marks \cup {2 * o}, ToSet(b.text) \cup ToSet(s))
    BY <1>6, <2>1, <2>2, InsertKeeps
  <2> HIDE DEF c
  <2> QED BY <2>3 DEF Becomes
<1>8. o..(o - 1) = {}
  BY <1>1
<1>9. Marks(V, P, B) = marks \cup {2 * o}
  <2>1. {2 * Spot(a) : a \in B} = {2 * Spot(a) : a \in A} \cup {2 * Spot(t)}
    OBVIOUS
  <2> QED BY <2>1 DEF Marks, marks, o
<1>10. ToSet(s) = Made(t)
  BY DEF Made, s
<1>11. Remains(V, P, B) = Remains(V, P, A) \cup Made(t)
  <2>1. \A x \in Made(t) : ~IsCut(V, P, RankOf[x])
    <3> SUFFICES ASSUME NEW x \in ToSet(s) PROVE RankOf[x] = 2 * o + 1
      BY <1>5, <1>10
    <3>1. \E k \in 1..Len(s) : x = s[k]
      BY <1>3 DEF ToSet
    <3> QED BY <1>3, <3>1 DEF Ranked
  <2>2. (UNION {Made(a) : a \in B}) = (UNION {Made(a) : a \in A}) \cup Made(t)
    OBVIOUS
  <2> QED BY <2>1, <2>2 DEF Remains
<1>12. Edits(c, V, P, B)
  <2>1. lost \cup o..(o - 1) = lost
    BY <1>8
  <2> HIDE DEF c, lost, marks
  <2>2. Maps(c, N, RankOf, lost, Marks(V, P, B))
    BY <1>7, <1>9, <2>1
  <2>3. ToSet(c.text) = Remains(V, P, B)
    BY <1>2, <1>7, <1>10, <1>11
  <2> QED BY <2>2, <2>3 DEF Edits, N, lost
<1>13. Doing(V, P, B)
  BY DEF Doing
<1> HIDE DEF c
<1>14. Doing(V, P, B) /\ Edits(c, V, P, B)
  BY <1>12, <1>13
<1> QED BY <1>14 DEF c, o, s
-----------------------------------------------------------------------------
(* A particle is told from the edits that were made before it.             *)
LEMMA ParticleIsThere ==
  ASSUME NEW V, NEW P, NEW A, Doing(V, P, A), NEW p \in Parts, p \notin P
  PROVE  /\ Left(p) \notin Lost(V, P) /\ Right(p) \notin Lost(V, P) /\ Left(p) - 1 \notin Lost(V, P)
         /\ 2 * Left(p) \notin Marks(V, P, A) /\ 2 * Left(p) - 1 \notin Marks(V, P, A)
         /\ 2 * Right(p) - 1 \notin Marks(V, P, A)
         /\ ~IsCut(V, P, 2 * (Left(p) - 1) + 1)
<1> DEFINE l == Left(p)
           r == Right(p)
<1>1. l \in Nat /\ r \in Nat /\ l >= 1 /\ l + 1 < r - 1
  BY RightIs DEF Doing, Ready
<1>2. ASSUME NEW e \in V
      PROVE  Hi(e) < l - 1 \/ r < Lo(e) \/ (l < Lo(e) /\ Hi(e) < r - 1)
  BY VarPart DEF Doing
<1>3. ASSUME NEW q \in P
      PROVE  r < Left(q) - 1 \/ Right(q) < l - 1
  BY PartsApart DEF Doing
<1>4. ASSUME NEW t \in A
      PROVE  Spot(t) < l - 1 \/ r < Spot(t) \/ (l < Spot(t) /\ Spot(t) < r - 1)
  BY SpotIs DEF Doing
<1>5. /\ \A e \in V : Lo(e) \in Nat /\ Hi(e) \in Nat /\ Lo(e) < Hi(e)
      /\ \A q \in P : Left(q) \in Nat /\ Right(q) \in Nat /\ Left(q) + 1 < Right(q) - 1
      /\ \A t \in A : Spot(t) \in Nat
  BY Sizes
<1> HIDE DEF l, r
<1>6. \A x \in {l, r, l - 1} : x \notin Lost(V, P)
  <2> SUFFICES ASSUME NEW x \in {l, r, l - 1} PROVE x \notin Lost(V, P)
    OBVIOUS
  <2>0. x \in Int /\ l - 1 <= x /\ x <= r /\ (x <= l \/ x = r)
    BY <1>1
  <2>1. \A e \in V : x <= Lo(e) \/ Hi(e) <= x
    BY <1>1, <1>2, <1>5, <2>0
  <2>2. \A q \in P : x < Left(q) - 1 \/ Right(q) <= x
    BY <1>1, <1>3, <1>5, <2>0
  <2> QED BY <2>0, <2>1, <2>2, NotLost
<1>7. \A i \in {2 * l, 2 * l - 1, 2 * r - 1} : i \notin Marks(V, P, A)
  <2> SUFFICES ASSUME NEW i \in {2 * l, 2 * l - 1, 2 * r - 1} PROVE i \notin Marks(V, P, A)
    OBVIOUS
  <2>0. i \in Int /\ 2 * l - 1 <= i /\ i <= 2 * r /\ (i <= 2 * l \/ i = 2 * r - 1)
    BY <1>1
  <2>1. \A e \in V : i # 2 * Lo(e) + 1
    BY <1>1, <1>2, <1>5, <2>0
  <2>2. \A q \in P : i # 2 * Left(q) + 1 /\ i # 2 * (Right(q) - 1)
    BY <1>1, <1>3, <1>5, <2>0
  <2>3. \A t \in A : i # 2 * Spot(t)
    BY <1>1, <1>4, <1>5, <2>0
  <2> QED BY <2>1, <2>2, <2>3, NotMarked
<1>8. ~IsCut(V, P, 2 * (l - 1) + 1)
  <2>1. \A e \in V : ~(2 * Lo(e) < 2 * (l - 1) + 1 /\ 2 * (l - 1) + 1 <= 2 * Hi(e))
    BY <1>1, <1>2, <1>5
  <2>2. \A q \in P : ~(2 * Left(q) < 2 * (l - 1) + 1 /\ 2 * (l - 1) + 1 <= 2 * Right(q))
    BY <1>1, <1>3, <1>5
  <2> QED BY <2>1, <2>2 DEF IsCut
<1>9. /\ l \notin Lost(V, P) /\ r \notin Lost(V, P) /\ l - 1 \notin Lost(V, P)
      /\ 2 * l \notin Marks(V, P, A) /\ 2 * l - 1 \notin Marks(V, P, A)
      /\ 2 * r - 1 \notin Marks(V, P, A)
  BY <1>6, <1>7
<1> QED BY <1>8, <1>9 DEF l, r

(* Two cuts are the same place when nothing stands between their ranks.    *)
LEMMA SameCut ==
  ASSUME NEW text \in Seq(Character), NEW m, NEW n, NEW r, NEW s,
         CutAt(text, RankOf, m, r), CutAt(text, RankOf, n, s),
         \A k \in 1..Len(text) : RankOf[text[k]] <= r <=> RankOf[text[k]] <= s
  PROVE  m = n /\ m \in Nat
<1>1. Len(text) \in Nat
  BY LenProperties
<1>2. m \in 0..Len(text) /\ n \in 0..Len(text) /\ \A k \in 1..Len(text) : k <= m <=> k <= n
  BY DEF CutAt
<1>3. ~(m < n)
  <2> SUFFICES ASSUME m < n PROVE FALSE
    OBVIOUS
  <2>1. n \in 1..Len(text) /\ n <= n /\ ~(n <= m)
    BY <1>1, <1>2
  <2> QED BY <1>2, <2>1
<1>4. ~(n < m)
  <2> SUFFICES ASSUME n < m PROVE FALSE
    OBVIOUS
  <2>1. m \in 1..Len(text) /\ m <= m /\ ~(m <= n)
    BY <1>1, <1>2
  <2> QED BY <1>2, <2>1
<1> QED BY <1>1, <1>2, <1>3, <1>4

(* The two cuts of an offset without a mark are one.                       *)
LEMMA OneCut ==
  ASSUME NEW N \in Nat, NEW b, NEW lost, NEW marks, Maps(b, N, RankOf, lost, marks),
         NEW x \in 1..N, 2 * x - 1 \notin marks
  PROVE  Mapped(b, x, FALSE) = Mapped(b, x - 1, TRUE) + 1 /\ Mapped(b, x - 1, TRUE) \in Int
<1>1. b.deltas \in [0..(2 * N + 1) -> Int]
  BY DEF Maps, Buffers
<1> DEFINE i == 2 * x - 1
<1>2. i \in 0..(2 * N) /\ i + 1 = 2 * x /\ i = 2 * (x - 1) + 1 /\ x - 1 \in 0..N /\ x \in 0..N
      /\ i \in 0..(2 * N + 1)
  OBVIOUS
<1> HIDE DEF i
<1>3. b.deltas[i] = b.deltas[i + 1]
  <2>1. i \notin marks
    BY DEF i
  <2> QED BY <1>2, <2>1, NoChange
<1>4. Mapped(b, x, FALSE) = x + b.deltas[2 * x]
  BY <1>1, <1>2, MappedIs
<1>5. Mapped(b, x - 1, TRUE) = (x - 1) + b.deltas[2 * (x - 1) + 1] /\ Mapped(b, x - 1, TRUE) \in Int
  BY <1>1, <1>2, MappedIs
<1> DEFINE y == b.deltas[i]
           u == Mapped(b, x, FALSE)
           v == Mapped(b, x - 1, TRUE)
<1>6. u = x + y /\ v = (x - 1) + y /\ y \in Int
  BY <1>1, <1>2, <1>3, <1>4, <1>5
<1> HIDE DEF y, u, v
<1>7. u = v + 1 /\ v \in Int
  BY <1>6
<1> QED BY <1>7 DEF u, v
-----------------------------------------------------------------------------
(* No part of the call of a particle that is still there is in the text.   *)
LEMMA CallIsNew ==
  ASSUME NEW V, NEW P, NEW A, Doing(V, P, A), NEW p \in Parts, p \notin P,
         NEW text, ToSet(text) \subseteq Remains(V, P, A)
  PROVE  NewTo(Inserted("set", p.id), text)
<1> SUFFICES ASSUME NEW c \in ToSet(text), NEW x \in ToSet(Inserted("set", p.id)), c[1] = x[1], c[2] = x[2]
             PROVE  FALSE
  BY DEF NewTo
<1>1. ToSet(Inserted("set", p.id)) = Made(SetCall(p))
  BY DEF Made, SetCall
<1>2. x[1] = "set" /\ x[2] = p.id
  BY <1>1, CallIs DEF Doing
<1>3. c \in ToSet(Text) \/ (\E a \in A : c \in Made(a)) \/ (\E q \in P : c \in Made(SetCall(q)))
  BY DEF Remains
<1>4. CASE c \in ToSet(Text)
  <2>1. c[1] = "text"
    BY <1>4, Sizes, TextHas
  <2> QED BY <1>2, <2>1
<1>5. ASSUME NEW a \in A, c \in Made(a) PROVE FALSE
  <2>1. c[1] = a[1]
    BY <1>5, MadeIs DEF Doing
  <2>2. a[1] # "set"
    BY DEF Puts, Doing
  <2> QED BY <1>2, <2>1, <2>2
<1>6. ASSUME NEW q \in P, c \in Made(SetCall(q)) PROVE FALSE
  <2>1. c[2] = q.id
    BY <1>6, CallIs DEF Doing
  <2>2. q.id # p.id
    BY PartsApart DEF Doing
  <2> QED BY <1>2, <2>1, <2>2
<1> QED BY <1>3, <1>4, <1>5, <1>6

(* A particle is replaced.                                                 *)
LEMMA ParticleReplaced ==
  ASSUME NEW V, NEW P, NEW A, Doing(V, P, A), NEW b, Edits(b, V, P, A),
         NEW p \in Parts, p \notin P
  PROVE  Doing(V, P \cup {p}, A) /\ Edits(ReplaceParticle(b, p), V, P \cup {p}, A)
<1> DEFINE N == Offset[Eof]
           lost == Lost(V, P)
           marks == Marks(V, P, A)
           l == Left(p)
           r == Right(p)
           y == r - 1
           s == Inserted("set", p.id)
           S == Remains(V, P, A)
<1>1. /\ N \in Nat /\ l \in Nat /\ r \in Nat /\ l >= 1 /\ l + 1 < r - 1 /\ r < N
      /\ Offset[p.begin] = l /\ Offset[p.end] = y /\ TokenLength(Offset[p.end]) = 1
  <2>1. Offset[Eof] \in Nat
    BY Sizes
  <2> QED BY <2>1, RightIs DEF Doing, Ready, Left
<1>2. /\ l \notin lost /\ r \notin lost /\ l - 1 \notin lost
      /\ 2 * l \notin marks /\ 2 * l - 1 \notin marks /\ 2 * r - 1 \notin marks
      /\ ~IsCut(V, P, 2 * (l - 1) + 1)
  BY ParticleIsThere
<1>3. Maps(b, N, RankOf, lost, marks) /\ ToSet(b.text) = S
  BY DEF Edits
<1>4. ReplaceParticle(b, p) = InsertText(RemoveText(b, l, RangeSize(b, l, y, 1)), y, s, TRUE)
  <2> HIDE DEF l, y
  <2> QED BY <1>1 DEF ReplaceParticle, RemoveRange, InsertTextAfter
<1>5. Anchor("set", p.id) = l - 1 /\ l - 1 \in Nat /\ p.id \in Nat
  BY CallIs DEF Doing
<1>6. /\ s \in Seq(Character) /\ Sorted(s, RankOf) /\ Ranked(s, RankOf, 2 * (l - 1) + 1)
  BY <1>5, InsertedIs
<1>7. ToSet(s) = Made(SetCall(p)) /\ \A x \in Made(SetCall(p)) : RankOf[x] = 2 * (l - 1) + 1
  BY CallIs DEF Doing, Made, SetCall
<1> HIDE DEF N, lost, marks, l, r, s, S
<1>8. RankOf \in Ranks /\ l \in 0..N /\ r \in 0..N /\ l < r /\ r \in 1..N /\ l \in 1..N
  BY <1>1, RankIs
<1>9. RangeSize(b, l, y, 1) = SizeOf(b, l, r)
  <2> DEFINE ml == Mapped(b, l, FALSE)
             mr == Mapped(b, r, FALSE)
             my == Mapped(b, r - 1, TRUE)
  <2>1. mr = my + 1 /\ my \in Int
    BY <1>1, <1>2, <1>3, <1>8, OneCut
  <2>2. ml \in Int
    <3>1. b.deltas \in [0..(2 * N + 1) -> Int]
      BY <1>3 DEF Maps, Buffers
    <3> QED BY <1>1, <1>8, <3>1, MappedIs
  <2> HIDE DEF ml, mr, my
  <2>3. my + (1 - ml) = mr - ml
    BY <2>1, <2>2
  <2> QED BY <2>3 DEF RangeSize, SizeOf, ml, mr, my
<1> DEFINE c == RemoveText(b, l, SizeOf(b, l, r))
           lost1 == lost \cup (l + 1)..(r - 1)
           marks1 == marks \cup {2 * l + 1}
<1>10. Becomes(c, N, RankOf, lost1, marks1, Spared(S, RankOf, 2 * l, 2 * r))
  <2>1. Reaches(b.text, RankOf, 2 * r)
    BY <1>1, LastStays DEF N
  <2>2. N \in Nat /\ l \notin lost /\ r \notin lost /\ 2 * l \notin marks /\ Maps(b, N, RankOf, lost, marks)
    BY <1>1, <1>2, <1>3
  <2>3. Becomes(c, N, RankOf, lost1, marks1, Spared(ToSet(b.text), RankOf, 2 * l, 2 * r))
    BY <1>8, <2>1, <2>2, RemoveKeeps
  <2> HIDE DEF c, lost1, marks1
  <2> QED BY <1>3, <2>3
<1> HIDE DEF c
<1>11. /\ Maps(c, N, RankOf, lost1, marks1) /\ ToSet(c.text) = Spared(S, RankOf, 2 * l, 2 * r)
       /\ c.text \in Seq(Character)
  <2> HIDE DEF lost1, marks1
  <2> QED BY <1>10 DEF Becomes, Maps, Buffers
<1>12. /\ l \notin lost1 /\ r \notin lost1 /\ l - 1 \notin lost1 /\ r - 1 \in lost1
       /\ 2 * l - 1 \notin marks1 /\ 2 * r - 1 \notin marks1
  BY <1>1, <1>2
<1> HIDE DEF lost1, marks1
<1>13. Mapped(c, y, TRUE) = Mapped(c, l - 1, TRUE)
  <2> DEFINE ml == Mapped(c, l, FALSE)
             mr == Mapped(c, r, FALSE)
             my == Mapped(c, r - 1, TRUE)
             mx == Mapped(c, l - 1, TRUE)
  <2>1. mr = my + 1 /\ my \in Int
    BY <1>1, <1>8, <1>11, <1>12, OneCut
  <2>2. ml = mx + 1 /\ mx \in Int
    BY <1>1, <1>8, <1>11, <1>12, OneCut
  <2>3. CutAt(c.text, RankOf, ml, 2 * l) /\ CutAt(c.text, RankOf, mr, 2 * r)
    BY <1>8, <1>11, <1>12 DEF Maps
  <2>4. \A k \in 1..Len(c.text) : RankOf[c.text[k]] <= 2 * l <=> RankOf[c.text[k]] <= 2 * r
    <3> SUFFICES ASSUME NEW k \in 1..Len(c.text)
                 PROVE  RankOf[c.text[k]] <= 2 * l <=> RankOf[c.text[k]] <= 2 * r
      OBVIOUS
    <3> DEFINE x == c.text[k]
               z == RankOf[x]
    <3>1. x \in Character /\ x \in ToSet(c.text)
      <4>1. k \in DOMAIN c.text
        BY <1>11
      <4> QED BY <1>11, <4>1, ElementOfSeq DEF ToSet
    <3> HIDE DEF x
    <3>2. z \in Int
      BY <1>8, <3>1 DEF Ranks
    <3>3. ~(2 * l < z /\ z <= 2 * r)
      BY <1>11, <3>1 DEF Spared
    <3> HIDE DEF z
    <3>4. z <= 2 * l <=> z <= 2 * r
      BY <1>1, <3>2, <3>3
    <3> QED BY <3>4 DEF z, x
  <2> HIDE DEF ml, mr, my, mx
  <2>5. ml = mr
    BY <1>11, <2>3, <2>4, SameCut
  <2>6. my = mx
    BY <2>1, <2>2, <2>5
  <2> QED BY <2>6 DEF my, mx
<1> DEFINE d == InsertText(c, y, s, TRUE)
<1>14. Becomes(d, N, RankOf, lost1 \cup (l - 1)..(y - 1), marks1 \cup {2 * y}, ToSet(c.text) \cup ToSet(s))
  <2>1. NewTo(s, c.text)
    <3>1. ToSet(c.text) \subseteq S
      BY <1>11 DEF Spared
    <3> QED BY <3>1, CallIsNew DEF s, S
  <2>2. l - 1 \in 0..N /\ y \in (l - 1)..N /\ TRUE \in BOOLEAN /\ N \in Nat /\ y \in lost1 /\ l - 1 \notin lost1
    BY <1>1, <1>12
  <2> HIDE DEF y
  <2> QED BY <1>6, <1>8, <1>11, <1>13, <2>1, <2>2, InsertKeeps
<1> HIDE DEF d
<1>15. d = ReplaceParticle(b, p)
  BY <1>4, <1>9 DEF c, d
<1> DEFINE Q == P \cup {p}
<1>16. Lost(V, Q) = lost1 \cup (l - 1)..(y - 1)
  <2>1. (UNION {(Left(q) - 1)..(Right(q) - 1) : q \in Q}) =
          (UNION {(Left(q) - 1)..(Right(q) - 1) : q \in P}) \cup (l - 1)..(r - 1)
    BY DEF l, r
  <2>2. (l + 1)..(r - 1) \cup (l - 1)..(y - 1) = (l - 1)..(r - 1)
    BY <1>1
  <2>3. lost1 \cup (l - 1)..(y - 1) = lost \cup (l - 1)..(r - 1)
    BY <2>2 DEF lost1
  <2> QED BY <2>1, <2>3 DEF Lost, lost
<1>17. Marks(V, Q, A) = marks1 \cup {2 * y}
  <2>1. {2 * Left(q) + 1 : q \in Q} = {2 * Left(q) + 1 : q \in P} \cup {2 * l + 1}
    BY DEF l
  <2>2. {2 * (Right(q) - 1) : q \in Q} = {2 * (Right(q) - 1) : q \in P} \cup {2 * y}
    BY DEF r
  <2> QED BY <2>1, <2>2 DEF Marks, marks, marks1
<1>18. Remains(V, Q, A) = Spared(S, RankOf, 2 * l, 2 * r) \cup Made(SetCall(p))
  <2>1. \A z : IsCut(V, Q, z) <=> (IsCut(V, P, z) \/ (2 * l < z /\ z <= 2 * r))
    BY DEF IsCut, l, r
  <2>2. \A x \in Made(SetCall(p)) : ~IsCut(V, Q, RankOf[x])
    <3>1. ~(2 * l < 2 * (l - 1) + 1)
      BY <1>1
    <3>2. ~IsCut(V, Q, 2 * (l - 1) + 1)
      BY <1>2, <2>1, <3>1
    <3> QED BY <1>7, <3>2
  <2>3. (UNION {Made(SetCall(q)) : q \in Q}) = (UNION {Made(SetCall(q)) : q \in P}) \cup Made(SetCall(p))
    OBVIOUS
  <2> DEFINE T == ToSet(Text) \cup (UNION {Made(t) : t \in A}) \cup (UNION {Made(SetCall(q)) : q \in P})
  <2>4. Remains(V, Q, A) = {x \in T \cup Made(SetCall(p)) : ~IsCut(V, Q, RankOf[x])}
    BY <2>3 DEF Remains
  <2>5. S = {x \in T : ~IsCut(V, P, RankOf[x])}
    BY DEF Remains, S
  <2> HIDE DEF T, Q
  <2>6. \A x : x \in Remains(V, Q, A) <=> x \in T \cup Made(SetCall(p)) /\ ~IsCut(V, Q, RankOf[x])
    BY <2>4
  <2>7. \A x : x \in Spared(S, RankOf, 2 * l, 2 * r) <=> x \in T /\ ~IsCut(V, Q, RankOf[x])
    BY <2>1, <2>5 DEF Spared
  <2> QED BY <2>2, <2>6, <2>7
<1>19. Edits(d, V, Q, A)
  <2> HIDE DEF Q
  <2>1. Maps(d, N, RankOf, Lost(V, Q), Marks(V, Q, A)) /\ ToSet(d.text) = ToSet(c.text) \cup ToSet(s)
    BY <1>14, <1>16, <1>17 DEF Becomes
  <2>2. ToSet(d.text) = Remains(V, Q, A)
    BY <1>7, <1>11, <1>18, <2>1
  <2> QED BY <2>1, <2>2 DEF Edits, N
<1>20. Doing(V, Q, A)
  BY DEF Doing
<1> QED BY <1>15, <1>19, <1>20
-----------------------------------------------------------------------------
(* The loops of a scope's rewriting, turn by turn.                         *)
Clears(text, b, s) ==
  /\ Cleared(b, s) = text[Len(s.vars)] /\ text[0] = b
  /\ \A k \in 1..Len(s.vars) : text[k] = RemoveVariable(text[k - 1], s.vars[k])

Replaces(text, b, s) ==
  /\ Replaced(b, s) = text[Len(particles)] /\ text[0] = b
  /\ \A k \in 1..Len(particles) :
       text[k] = IF k \in s.particles THEN ReplaceParticle(text[k - 1], particles[k])
                 ELSE text[k - 1]

LEMMA ClearedSteps ==
  ASSUME NEW b, NEW s, NEW n \in Nat, Len(s.vars) = n
  PROVE  \E text : Clears(text, b, s)
<1> DEFINE turn(u, k) == RemoveVariable(u, s.vars[k])
           IsText(u) == u = [k \in 0..n |-> IF k = 0 THEN b ELSE turn(u[k - 1], k)]
           text == CHOOSE u : IsText(u)
<1>1. Cleared(b, s) = text[n]
  BY Zenon DEF Cleared
<1>2. IsText(text)
  <2> DEFINE Rec(m, u) == \A k \in 0..m : u[k] = IF k = 0 THEN b ELSE turn(u[k - 1], k)
             I == {m \in Nat : \E u : Rec(m, u)}
  <2> HIDE DEF turn
  <2>1. 0 \in I
    <3>1. Rec(0, [k \in 0..0 |-> b])
      OBVIOUS
    <3> QED BY <3>1
  <2>2. ASSUME NEW m \in I PROVE m + 1 \in I
    <3>1. PICK u : Rec(m, u)
      OBVIOUS
    <3> DEFINE v == [k \in 0..(m + 1) |-> IF k <= m THEN u[k] ELSE turn(u[m], m + 1)]
    <3>2. Rec(m + 1, v)
      <4>1. \A k \in 0..(m + 1) : v[k] = IF k <= m THEN u[k] ELSE turn(u[m], m + 1)
        OBVIOUS
      <4>2. ASSUME NEW k \in 0..(m + 1)
            PROVE  v[k] = IF k = 0 THEN b ELSE turn(v[k - 1], k)
        <5>1. CASE k <= m
          <6>1. k \in 0..m /\ (k # 0 => k - 1 \in 0..(m + 1) /\ k - 1 <= m)
            BY <5>1
          <6>2. v[k] = u[k] /\ (k # 0 => v[k - 1] = u[k - 1])
            BY <4>1, <5>1, <6>1
          <6> QED BY <3>1, <6>1, <6>2
        <5>2. CASE ~(k <= m)
          <6>1. k = m + 1 /\ k # 0 /\ k - 1 = m /\ m \in 0..(m + 1) /\ m <= m
            BY <5>2
          <6>2. v[m] = u[m]
            BY <4>1, <6>1
          <6>3. v[k] = turn(u[m], m + 1)
            BY <4>1, <5>2
          <6> QED BY <6>1, <6>2, <6>3
        <5> QED BY <5>1, <5>2
      <4> QED BY <4>2
    <3> HIDE DEF v
    <3>3. m + 1 \in Nat
      OBVIOUS
    <3> HIDE DEF Rec
    <3> QED BY <3>2, <3>3
  <2>3. n \in I
    <3>1. I \in SUBSET Nat
      OBVIOUS
    <3> HIDE DEF I
    <3> QED BY <2>1, <2>2, <3>1, InductiveSet
  <2>4. PICK u : Rec(n, u)
    BY <2>3
  <2> DEFINE v == [k \in 0..n |-> u[k]]
  <2>5. IsText(v)
    <3>1. \A k \in 0..n : k # 0 => k - 1 \in 0..n
      OBVIOUS
    <3>2. \A k \in 0..n : v[k] = u[k]
      OBVIOUS
    <3>3. \A k \in 0..n : v[k] = IF k = 0 THEN b ELSE turn(v[k - 1], k)
      BY <2>4, <3>1, <3>2
    <3>4. v = [k \in 0..n |-> v[k]]
      OBVIOUS
    <3> HIDE DEF v
    <3> QED BY <3>3, <3>4
  <2> HIDE DEF IsText, v
  <2> QED BY <2>5
<1> HIDE DEF text, turn
<1>3. \A k \in 0..n : text[k] = IF k = 0 THEN b ELSE turn(text[k - 1], k)
  BY <1>2
<1>4. 0 \in 0..n /\ \A k \in 1..n : k \in 0..n /\ k # 0
  OBVIOUS
<1>5. text[0] = b /\ \A k \in 1..n : text[k] = turn(text[k - 1], k)
  BY <1>3, <1>4
<1> QED BY <1>1, <1>5 DEF turn, Clears

LEMMA ReplacedSteps ==
  ASSUME NEW b, NEW s, NEW n \in Nat, Len(particles) = n
  PROVE  \E text : Replaces(text, b, s)
<1> DEFINE turn(u, k) == IF k \in s.particles THEN ReplaceParticle(u, particles[k]) ELSE u
           IsText(u) == u = [k \in 0..n |-> IF k = 0 THEN b ELSE turn(u[k - 1], k)]
           text == CHOOSE u : IsText(u)
<1>1. Replaced(b, s) = text[n]
  BY Zenon DEF Replaced
<1>2. IsText(text)
  <2> DEFINE Rec(m, u) == \A k \in 0..m : u[k] = IF k = 0 THEN b ELSE turn(u[k - 1], k)
             I == {m \in Nat : \E u : Rec(m, u)}
  <2> HIDE DEF turn
  <2>1. 0 \in I
    <3>1. Rec(0, [k \in 0..0 |-> b])
      OBVIOUS
    <3> QED BY <3>1
  <2>2. ASSUME NEW m \in I PROVE m + 1 \in I
    <3>1. PICK u : Rec(m, u)
      OBVIOUS
    <3> DEFINE v == [k \in 0..(m + 1) |-> IF k <= m THEN u[k] ELSE turn(u[m], m + 1)]
    <3>2. Rec(m + 1, v)
      <4>1. \A k \in 0..(m + 1) : v[k] = IF k <= m THEN u[k] ELSE turn(u[m], m + 1)
        OBVIOUS
      <4>2. ASSUME NEW k \in 0..(m + 1)
            PROVE  v[k] = IF k = 0 THEN b ELSE turn(v[k - 1], k)
        <5>1. CASE k <= m
          <6>1. k \in 0..m /\ (k # 0 => k - 1 \in 0..(m + 1) /\ k - 1 <= m)
            BY <5>1
          <6>2. v[k] = u[k] /\ (k # 0 => v[k - 1] = u[k - 1])
            BY <4>1, <5>1, <6>1
          <6> QED BY <3>1, <6>1, <6>2
        <5>2. CASE ~(k <= m)
          <6>1. k = m + 1 /\ k # 0 /\ k - 1 = m /\ m \in 0..(m + 1) /\ m <= m
            BY <5>2
          <6>2. v[m] = u[m]
            BY <4>1, <6>1
          <6>3. v[k] = turn(u[m], m + 1)
            BY <4>1, <5>2
          <6> QED BY <6>1, <6>2, <6>3
        <5> QED BY <5>1, <5>2
      <4> QED BY <4>2
    <3> HIDE DEF v
    <3>3. m + 1 \in Nat
      OBVIOUS
    <3> HIDE DEF Rec
    <3> QED BY <3>2, <3>3
  <2>3. n \in I
    <3>1. I \in SUBSET Nat
      OBVIOUS
    <3> HIDE DEF I
    <3> QED BY <2>1, <2>2, <3>1, InductiveSet
  <2>4. PICK u : Rec(n, u)
    BY <2>3
  <2> DEFINE v == [k \in 0..n |-> u[k]]
  <2>5. IsText(v)
    <3>1. \A k \in 0..n : k # 0 => k - 1 \in 0..n
      OBVIOUS
    <3>2. \A k \in 0..n : v[k] = u[k]
      OBVIOUS
    <3>3. \A k \in 0..n : v[k] = IF k = 0 THEN b ELSE turn(v[k - 1], k)
      BY <2>4, <3>1, <3>2
    <3>4. v = [k \in 0..n |-> v[k]]
      OBVIOUS
    <3> HIDE DEF v
    <3> QED BY <3>3, <3>4
  <2> HIDE DEF IsText, v
  <2> QED BY <2>5
<1> HIDE DEF text, turn
<1>3. \A k \in 0..n : text[k] = IF k = 0 THEN b ELSE turn(text[k - 1], k)
  BY <1>2
<1>4. 0 \in 0..n /\ \A k \in 1..n : k \in 0..n /\ k # 0
  OBVIOUS
<1>5. text[0] = b /\ \A k \in 1..n : text[k] = turn(text[k - 1], k)
  BY <1>3, <1>4
<1> QED BY <1>1, <1>5 DEF turn, Replaces

(* Nothing has been edited yet.                                            *)
LEMMA FreshIs ==
  ASSUME Ready
  PROVE  Doing({}, {}, {}) /\ Edits(Fresh(Text), {}, {}, {})
<1> DEFINE N == Offset[Eof]
           b == Fresh(Text)
<1>1. /\ src \in Sources /\ N \in Nat /\ Text \in Seq(Character) /\ Len(Text) = N
      /\ \A n \in 1..N : Text[n] = Char(n)
  BY TextIs DEF Ready, TypeInv, IsTyped
<1> HIDE DEF N
<1>2. /\ b.text = Text /\ b.invalid = FALSE /\ b.deltas = [i \in 0..(2 * N + 1) |-> 0]
      /\ b \in Buffers(Seq(Character), [0..(2 * N + 1) -> Int])
  BY <1>1 DEF Fresh, Buffers
<1> HIDE DEF b
<1>3. \A k \in 1..N : RankOf[Text[k]] = 2 * k /\ Text[k][1] = "text" /\ Text[k][2] = k
  <2> SUFFICES ASSUME NEW k \in 1..N
               PROVE  RankOf[Text[k]] = 2 * k /\ Text[k][1] = "text" /\ Text[k][2] = k
    OBVIOUS
  <2>1. k \in Nat /\ Text[k] = Char(k)
    BY <1>1
  <2> QED BY <2>1, RankIs, CharIs
<1>4. Sorted(Text, RankOf)
  <2> SUFFICES ASSUME NEW j \in 1..N, NEW k \in 1..N, j < k PROVE InOrder(Text[j], Text[k], RankOf)
    BY <1>1 DEF Sorted
  <2>1. 2 * j <= 2 * k /\ j # k
    BY <1>1
  <2> QED BY <1>3, <2>1 DEF InOrder
<1>5. ASSUME NEW x \in 0..N
      PROVE  CutAt(Text, RankOf, Mapped(b, x, FALSE), 2 * x) /\ CutAt(Text, RankOf, Mapped(b, x, TRUE), 2 * x + 1)
  <2>1. Mapped(b, x, FALSE) = x /\ Mapped(b, x, TRUE) = x
    <3>1. b.deltas \in [0..(2 * N + 1) -> Int]
      BY <1>2
    <3>2. Mapped(b, x, FALSE) = x + b.deltas[2 * x] /\ Mapped(b, x, TRUE) = x + b.deltas[2 * x + 1]
      BY <1>1, <3>1, MappedIs
    <3>3. 2 * x \in 0..(2 * N + 1) /\ 2 * x + 1 \in 0..(2 * N + 1)
      BY <1>1
    <3>4. b.deltas[2 * x] = 0 /\ b.deltas[2 * x + 1] = 0
      BY <1>2, <3>3
    <3>5. x + 0 = x
      BY <1>1
    <3> QED BY <3>2, <3>4, <3>5, Zenon
  <2>2. \A k \in 1..N : (k <= x <=> 2 * k <= 2 * x) /\ (k <= x <=> 2 * k <= 2 * x + 1)
    BY <1>1
  <2>3. CutAt(Text, RankOf, x, 2 * x)
    BY <1>1, <1>3, <2>2 DEF CutAt
  <2>4. CutAt(Text, RankOf, x, 2 * x + 1)
    BY <1>1, <1>3, <2>2 DEF CutAt
  <2> QED BY <2>1, <2>3, <2>4
<1>6. \A i \in 0..(2 * N) : b.deltas[i] = b.deltas[i + 1]
  <2>1. \A i \in 0..(2 * N) : i \in 0..(2 * N + 1) /\ i + 1 \in 0..(2 * N + 1)
    BY <1>1
  <2> QED BY <1>2, <2>1
<1>7. Maps(b, N, RankOf, Lost({}, {}), Marks({}, {}, {}))
  BY <1>2, <1>4, <1>5, <1>6 DEF Maps
<1>8. Remains({}, {}, {}) = ToSet(Text)
  BY DEF Remains, IsCut
<1> QED BY <1>2, <1>7, <1>8 DEF Edits, Doing, N, b
-----------------------------------------------------------------------------
(* What has been edited when the scopes of T have been rewritten.          *)
VarsOf(T)  == {d \in Vars : Container(d.begin) \in T}
PartsOf(T) == {p \in Parts : Owners(p) \cap T # {}}
PutsOf(T)  == {"threads", "alloc", "undef"} \X T

(* The scope of f: its variables in order, and its particles.              *)
Lists(s, f) ==
  /\ s.vars \in Seq(Declarations) /\ ToSet(s.vars) = VariablesOf(f)
  /\ \A i, j \in 1..Len(s.vars) :
       i < j => s.vars[i].end <= s.vars[j].end /\ s.vars[i] # s.vars[j]
  /\ s.particles = Own(f)

LEMMA ScopesDoing ==
  ASSUME Ready, NEW T \in SUBSET Scopes
  PROVE  Doing(VarsOf(T), PartsOf(T), PutsOf(T))
BY DEF Doing, VarsOf, PartsOf, PutsOf, Puts

(* A particle has one owner.                                               *)
LEMMA OwnerIs ==
  ASSUME Ready, NEW p \in Parts, NEW f \in Owners(p), NEW g \in Owners(p)
  PROVE  f = g
BY DEF Ready, Plain, Parts

(* The loop that removes the variables.                                    *)
LEMMA ScopeCleared ==
  ASSUME Ready, NEW T \in SUBSET Scopes, NEW f \in Scopes \ T, NEW s, Lists(s, f),
         NEW b, Edits(b, VarsOf(T), PartsOf(T), PutsOf(T))
  PROVE  /\ Doing(VarsOf(T \cup {f}), PartsOf(T), PutsOf(T))
         /\ Edits(Cleared(b, s), VarsOf(T \cup {f}), PartsOf(T), PutsOf(T))
<1> DEFINE v == s.vars
           n == Len(v)
           P == PartsOf(T)
           A == PutsOf(T)
           V(k) == VarsOf(T) \cup {v[i] : i \in 1..k}
<1>1. n \in Nat /\ v \in Seq(Declarations) /\ ToSet(v) = VariablesOf(f)
  BY LenProperties DEF Lists
<1>2. \A i \in 1..n : v[i] \in VariablesOf(f)
  <2>1. \A i \in 1..n : i \in DOMAIN v
    BY <1>1
  <2> QED BY <1>1, <2>1 DEF ToSet
<1>3. VariablesOf(f) = {v[i] : i \in 1..n}
  <2>1. DOMAIN v = 1..n
    BY <1>1
  <2> QED BY <1>1, <2>1 DEF ToSet
<1>4. f \in Functions /\ f # 0 /\ f \notin T
  <2>1. f \in Nat /\ f \in 1..Len(src) /\ src \in Sources
    BY ScopeIs DEF Ready, TypeInv, IsTyped
  <2>2. Len(src) \in Nat
    BY <2>1, SourceType
  <2> QED BY <2>1, <2>2 DEF Scopes
<1>5. \A d \in VariablesOf(f) : d \in Vars /\ d \in Declarations /\ Container(d.begin) = f
  BY <1>4 DEF VariablesOf, Vars
<1>6. PICK text : /\ Cleared(b, s) = text[n] /\ text[0] = b
                  /\ \A k \in 1..n : text[k] = RemoveVariable(text[k - 1], v[k])
  <2>1. \E text : Clears(text, b, s)
    BY <1>1, ClearedSteps
  <2> QED BY <2>1 DEF Clears
<1> DEFINE I == {k \in Nat : k <= n => Doing(V(k), P, A) /\ Edits(text[k], V(k), P, A)}
<1>7. 0 \in I
  <2>1. V(0) = VarsOf(T)
    OBVIOUS
  <2>2. Doing(VarsOf(T), P, A)
    BY ScopesDoing
  <2> HIDE DEF P, A, V
  <2> QED BY <1>6, <2>1, <2>2 DEF P, A
<1>8. ASSUME NEW k \in I PROVE k + 1 \in I
  <2> SUFFICES ASSUME k + 1 <= n
               PROVE  Doing(V(k + 1), P, A) /\ Edits(text[k + 1], V(k + 1), P, A)
    OBVIOUS
  <2> DEFINE d == v[k + 1]
  <2>1. k + 1 \in 1..n /\ (k + 1) - 1 = k /\ k <= n /\ k \in Nat
    BY <1>1
  <2>2. Doing(V(k), P, A) /\ Edits(text[k], V(k), P, A)
    BY <2>1
  <2>3. text[k + 1] = RemoveVariable(text[k], d)
    BY <1>6, <2>1
  <2>4. d \in Vars /\ d \in Declarations /\ Container(d.begin) = f
    BY <1>2, <1>5, <2>1
  <2>5. V(k + 1) = V(k) \cup {d}
    <3>1. 1..(k + 1) = (1..k) \cup {k + 1}
      BY <2>1
    <3> QED BY <3>1
  <2>6. ASSUME NEW e \in V(k), e.begin = d.begin PROVE e.end < d.end
    <3>1. Container(e.begin) = f
      BY <2>4, <2>6
    <3>2. e \notin VarsOf(T)
      BY <1>4, <3>1 DEF VarsOf
    <3>3. PICK i \in 1..k : e = v[i]
      BY <2>6, <3>2
    <3>4. i \in 1..n /\ i < k + 1
      BY <1>1, <2>1
    <3>5. e.end <= d.end /\ e # d
      BY <2>1, <3>3, <3>4 DEF Lists
    <3>6. e \in Declarations
      BY <1>2, <1>5, <3>3, <3>4
    <3>7. /\ d = [begin |-> d.begin, end |-> d.end] /\ e = [begin |-> e.begin, end |-> e.end]
          /\ d.end \in 1..Len(src) /\ e.end \in 1..Len(src)
      BY <2>4, <3>6, Declared DEF Ready, TypeInv, IsTyped
    <3>8. e.end # d.end
      <4> SUFFICES ASSUME e.end = d.end PROVE FALSE
        OBVIOUS
      <4>1. [begin |-> e.begin, end |-> e.end] = [begin |-> d.begin, end |-> d.end]
        BY <2>6
      <4> HIDE DEF d
      <4> QED BY <3>5, <3>7, <4>1, Zenon
    <3> DEFINE x == e.end
               y == d.end
    <3>9. x <= y /\ x # y /\ x \in Int /\ y \in Int
      BY <3>5, <3>7, <3>8
    <3> HIDE DEF x, y
    <3>10. x < y
      BY <3>9
    <3> QED BY <3>10 DEF x, y
  <2>7. Removable(V(k), P, A, d)
    <3>1. \A p \in P : Container(d.begin) \notin Owners(p)
      <4> SUFFICES ASSUME NEW p \in P, f \in Owners(p) PROVE FALSE
        BY <2>4
      <4>1. p \in Parts
        BY DEF PartsOf
      <4>2. PICK g \in Owners(p) : g \in T
        BY DEF PartsOf
      <4> QED BY <1>4, <4>1, <4>2, OwnerIs
    <3>2. \A t \in A : t[1] = "alloc" => t[2] # Container(d.begin)
      BY <1>4, <2>4 DEF PutsOf
    <3> HIDE DEF V, P, A, d
    <3> QED BY <2>6, <3>1, <3>2 DEF Removable
  <2> HIDE DEF V, P, A, d
  <2>8. Doing(V(k) \cup {d}, P, A) /\ Edits(RemoveVariable(text[k], d), V(k) \cup {d}, P, A)
    BY <2>2, <2>4, <2>7, VariableRemoved
  <2> QED BY <2>3, <2>5, <2>8
<1>9. V(n) = VarsOf(T \cup {f})
  <2>1. V(n) = VarsOf(T) \cup VariablesOf(f)
    BY <1>3
  <2>2. \A d : d \in VariablesOf(f) <=> d \in Vars /\ Container(d.begin) = f
    BY <1>4, <1>5 DEF VariablesOf, Vars
  <2> HIDE DEF V
  <2>3. VarsOf(T) \cup VariablesOf(f) = VarsOf(T \cup {f})
    BY <2>2 DEF VarsOf
  <2> QED BY <2>1, <2>3
<1>10. n \in I
  <2>1. I \in SUBSET Nat
    OBVIOUS
  <2> HIDE DEF I
  <2>2. I = Nat
    BY <1>7, <1>8, <2>1, InductiveSet
  <2> QED BY <1>1, <2>2
<1> HIDE DEF V, P, A, n
<1>11. n \in Nat /\ n <= n
  BY <1>1 DEF n
<1>12. Doing(V(n), P, A) /\ Edits(text[n], V(n), P, A)
  BY <1>10, <1>11
<1> QED BY <1>6, <1>9, <1>12 DEF P, A
-----------------------------------------------------------------------------
(* The particles of the scope of f are those that f owns.                  *)
LEMMA OwnIs ==
  ASSUME Ready, NEW f \in Scopes
  PROVE  /\ \A n \in Own(f) : n \in 1..Len(particles) /\ particles[n] \in Parts /\ f \in Owners(particles[n])
         /\ \A p \in Parts : f \in Owners(p) => \E n \in Own(f) : p = particles[n]
         /\ \A m, n \in 1..Len(particles) : m # n => particles[m] # particles[n]
         /\ Len(particles) \in Nat
<1>1. particles \in Seq(ParticleSet) /\ f \in Functions /\ VariablesOf(f) # {}
  BY DEF Ready, TypeInv, IsTyped, Scopes
<1>2. Len(particles) \in Nat /\ DOMAIN particles = 1..Len(particles)
  BY <1>1, LenProperties
<1>3. \A m, n \in 1..Len(particles) : m # n => particles[m] # particles[n]
  BY DEF Ready, Registered
<1>4. ASSUME NEW n \in Own(f)
      PROVE  n \in 1..Len(particles) /\ particles[n] \in Parts /\ f \in Owners(particles[n])
  <2>1. n \in DOMAIN particles /\ InScope(f, particles[n])
    BY DEF Own
  <2>2. f \in Owners(particles[n])
    BY <1>1, <2>1 DEF Owners, InScope
  <2>3. particles[n] \in AllParticles
    BY <2>1 DEF AllParticles, ToSet
  <2> QED BY <1>2, <2>1, <2>2, <2>3 DEF Parts
<1>5. ASSUME NEW p \in Parts, f \in Owners(p) PROVE \E n \in Own(f) : p = particles[n]
  <2>1. PICK n \in DOMAIN particles : p = particles[n]
    BY DEF Parts, AllParticles, ToSet
  <2>2. InScope(f, p)
    BY <1>5 DEF Owners, InScope
  <2> QED BY <2>1, <2>2 DEF Own
<1> QED BY <1>2, <1>3, <1>4, <1>5

(* The loop that replaces the particles.                                   *)
LEMMA ScopeReplaced ==
  ASSUME Ready, NEW T \in SUBSET Scopes, NEW f \in Scopes \ T, NEW s, Lists(s, f),
         NEW V, NEW A, Doing(V, PartsOf(T), A), NEW b, Edits(b, V, PartsOf(T), A)
  PROVE  Doing(V, PartsOf(T \cup {f}), A) /\ Edits(Replaced(b, s), V, PartsOf(T \cup {f}), A)
<1> DEFINE n == Len(particles)
           S == Own(f)
           P(k) == PartsOf(T) \cup {particles[i] : i \in S \cap (1..k)}
<1>1. /\ n \in Nat /\ s.particles = S /\ f \notin T /\ f \in Scopes
      /\ \A i, j \in 1..n : i # j => particles[i] # particles[j]
  BY OwnIs DEF Lists
<1>2. \A i \in S : i \in 1..n /\ particles[i] \in Parts /\ f \in Owners(particles[i]) /\ particles[i] \notin PartsOf(T)
  <2> SUFFICES ASSUME NEW i \in S
               PROVE  i \in 1..n /\ particles[i] \in Parts /\ f \in Owners(particles[i]) /\ particles[i] \notin PartsOf(T)
    OBVIOUS
  <2>1. i \in 1..n /\ particles[i] \in Parts /\ f \in Owners(particles[i])
    BY OwnIs
  <2>2. ASSUME particles[i] \in PartsOf(T) PROVE FALSE
    <3>1. PICK g \in Owners(particles[i]) : g \in T
      BY <2>2 DEF PartsOf
    <3> QED BY <1>1, <2>1, <3>1, OwnerIs
  <2> QED BY <2>1, <2>2
<1>3. PICK text : /\ Replaced(b, s) = text[n] /\ text[0] = b
                  /\ \A k \in 1..n : text[k] = IF k \in S THEN ReplaceParticle(text[k - 1], particles[k])
                                               ELSE text[k - 1]
  <2>1. \E text : Replaces(text, b, s)
    BY <1>1, ReplacedSteps
  <2> QED BY <1>1, <2>1 DEF Replaces
<1> HIDE DEF S
<1> DEFINE I == {k \in Nat : k <= n => Doing(V, P(k), A) /\ Edits(text[k], V, P(k), A)}
<1>4. 0 \in I
  <2>1. P(0) = PartsOf(T)
    OBVIOUS
  <2> HIDE DEF P
  <2> QED BY <1>3, <2>1
<1>5. ASSUME NEW k \in I PROVE k + 1 \in I
  <2> SUFFICES ASSUME k + 1 <= n
               PROVE  Doing(V, P(k + 1), A) /\ Edits(text[k + 1], V, P(k + 1), A)
    OBVIOUS
  <2> DEFINE p == particles[k + 1]
  <2>1. k + 1 \in 1..n /\ (k + 1) - 1 = k /\ k <= n /\ k \in Nat
    BY <1>1
  <2>2. Doing(V, P(k), A) /\ Edits(text[k], V, P(k), A)
    BY <2>1
  <2>3. 1..(k + 1) = (1..k) \cup {k + 1}
    BY <2>1
  <2>4. CASE k + 1 \in S
    <3>1. text[k + 1] = ReplaceParticle(text[k], p)
      BY <1>3, <2>1, <2>4
    <3>2. P(k + 1) = P(k) \cup {p}
      BY <2>3, <2>4
    <3>3. p \in Parts /\ p \notin P(k)
      <4>1. \A i \in S \cap (1..k) : particles[i] # p
        <5> SUFFICES ASSUME NEW i \in S, i \in 1..k PROVE particles[i] # p
          OBVIOUS
        <5>1. i \in 1..n /\ i # k + 1
          BY <1>2, <2>1
        <5> QED BY <1>1, <2>1, <5>1
      <4> QED BY <1>2, <2>4, <4>1
    <3> HIDE DEF P, p
    <3>4. Doing(V, P(k) \cup {p}, A) /\ Edits(ReplaceParticle(text[k], p), V, P(k) \cup {p}, A)
      BY <2>2, <3>3, ParticleReplaced
    <3> QED BY <3>1, <3>2, <3>4
  <2>5. CASE k + 1 \notin S
    <3>1. text[k + 1] = text[k]
      BY <1>3, <2>1, <2>5
    <3>2. S \cap (1..(k + 1)) = S \cap (1..k)
      BY <2>3, <2>5
    <3>3. P(k + 1) = P(k)
      BY <3>2
    <3> HIDE DEF P
    <3> QED BY <2>2, <3>1, <3>3
  <2> QED BY <2>4, <2>5
<1>6. P(n) = PartsOf(T \cup {f})
  <2>1. S \cap (1..n) = S
    BY <1>2
  <2>2. \A p : p \in {particles[i] : i \in S} <=> p \in Parts /\ f \in Owners(p)
    BY <1>1, <1>2, OwnIs DEF S
  <2>3. \A p : p \in PartsOf(T \cup {f}) <=> p \in PartsOf(T) \/ (p \in Parts /\ f \in Owners(p))
    BY DEF PartsOf
  <2>4. P(n) = PartsOf(T) \cup {particles[i] : i \in S}
    BY <2>1
  <2> HIDE DEF P
  <2> QED BY <2>2, <2>3, <2>4
<1>7. n \in I
  <2>1. I \in SUBSET Nat
    OBVIOUS
  <2> HIDE DEF I
  <2>2. I = Nat
    BY <1>4, <1>5, <2>1, InductiveSet
  <2> QED BY <1>1, <2>2
<1> HIDE DEF P
<1>8. Doing(V, P(n), A) /\ Edits(text[n], V, P(n), A)
  BY <1>1, <1>7
<1> QED BY <1>3, <1>6, <1>8

(* The last variable listed is the last in the file.                       *)
LEMMA LastListed ==
  ASSUME Ready, NEW f \in Scopes, NEW s, Lists(s, f)
  PROVE  EndOf(Last(s.vars)) = Spot(<<"alloc", f>>)
<1> DEFINE v == s.vars
           n == Len(v)
           d == v[n]
<1>1. n \in Nat /\ v \in Seq(Declarations) /\ ToSet(v) = VariablesOf(f) /\ DOMAIN v = 1..n
  BY LenProperties DEF Lists
<1>2. VariablesOf(f) = {v[i] : i \in 1..n}
  BY <1>1 DEF ToSet
<1>3. n \in 1..n
  <2> SUFFICES ASSUME n = 0 PROVE FALSE
    BY <1>1
  <2>1. VariablesOf(f) = {}
    BY <1>2
  <2> QED BY <2>1 DEF Scopes
<1>4. \A e \in VariablesOf(f) : e.end <= d.end
  <2> SUFFICES ASSUME NEW i \in 1..n PROVE v[i].end <= d.end
    BY <1>2
  <2>1. CASE i = n
    <3>1. d \in Declarations
      BY <1>1, <1>3, ElementOfSeq
    <3>2. d.end \in 1..Len(src)
      BY <3>1, Declared DEF Ready, TypeInv, IsTyped
    <3> DEFINE y == d.end
    <3>3. y \in Int
      BY <3>2
    <3> HIDE DEF y
    <3>4. y <= y
      BY <3>3
    <3> QED BY <2>1, <3>4 DEF y
  <2>2. CASE i # n
    <3>1. i < n
      BY <1>1, <2>2
    <3> QED BY <1>3, <3>1 DEF Lists
  <2> QED BY <2>1, <2>2
<1>5. d \in VariablesOf(f)
  BY <1>2, <1>3
<1>6. Last(s.vars) = d
  BY DEF Last
<1> HIDE DEF d
<1>7. EndOf(d) = Hi(LastOf(f))
  BY <1>4, <1>5, LastIs
<1>8. Spot(<<"alloc", f>>) = Hi(LastOf(f))
  BY DEF Spot, Anchor
<1> QED BY <1>6, <1>7, <1>8
-----------------------------------------------------------------------------
(* A scope is rewritten.                                                   *)
LEMMA ScopeRewritten ==
  ASSUME Ready, NEW T \in SUBSET Scopes, NEW f \in Scopes \ T, NEW s, Lists(s, f),
         NEW b, Edits(b, VarsOf(T), PartsOf(T), PutsOf(T))
  PROVE  LET U == T \cup {f} IN
         Edits(Rewritten(b, f, s), VarsOf(U), PartsOf(U), PutsOf(U))
<1> DEFINE U == T \cup {f}
           V == VarsOf(U)
           P == PartsOf(T)
           Q == PartsOf(U)
           A == PutsOf(T)
           alloc == <<"alloc", f>>
           undef == <<"undef", f>>
           funcs == <<"threads", f>>
           b1 == Cleared(b, s)
           b2 == Allocate(b1, f, s)
           b3 == Replaced(b2, s)
           b4 == Undefine(b3, f)
           b5 == InsertTextBefore(b4, Offset[f], Inserted("threads", f))
<1>1. f \in Scopes /\ f \notin T /\ U \in SUBSET Scopes
  OBVIOUS
<1>2. /\ alloc \in Puts /\ undef \in Puts /\ funcs \in Puts
      /\ alloc[1] = "alloc" /\ undef[1] = "undef" /\ funcs[1] = "threads"
      /\ alloc[2] = f /\ undef[2] = f /\ funcs[2] = f
      /\ Spot(undef) = Offset[FunctionEnd(f)] /\ Spot(funcs) = Offset[f]
  <2>1. /\ alloc \in Puts /\ undef \in Puts /\ funcs \in Puts
        /\ alloc[1] = "alloc" /\ undef[1] = "undef" /\ funcs[1] = "threads"
        /\ alloc[2] = f /\ undef[2] = f /\ funcs[2] = f
    BY DEF Puts
  <2> HIDE DEF alloc, undef, funcs
  <2> QED BY <2>1 DEF Spot, Anchor
<1>3. alloc \notin A /\ undef \notin A \cup {alloc} /\ funcs \notin A \cup {alloc} \cup {undef}
  <2>1. \A t \in A : t[2] # f
    BY DEF PutsOf
  <2> HIDE DEF A, alloc, undef, funcs
  <2> QED BY <1>2, <2>1
<1>4. A \cup {alloc} \cup {undef} \cup {funcs} = PutsOf(U)
  BY DEF PutsOf
<1>5. \A p \in P : f \notin Owners(p)
  <2> SUFFICES ASSUME NEW p \in P, f \in Owners(p) PROVE FALSE
    OBVIOUS
  <2>1. p \in Parts
    BY DEF PartsOf
  <2>2. PICK g \in Owners(p) : g \in T
    BY DEF PartsOf
  <2> QED BY <1>1, <2>1, <2>2, OwnerIs
<1>6. EndOf(Last(s.vars)) = Spot(alloc)
  BY LastListed
<1>7. /\ b2 = InsertText(b1, Spot(alloc), Inserted(alloc[1], alloc[2]), TRUE)
      /\ b4 = InsertText(b3, Spot(undef), Inserted(undef[1], undef[2]), FALSE)
      /\ b5 = InsertText(b4, Spot(funcs), Inserted(funcs[1], funcs[2]), FALSE)
  <2> HIDE DEF alloc, undef, funcs, b1, b3
  <2>1. b2 = InsertText(b1, Spot(alloc), Inserted(alloc[1], alloc[2]), TRUE)
    BY <1>2, <1>6 DEF Allocate, InsertTextAfter
  <2>2. b4 = InsertText(b3, Spot(undef), Inserted(undef[1], undef[2]), FALSE)
    BY <1>2 DEF Undefine, InsertTextBefore
  <2> HIDE DEF b4
  <2>3. b5 = InsertText(b4, Spot(funcs), Inserted(funcs[1], funcs[2]), FALSE)
    BY <1>2 DEF InsertTextBefore
  <2> QED BY <2>1, <2>2, <2>3
<1>8. b5 = Rewritten(b, f, s)
  BY DEF Rewritten
<1>9. Doing(V, P, A) /\ Edits(b1, V, P, A)
  BY <1>1, ScopeCleared
<1> HIDE DEF b1, b2, b3, b4, b5, alloc, undef, funcs, V, P, Q, A
<1>10. Doing(V, P, A \cup {alloc}) /\ Edits(b2, V, P, A \cup {alloc})
  <2>1. Doing(V, P, A \cup {alloc}) /\ Edits(InsertText(b1, Spot(alloc), Inserted(alloc[1], alloc[2]), TRUE), V, P, A \cup {alloc})
    BY <1>2, <1>3, <1>5, <1>9, TextPut
  <2> QED BY <1>7, <2>1
<1> DEFINE A1 == A \cup {alloc}
           A2 == A1 \cup {undef}
           A3 == A2 \cup {funcs}
<1>11. Doing(V, Q, A1) /\ Edits(b3, V, Q, A1)
  <2> HIDE DEF A1
  <2>1. Doing(V, P, A1) /\ Edits(b2, V, P, A1)
    BY <1>10 DEF A1
  <2>2. Doing(V, PartsOf(U), A1) /\ Edits(Replaced(b2, s), V, PartsOf(U), A1)
    BY <1>1, <2>1, ScopeReplaced DEF P
  <2> QED BY <2>2 DEF Q, b3
<1>12. Doing(V, Q, A2) /\ Edits(b4, V, Q, A2)
  <2>1. undef \notin A1 /\ undef[1] # "alloc"
    BY <1>2, <1>3
  <2> HIDE DEF A1
  <2>2. Doing(V, Q, A2) /\ Edits(InsertText(b3, Spot(undef), Inserted(undef[1], undef[2]), FALSE), V, Q, A2)
    BY <1>2, <1>11, <2>1, TextPut
  <2> QED BY <1>7, <2>2
<1>13. Edits(b5, V, Q, A3)
  <2>1. funcs \notin A2 /\ funcs[1] # "alloc"
    BY <1>2, <1>3
  <2> HIDE DEF A2
  <2>2. Edits(InsertText(b4, Spot(funcs), Inserted(funcs[1], funcs[2]), FALSE), V, Q, A3)
    BY <1>2, <1>12, <2>1, TextPut
  <2> QED BY <1>7, <2>2
<1> QED BY <1>4, <1>8, <1>13 DEF V, Q, A3, A2, A1
-----------------------------------------------------------------------------
(* The buffer when the scopes of T have been rewritten.                    *)
ScopesEdited(b, T) == Edits(b, VarsOf(T), PartsOf(T), PutsOf(T))

(* What the edits are told from does not change with the buffer.           *)
LEMMA SameEdits ==
  ASSUME src' = src, particles' = particles
  PROVE  /\ \A b, T : ScopesEdited(b, T)' <=> ScopesEdited(b, T)
         /\ Plain' <=> Plain
<1>1. Eof' = Eof /\ \A q : Kind(q)' = Kind(q)
  BY SourceIsFixed
<1>2. \A b : Matching(b, 0)' = Matching(b, 0)
  <2>1. \A k, m, n : Braces(k, m, n)' = Braces(k, m, n)
    BY SourceIsFixed
  <2> QED BY SourceIsFixed
<1>3. \A f : FunctionEnd(f)' = FunctionEnd(f)
  BY <1>2 DEF FunctionEnd
<1>4. \A f, q : Within(f, q)' <=> Within(f, q)
  BY <1>3 DEF Within
<1>5. Functions' = Functions
  BY <1>1 DEF Functions
<1>6. Declarations' = Declarations /\ \A q : Container(q)' = Container(q)
  BY SameFile
<1>7. \A f : VariablesOf(f)' = VariablesOf(f)
  BY <1>6 DEF VariablesOf
<1>8. AllParticles' = AllParticles
  BY DEF AllParticles
<1>9. \A p : Owners(p)' = Owners(p)
  BY <1>4, <1>5, <1>7 DEF Owners
<1>10. Offset' = Offset /\ Text' = Text
  BY SameText
<1>11. \A d : Lo(d)' = Lo(d)
  BY <1>10 DEF Lo
<1>12. \A d : Hi(d)' = Hi(d)
  BY <1>1, <1>10 DEF Hi
<1>13. \A p : Left(p)' = Left(p)
  BY <1>10 DEF Left
<1>14. \A p : Right(p)' = Right(p)
  BY <1>10 DEF Right
<1>15. Vars' = Vars
  BY <1>6 DEF Vars
<1>16. Parts' = Parts
  BY <1>8, <1>9 DEF Parts
<1>17. \A f : LastOf(f)' = LastOf(f)
  BY <1>7 DEF LastOf
<1>18. \A i : PartOf(i)' = PartOf(i)
  BY <1>8 DEF PartOf
<1>19. \A k, x : Anchor(k, x)' = Anchor(k, x)
  BY <1>3, <1>10, <1>12, <1>13, <1>17, <1>18 DEF Anchor
<1>20. RankOf' = RankOf
  BY <1>19 DEF RankOf
<1>21. \A t : Spot(t)' = Spot(t)
  BY <1>19 DEF Spot
<1>22. \A V, P : Lost(V, P)' = Lost(V, P)
  BY <1>11, <1>12, <1>13, <1>14 DEF Lost
<1>23. \A V, P, A : Marks(V, P, A)' = Marks(V, P, A)
  BY <1>11, <1>13, <1>14, <1>21 DEF Marks
<1>24. \A V, P, r : IsCut(V, P, r)' <=> IsCut(V, P, r)
  BY <1>11, <1>12, <1>13, <1>14 DEF IsCut
<1>25. \A V, P, A : Remains(V, P, A)' = Remains(V, P, A)
  BY <1>10, <1>20, <1>24 DEF Remains
<1>26. \A b, V, P, A : Edits(b, V, P, A)' <=> Edits(b, V, P, A)
  BY <1>1, <1>10, <1>20, <1>22, <1>23, <1>25 DEF Edits
<1>27. \A T : VarsOf(T)' = VarsOf(T)
  BY <1>6, <1>15 DEF VarsOf
<1>28. \A T : PartsOf(T)' = PartsOf(T)
  BY <1>9, <1>16 DEF PartsOf
<1>29. \A b, T : ScopesEdited(b, T)' <=> ScopesEdited(b, T)
  BY <1>26, <1>27, <1>28 DEF ScopesEdited
<1>30. Plain' <=> Plain
  BY <1>1, <1>3, <1>5, <1>6, <1>7, <1>8, <1>9 DEF Plain
<1> QED BY <1>29, <1>30
-----------------------------------------------------------------------------
(* The list of a scope is all that has been visited of its function, in    *)
(* the order of the file.                                                  *)
Ordered(v) ==
  /\ v \in Seq(Declarations)
  /\ \A i, j \in 1..Len(v) : i < j => v[i].end <= v[j].end /\ v[i] # v[j]

ListsVisited(s, f, ds) ==
  /\ "vars" \in DOMAIN s
  /\ Ordered(s.vars)
  /\ ToSet(s.vars) = {d \in ds : Container(d.begin) = f}

VarsInv ==
  /\ \A d \in visited, e \in Declarations \ visited : d.end <= e.end
  /\ \A f \in DOMAIN scopes : ListsVisited(scopes[f], f, visited)

LEMMA OrderedAppend ==
  ASSUME NEW v, Ordered(v), NEW d \in Declarations, d \notin ToSet(v),
         \A e \in ToSet(v) : e.end <= d.end
  PROVE  Ordered(Append(v, d)) /\ ToSet(Append(v, d)) = ToSet(v) \cup {d}
<1> DEFINE w == Append(v, d)
           n == Len(v)
<1>1. v \in Seq(Declarations) /\ n \in Nat /\ DOMAIN v = 1..n
  BY LenProperties DEF Ordered
<1>2. /\ w \in Seq(Declarations) /\ Len(w) = n + 1 /\ w[n + 1] = d
      /\ \A i \in 1..n : w[i] = v[i]
  BY <1>1, AppendProperties
<1>3. DOMAIN w = 1..(n + 1)
  BY <1>2, LenProperties
<1> HIDE DEF w
<1>4. ASSUME NEW i \in 1..Len(w), NEW j \in 1..Len(w), i < j
      PROVE  w[i].end <= w[j].end /\ w[i] # w[j]
  <2>1. i \in 1..n /\ (j \in 1..n \/ j = n + 1)
    BY <1>1, <1>2, <1>4
  <2>2. w[i] = v[i] /\ v[i] \in ToSet(v)
    BY <1>1, <1>2, <2>1 DEF ToSet
  <2>3. CASE j \in 1..n
    BY <1>2, <1>4, <2>1, <2>3 DEF Ordered
  <2>4. CASE j = n + 1
    BY <1>2, <2>2, <2>4
  <2> QED BY <2>1, <2>3, <2>4
<1>5. Ordered(w)
  BY <1>2, <1>4 DEF Ordered
<1>6. ToSet(w) = ToSet(v) \cup {d}
  <2>1. 1..(n + 1) = (1..n) \cup {n + 1}
    BY <1>1
  <2>2. ToSet(w) = {w[i] : i \in 1..n} \cup {d}
    BY <1>2, <1>3, <2>1 DEF ToSet
  <2>3. {w[i] : i \in 1..n} = {v[i] : i \in 1..n}
    BY <1>2
  <2> QED BY <1>1, <2>2, <2>3 DEF ToSet
<1> QED BY <1>5, <1>6 DEF w

LEMMA OrderedNothing == Ordered(<<>>) /\ ToSet(<<>>) = {}
<1>1. <<>> \in Seq(Declarations) /\ Len(<<>>) = 0
  BY EmptySeq
<1>2. 1..0 = {} /\ DOMAIN <<>> = 1..0
  BY <1>1, LenProperties
<1> QED BY <1>1, <1>2 DEF Ordered, ToSet

LEMMA VarsInvInit == ProxyInit => VarsInv
<1> SUFFICES ASSUME ProxyInit PROVE VarsInv
  OBVIOUS
<1>1. visited = {} /\ DOMAIN scopes = {}
  BY DEF ProxyInit
<1> QED BY <1>1 DEF VarsInv

LEMMA VarsInvStep ==
  ASSUME TypeInv, ProxyInv, VarsInv, [ProxyNext]_allVars
  PROVE  VarsInv'
<1>1. src' = src /\ src \in Sources
  <2>1. [Next]_vars
    BY ProxyStep
  <2> QED BY <2>1, CallsStep DEF TypeInv, IsTyped
<1>2. /\ Declarations' = Declarations
      /\ \A q : Container(q)' = Container(q)
  BY <1>1, SameFile
<1>3. \A s, f, ds : ListsVisited(s, f, ds)' <=> ListsVisited(s, f, ds)
  BY <1>2 DEF ListsVisited, Ordered
<1>4. CASE UNCHANGED <<visited, scopes>>
  BY <1>2, <1>3, <1>4 DEF VarsInv
<1>5. CASE VisitVarDecl
  <2>1. PICK d \in Declarations \ visited :
          /\ \A e \in Declarations \ visited : d.end <= e.end
          /\ visited' = visited \cup {d}
          /\ IF Container(d.begin) = 0 THEN UNCHANGED scopes
             ELSE scopes' = [g \in DOMAIN scopes \cup {Container(d.begin)} |->
                    IF g # Container(d.begin) THEN scopes[g]
                    ELSE [vars |-> Append(VariablesAt(Container(d.begin)), d),
                          particles |-> {}]]
    BY <1>5 DEF VisitVarDecl
  <2> DEFINE ds == visited \cup {d}
             f == Container(d.begin)
             new == [vars |-> Append(VariablesAt(f), d), particles |-> {}]
  <2>2. \A c \in ds, e \in Declarations \ ds : c.end <= e.end
    BY <2>1 DEF VarsInv
  <2>3. \A g \in DOMAIN scopes : g # 0
    BY DEF ProxyInv, Scoped
  <2>4. ASSUME NEW g \in DOMAIN scopes, g # f PROVE ListsVisited(scopes[g], g, ds)
    <3>1. {c \in ds : Container(c.begin) = g} = {c \in visited : Container(c.begin) = g}
      BY <2>4
    <3>2. ListsVisited(scopes[g], g, visited)
      BY DEF VarsInv
    <3> QED BY <3>1, <3>2 DEF ListsVisited
  <2>5. ASSUME f # 0 PROVE ListsVisited(new, f, ds)
    <3> DEFINE v == VariablesAt(f)
    <3>1. Ordered(v) /\ ToSet(v) = {c \in visited : Container(c.begin) = f}
      <4>1. CASE f \in DOMAIN scopes
        BY <4>1 DEF VariablesAt, VarsInv, ListsVisited
      <4>2. CASE f \notin DOMAIN scopes
        <5>1. \A c \in visited : Container(c.begin) # f
          BY <2>5, <4>2 DEF ProxyInv, Scoped
        <5> QED BY <4>2, <5>1, OrderedNothing DEF VariablesAt
      <4> QED BY <4>1, <4>2
    <3>2. d \notin ToSet(v) /\ \A e \in ToSet(v) : e.end <= d.end
      BY <2>1, <3>1 DEF VarsInv
    <3> HIDE DEF v
    <3>3. Ordered(Append(v, d)) /\ ToSet(Append(v, d)) = ToSet(v) \cup {d}
      BY <3>1, <3>2, OrderedAppend
    <3>4. {c \in ds : Container(c.begin) = f} = ToSet(v) \cup {d}
      BY <3>1
    <3>5. "vars" \in DOMAIN new /\ new.vars = Append(v, d)
      BY DEF v
    <3> HIDE DEF new
    <3> QED BY <3>3, <3>4, <3>5 DEF ListsVisited
  <2>6. CASE f = 0
    <3>1. scopes' = scopes /\ \A g \in DOMAIN scopes : g # f
      BY <2>1, <2>3, <2>6
    <3>2. \A g \in DOMAIN scopes : ListsVisited(scopes[g], g, ds)
      BY <2>4, <3>1
    <3>3. visited' = ds
      BY <2>1
    <3> HIDE DEF ds
    <3> QED BY <1>2, <1>3, <2>2, <3>1, <3>2, <3>3 DEF VarsInv
  <2>7. CASE f # 0
    <3>1. visited' = ds /\ scopes' = [g \in DOMAIN scopes \cup {f} |-> IF g # f THEN scopes[g] ELSE new]
      BY <2>1, <2>7
    <3> HIDE DEF ds, f, new
    <3>2. ASSUME NEW g \in DOMAIN scopes' PROVE ListsVisited(scopes'[g], g, ds)
      <4>1. CASE g = f
        BY <2>5, <2>7, <3>1, <4>1
      <4>2. CASE g # f
        <5>1. g \in DOMAIN scopes /\ scopes'[g] = scopes[g]
          BY <3>1, <4>2
        <5> QED BY <2>4, <4>2, <5>1
      <4> QED BY <4>1, <4>2
    <3> QED BY <1>2, <1>3, <2>2, <3>1, <3>2 DEF VarsInv
  <2> QED BY <2>6, <2>7
<1>6. CASE Assign
  <2>1. \/ scopes' = scopes
        \/ scopes' = [f \in DOMAIN scopes |-> [scopes[f] EXCEPT !.particles = Own(f)]]
    BY <1>6 DEF Assign, Own
  <2>2. visited' = visited
    BY <1>6 DEF Assign
  <2>3. CASE scopes' = [f \in DOMAIN scopes |-> [scopes[f] EXCEPT !.particles = Own(f)]]
    <3>1. DOMAIN scopes' = DOMAIN scopes
      BY <2>3
    <3>2. ASSUME NEW f \in DOMAIN scopes PROVE ListsVisited(scopes'[f], f, visited)
      <4>1. scopes'[f] = [scopes[f] EXCEPT !.particles = Own(f)]
        BY <2>3
      <4>2. ListsVisited(scopes[f], f, visited)
        BY DEF VarsInv
      <4>3. "vars" \in DOMAIN scopes[f]
        BY <4>2 DEF ListsVisited
      <4>4. "vars" \in DOMAIN scopes'[f] /\ scopes'[f].vars = scopes[f].vars
        BY <4>1, <4>3
      <4> QED BY <4>2, <4>4 DEF ListsVisited
    <3> QED BY <1>2, <1>3, <2>2, <3>1, <3>2 DEF VarsInv
  <2> QED BY <1>4, <2>1, <2>2, <2>3
<1>7. CASE Parse \/ EndParse \/ PrintFile \/ ProxyFinished \/ UNCHANGED allVars
  <2>1. UNCHANGED <<visited, scopes>>
    BY <1>7 DEF Parse, EndParse, PrintFile, ProxyFinished, allVars, proxyVars
  <2> QED BY <1>4, <2>1
<1>8. ASSUME NEW f \in Functions, RewriteScope(f) PROVE VarsInv'
  BY <1>4, <1>8 DEF RewriteScope
<1> QED BY <1>5, <1>6, <1>7, <1>8 DEF ProxyNext
-----------------------------------------------------------------------------
(* The rewriting of a scope, and of none.                                  *)
LEMMA ScopeEdited ==
  ASSUME Ready, NEW T \in SUBSET Scopes, NEW f \in Scopes \ T, NEW s, Lists(s, f),
         NEW b, ScopesEdited(b, T)
  PROVE  ScopesEdited(Rewritten(b, f, s), T \cup {f})
<1>1. Edits(b, VarsOf(T), PartsOf(T), PutsOf(T))
  BY DEF ScopesEdited
<1>2. LET U == T \cup {f} IN
      Edits(Rewritten(b, f, s), VarsOf(U), PartsOf(U), PutsOf(U))
  BY <1>1, ScopeRewritten
<1> QED BY <1>2 DEF ScopesEdited

LEMMA NothingEdited ==
  ASSUME Ready
  PROVE  ScopesEdited(Fresh(Text), {})
<1>1. VarsOf({}) = {} /\ PartsOf({}) = {} /\ PutsOf({}) = {}
  BY DEF VarsOf, PartsOf, PutsOf
<1>2. Edits(Fresh(Text), {}, {}, {})
  BY FreshIs
<1> QED BY <1>1, <1>2 DEF ScopesEdited

LEMMA EditedIsValid ==
  ASSUME NEW b, NEW T, ScopesEdited(b, T)
  PROVE  b.invalid = FALSE
BY DEF ScopesEdited, Edits, Maps

(* In the scopes that are rewritten are the variables and the particles of *)
(* their functions.                                                        *)
LEMMA ScopesAre ==
  ASSUME TypeInv, ProxyInv, VarsInv, phase \in {"rewrite", "printed"}
  PROVE  DOMAIN scopes = Scopes /\ \A f \in DOMAIN scopes : Lists(scopes[f], f)
<1>1. src \in Sources /\ visited = Declarations /\ DOMAIN scopes = Scoped(Declarations)
  BY DEF TypeInv, IsTyped, ProxyInv
<1>2. DOMAIN scopes = Scopes
  BY <1>1, ScopedIs DEF Scopes
<1>3. ASSUME NEW f \in DOMAIN scopes PROVE Lists(scopes[f], f)
  <2>1. ListsVisited(scopes[f], f, Declarations)
    BY <1>1 DEF VarsInv
  <2>2. scopes[f].particles = Own(f)
    BY DEF ProxyInv
  <2> QED BY <2>1, <2>2 DEF Lists, ListsVisited, Ordered, VariablesOf
<1> QED BY <1>2, <1>3

(* The inductive invariant: in a plain file the buffer is told from the    *)
(* scopes that have been rewritten, and no removal is invalid.             *)
BufferInv ==
  /\ phase \in {"parse", "visit"} => buffer = Fresh(Text)
  /\ phase = "undefined" => ~Plain
  /\ phase \in {"rewrite", "printed"} /\ Plain => ScopesEdited(buffer, DOMAIN threads)

LEMMA BufferInvInit == ProxyInit => BufferInv
BY DEF ProxyInit, BufferInv

LEMMA BufferInvStep ==
  ASSUME TypeInv, SpansInOrder, Registered, ProxyInv, VarsInv, BufferInv,
         [ProxyNext]_allVars
  PROVE  BufferInv'
<1>1. src' = src
  <2>1. [Next]_vars
    BY ProxyStep
  <2> QED BY <2>1, CallsStep DEF TypeInv, IsTyped
<1>2. Fresh(Text)' = Fresh(Text)
  <2>1. Text' = Text
    BY <1>1, SameText
  <2> QED BY <2>1 DEF Fresh
<1>3. CASE Parse \/ EndParse \/ VisitVarDecl
  <2>1. phase \in {"parse", "visit"} /\ phase' \in {"parse", "visit"} /\ buffer' = buffer
    BY <1>3 DEF Parse, EndParse, VisitVarDecl, proxyVars
  <2> QED BY <1>2, <2>1 DEF BufferInv
<1>4. ASSUME particles' = particles
      PROVE  /\ \A b, T : ScopesEdited(b, T)' <=> ScopesEdited(b, T)
             /\ Plain' <=> Plain
  BY <1>1, <1>4, SameEdits
<1>5. CASE Assign
  <2>1. /\ phase = "visit" /\ phase' \in {"aborted", "rewrite"}
        /\ UNCHANGED <<particles, buffer, threads>>
    BY <1>5 DEF Assign, vars
  <2>2. buffer' = Fresh(Text) /\ DOMAIN threads' = {}
    BY <2>1 DEF BufferInv, ProxyInv
  <2>3. Plain => ScopesEdited(Fresh(Text), {})
    BY NothingEdited DEF Ready
  <2> QED BY <1>4, <2>1, <2>2, <2>3 DEF BufferInv
<1>6. CASE PrintFile
  <2>1. phase = "rewrite" /\ phase' = "printed" /\ UNCHANGED <<particles, buffer, threads>>
    BY <1>6 DEF PrintFile, vars
  <2> QED BY <1>4, <2>1 DEF BufferInv
<1>7. CASE ProxyFinished \/ UNCHANGED allVars
  <2>1. UNCHANGED <<phase, particles, buffer, threads>>
    BY <1>7 DEF ProxyFinished, allVars, vars, proxyVars
  <2> QED BY <1>2, <1>4, <2>1 DEF BufferInv
<1>8. ASSUME NEW f \in Functions, RewriteScope(f) PROVE BufferInv'
  <2> DEFINE new == Rewritten(buffer, f, scopes[f])
  <2>1. /\ phase = "rewrite" /\ f \in DOMAIN scopes /\ f \notin DOMAIN threads
        /\ UNCHANGED particles
    BY <1>8 DEF RewriteScope, vars
  <2>2. \/ phase' = "undefined" /\ new.invalid
        \/ phase' = "aborted"
        \/ /\ phase' = "rewrite" /\ buffer' = new
           /\ DOMAIN threads' = DOMAIN threads \cup {f}
    BY <1>8, <2>1 DEF RewriteScope
  <2>3. Plain => ScopesEdited(new, DOMAIN threads \cup {f})
    <3> SUFFICES ASSUME Plain PROVE ScopesEdited(new, DOMAIN threads \cup {f})
      OBVIOUS
    <3>1. Ready
      BY DEF Ready
    <3>2. DOMAIN scopes = Scopes /\ Lists(scopes[f], f)
      BY <2>1, ScopesAre
    <3>3. DOMAIN threads \in SUBSET Scopes /\ f \in Scopes \ DOMAIN threads
      BY <2>1, <3>2 DEF ProxyInv
    <3>4. ScopesEdited(buffer, DOMAIN threads)
      BY <2>1 DEF BufferInv
    <3> QED BY <3>1, <3>2, <3>3, <3>4, ScopeEdited
  <2> HIDE DEF new
  <2>4. Plain => ~new.invalid
    BY <2>3, EditedIsValid
  <2> QED BY <1>4, <2>1, <2>2, <2>3, <2>4 DEF BufferInv
<1> QED BY <1>3, <1>5, <1>6, <1>7, <1>8 DEF ProxyNext
-----------------------------------------------------------------------------
(* What is printed: every scope has been rewritten.                        *)
Done == Ready /\ Edits(buffer, Vars, Parts, Puts)

LEMMA PrintedIsDone ==
  ASSUME TypeInv, SpansInOrder, Registered, ProxyInv, VarsInv, BufferInv,
         Printed, Plain
  PROVE  Done
<1>1. Ready
  BY DEF Ready
<1>2. ScopesEdited(buffer, Scopes)
  <2>1. phase = "printed" /\ DOMAIN threads = DOMAIN scopes
    BY DEF Printed, ProxyInv
  <2>2. DOMAIN scopes = Scopes
    BY <2>1, ScopesAre
  <2>3. ScopesEdited(buffer, DOMAIN threads)
    BY <2>1 DEF BufferInv
  <2> QED BY <2>1, <2>2, <2>3
<1>3. VarsOf(Scopes) = Vars
  BY <1>1, VarIs DEF VarsOf
<1>4. PartsOf(Scopes) = Parts
  <2>1. \A p : Owners(p) \subseteq Scopes
    BY DEF Owners, Scopes
  <2> QED BY <2>1 DEF PartsOf, Parts
<1>5. PutsOf(Scopes) = Puts
  BY DEF PutsOf, Puts
<1> QED BY <1>1, <1>2, <1>3, <1>4, <1>5 DEF ScopesEdited, Done

LEMMA OutputIs ==
  ASSUME Done
  PROVE  /\ Output \in Seq(Character) /\ Len(Output) \in Nat /\ DOMAIN Output = 1..Len(Output)
         /\ \A k \in DOMAIN Output : Output[k] \in Character /\ RankOf[Output[k]] \in Int
         /\ \A c : c \in Remains(Vars, Parts, Puts) <=> \E k \in DOMAIN Output : Output[k] = c
         /\ \A j, k \in DOMAIN Output : j < k => InOrder(Output[j], Output[k], RankOf)
<1>1. Output \in Seq(Character) /\ ToSet(Output) = Remains(Vars, Parts, Puts) /\ Sorted(Output, RankOf)
  BY DEF Done, Edits, Maps, Buffers, Output
<1>2. Len(Output) \in Nat /\ DOMAIN Output = 1..Len(Output)
  BY <1>1, LenProperties
<1>3. \A k \in DOMAIN Output : Output[k] \in Character
  BY <1>1, <1>2
<1>4. \A c \in Character : RankOf[c] \in Int
  BY RankIs DEF Ranks
<1>5. \A c : c \in Remains(Vars, Parts, Puts) <=> \E k \in DOMAIN Output : Output[k] = c
  BY <1>1 DEF ToSet
<1>6. \A j, k \in DOMAIN Output : j < k => InOrder(Output[j], Output[k], RankOf)
  BY <1>1, <1>2 DEF Sorted
<1> QED BY <1>1, <1>2, <1>3, <1>4, <1>5, <1>6

(* A lower rank, an earlier place; no character stands in two places.      *)
LEMMA RanksInOrder ==
  ASSUME Done, NEW j \in DOMAIN Output, NEW k \in DOMAIN Output,
         RankOf[Output[j]] < RankOf[Output[k]]
  PROVE  j < k
<1>1. j \in Int /\ k \in Int
  BY OutputIs
<1>2. j # k
  BY OutputIs
<1>3. ~(k < j)
  BY OutputIs DEF InOrder
<1> QED BY <1>1, <1>2, <1>3

LEMMA PlacesApart ==
  ASSUME Done, NEW j \in DOMAIN Output, NEW k \in DOMAIN Output,
         Output[j][1] = Output[k][1], Output[j][2] = Output[k][2],
         ~(Output[j][3] < Output[k][3])
  PROVE  k <= j
<1>1. j \in Int /\ k \in Int
  BY OutputIs
<1>2. ~(j < k)
  BY OutputIs DEF InOrder
<1> QED BY <1>1, <1>2

(* The characters of a kind are printed, and have rank r.                  *)
Shown(kind, x, r) ==
  /\ Places(kind, x) # {}
  /\ \A k \in Places(kind, x) : k \in DOMAIN Output /\ RankOf[Output[k]] = r

LEMMA ShownInOrder ==
  ASSUME Done, NEW kind, NEW x, NEW r, Shown(kind, x, r),
         NEW other, NEW y, NEW s, Shown(other, y, s), r < s
  PROVE  Precedes(Places(kind, x), Places(other, y))
<1>1. ASSUME NEW j \in Places(kind, x), NEW k \in Places(other, y) PROVE j < k
  <2>1. /\ j \in DOMAIN Output /\ k \in DOMAIN Output
        /\ RankOf[Output[j]] = r /\ RankOf[Output[k]] = s
    BY DEF Shown
  <2> QED BY <2>1, RanksInOrder
<1> QED BY <1>1 DEF Precedes, Shown

LEMMA OneIsShown ==
  ASSUME Done, NEW c \in Remains(Vars, Parts, Puts)
  PROVE  Shown(c[1], c[2], RankOf[c])
<1>1. PICK k \in DOMAIN Output : Output[k] = c
  BY OutputIs
<1>2. Places(c[1], c[2]) # {}
  BY <1>1 DEF Places
<1>3. ASSUME NEW j \in Places(c[1], c[2])
      PROVE  j \in DOMAIN Output /\ RankOf[Output[j]] = RankOf[c]
  <2>1. j \in DOMAIN Output /\ Output[j][1] = c[1] /\ Output[j][2] = c[2]
    BY DEF Places
  <2>2. Output[j] \in Character /\ c \in Character
    BY <1>1, <2>1, OutputIs
  <2> DEFINE d == Output[j]
  <2> HIDE DEF d
  <2>3. d[1] = c[1] /\ d[2] = c[2] /\ d \in Character
    BY <2>1, <2>2 DEF d
  <2>4. RankOf[d] = RankOf[c]
    BY <2>2, <2>3 DEF RankOf
  <2> QED BY <2>1, <2>4 DEF d
<1> QED BY <1>2, <1>3 DEF Shown
-----------------------------------------------------------------------------
(* The characters of the file that are moved are those that are cut.       *)
LEMMA MovedIsCut ==
  ASSUME Ready, NEW n \in Nat
  PROVE  n \in Moved <=> IsCut(Vars, Parts, 2 * n)
<1> DEFINE M(p) == (Offset[p.begin] + 1)..(Offset[p.end] + Width(p.end))
           D(d) == (Offset[d.begin] + 1)..(Offset[d.end + 1] + Width(d.end + 1))
<1>1. n \in Moved <=> (\E p \in Parts : n \in M(p)) \/ (\E d \in Vars : n \in D(d))
  <2>1. Moved = (UNION {M(p) : p \in Parts}) \cup (UNION {D(d) : d \in Vars})
    BY DEF Moved, Parts, Vars
  <2> HIDE DEF M, D
  <2>2. n \in UNION {M(p) : p \in Parts} <=> \E p \in Parts : n \in M(p)
    OBVIOUS
  <2>3. n \in UNION {D(d) : d \in Vars} <=> \E d \in Vars : n \in D(d)
    OBVIOUS
  <2> QED BY <2>1, <2>2, <2>3
<1>2. ASSUME NEW p \in Parts
      PROVE  n \in M(p) <=> 2 * Left(p) < 2 * n /\ 2 * n <= 2 * Right(p)
  <2>1. p.end \in 1..Len(src) /\ Kind(p.end) = "rb"
    BY ParticleIs DEF Ready
  <2>2. Width(p.end) = 1
    BY <2>1 DEF Width
  <2>3. Left(p) \in Nat /\ Right(p) \in Nat
    BY RightIs DEF Ready
  <2>4. M(p) = (Left(p) + 1)..Right(p)
    BY <2>2 DEF Left, Right
  <2> HIDE DEF M
  <2> QED BY <2>3, <2>4
<1>3. ASSUME NEW d \in Vars, n \in D(d)
      PROVE  \E e \in Vars : 2 * Lo(e) < 2 * n /\ 2 * n <= 2 * Hi(e)
  <2> DEFINE s == SemiOf(d)
             e == [begin |-> d.begin, end |-> s - 1]
  <2>1. d \in Declarations /\ src \in Sources /\ Plain /\ Len(src) \in Nat
    BY VarIs, SourceType DEF Ready, TypeInv, IsTyped
  <2>2. /\ d.end \in 1..Len(src) /\ s \in 1..Len(src) /\ d.end < s
        /\ Kind(d.end + 1) \in {"comma", "semi"} /\ e \in Declarations
    BY <2>1, Declared
  <2>3. e.begin = d.begin /\ e.end = s - 1 /\ SemiOf(e) = s
    BY DEF SemiOf
  <2>4. e \in Vars
    BY <2>2, <2>3 DEF Vars
  <2> HIDE DEF e
  <2>5. Hi(e) = Offset[s] + 1 /\ Offset[s] \in Nat /\ Lo(e) = Lo(d) /\ Lo(d) \in Nat
    <3>1. e.end = SemiOf(e) - 1
      BY <2>3
    <3>2. Hi(e) = Offset[SemiOf(e)] + 1 /\ Offset[SemiOf(e)] \in Nat /\ Lo(e) \in Nat
      BY <2>1, <2>2, <3>1, HiIs
    <3> QED BY <2>3, <3>2 DEF Lo
  <2> HIDE DEF s
  <2>6. Width(d.end + 1) = 1
    BY <2>2 DEF Width
  <2>7. Offset[d.end + 1] <= Offset[s] /\ Offset[d.end + 1] \in Nat
    <3>1. d.end + 1 \in 0..Eof /\ s \in 0..Eof /\ d.end + 1 <= s
      BY <2>1, <2>2, SourceType DEF Eof
    <3> QED BY <2>1, <3>1, OffsetsInOrder
  <2>8. D(d) = (Lo(d) + 1)..(Offset[d.end + 1] + 1)
    BY <2>6 DEF Lo
  <2> HIDE DEF D
  <2>9. Lo(d) < n /\ n <= Offset[d.end + 1] + 1
    BY <1>3, <2>5, <2>7, <2>8
  <2>10. Lo(e) < n /\ n <= Hi(e)
    BY <2>5, <2>7, <2>9
  <2> QED BY <2>4, <2>5, <2>10
<1>4. ASSUME NEW d \in Vars, 2 * Lo(d) < 2 * n /\ 2 * n <= 2 * Hi(d)
      PROVE  \E e \in Vars : n \in D(e)
  <2> DEFINE s == SemiOf(d)
             e == [begin |-> d.begin, end |-> s - 1]
  <2>1. d \in Declarations /\ src \in Sources /\ Plain /\ Len(src) \in Nat
    BY VarIs, SourceType DEF Ready, TypeInv, IsTyped
  <2>2. s \in 1..Len(src) /\ Kind(s) = "semi" /\ e \in Declarations
    BY <2>1, Declared
  <2>3. e.begin = d.begin /\ e.end + 1 = s
    BY <2>2
  <2>4. e \in Vars
    BY <2>2, <2>3 DEF Vars
  <2>5. Lo(d) \in Nat /\ Hi(d) \in Nat /\ Hi(d) <= Offset[s] + 1 /\ Offset[s] \in Nat
    BY <2>1, HiIs
  <2>6. Width(s) = 1
    BY <2>2 DEF Width
  <2> HIDE DEF e, s
  <2>7. D(e) = (Lo(d) + 1)..(Offset[s] + 1)
    BY <2>3, <2>6 DEF Lo
  <2> HIDE DEF D
  <2>8. n \in D(e)
    BY <1>4, <2>5, <2>7
  <2> QED BY <2>4, <2>8
<1> HIDE DEF M, D
<1> QED BY <1>1, <1>2, <1>3, <1>4 DEF IsCut

(* What remains of the file.                                               *)
LEMMA TextRemains ==
  ASSUME Ready
  PROVE  /\ \A n \in 1..Offset[Eof] : n \notin Moved => Char(n) \in Remains(Vars, Parts, Puts)
         /\ \A c \in Remains(Vars, Parts, Puts) : c[1] = "text" =>
              \E n \in 1..Offset[Eof] : n \notin Moved /\ c = Char(n)
<1>1. src \in Sources /\ Offset[Eof] \in Nat
  BY TextIs DEF Ready, TypeInv, IsTyped
<1>2. \A n \in 1..Offset[Eof] : /\ n \in Nat /\ Char(n) \in ToSet(Text)
                                /\ n \in Moved <=> IsCut(Vars, Parts, RankOf[Char(n)])
  <2> SUFFICES ASSUME NEW n \in 1..Offset[Eof]
               PROVE  /\ n \in Nat /\ Char(n) \in ToSet(Text)
                      /\ n \in Moved <=> IsCut(Vars, Parts, RankOf[Char(n)])
    OBVIOUS
  <2>1. n \in Nat
    BY <1>1
  <2>2. RankOf[Char(n)] = 2 * n
    BY <2>1, RankIs
  <2>3. n \in Moved <=> IsCut(Vars, Parts, 2 * n)
    BY <2>1, MovedIsCut
  <2>4. Char(n) \in ToSet(Text)
    BY <1>1, TextHas
  <2> QED BY <2>1, <2>2, <2>3, <2>4
<1>3. ASSUME NEW c \in Remains(Vars, Parts, Puts), c[1] = "text"
      PROVE  \E n \in 1..Offset[Eof] : n \notin Moved /\ c = Char(n)
  <2>1. ~IsCut(Vars, Parts, RankOf[c])
    BY DEF Remains
  <2>2. c \in ToSet(Text)
    <3>1. \/ c \in ToSet(Text) \/ c \in UNION {Made(t) : t \in Puts}
          \/ c \in UNION {Made(SetCall(p)) : p \in Parts}
      BY DEF Remains
    <3>2. c \in ToSet(Text) \/ (\E t \in Puts : c \in Made(t)) \/ (\E p \in Parts : c \in Made(SetCall(p)))
      BY <3>1
    <3>3. ASSUME NEW t \in Puts, c \in Made(t) PROVE FALSE
      <4>1. c[1] = t[1] /\ t[1] \in {"threads", "alloc", "undef"}
        BY <3>3, MadeIs, SpotIs
      <4> QED BY <1>3, <4>1
    <3>4. ASSUME NEW p \in Parts, c \in Made(SetCall(p)) PROVE FALSE
      BY <1>3, <3>4, CallIs
    <3> QED BY <3>2, <3>3, <3>4
  <2>3. PICK n \in 1..Offset[Eof] : c = Char(n)
    BY <1>1, <2>2, TextHas
  <2> QED BY <1>2, <2>1, <2>3
<1>4. ASSUME NEW n \in 1..Offset[Eof], n \notin Moved
      PROVE  Char(n) \in Remains(Vars, Parts, Puts)
  BY <1>2, <1>4 DEF Remains
<1> QED BY <1>3, <1>4

(* The file is printed but for what is moved, in order.                    *)
LEMMA RestOfDone ==
  ASSUME Done
  PROVE  LET text == {k \in DOMAIN Output : Output[k][1] = "text"} IN
         /\ {Output[k][2] : k \in text} = DOMAIN Text \ Moved
         /\ \A j, k \in text : j < k => Output[j][2] < Output[k][2]
<1> DEFINE text == {k \in DOMAIN Output : Output[k][1] = "text"}
<1>1. Ready /\ src \in Sources
  BY DEF Done, Ready, TypeInv, IsTyped
<1>2. DOMAIN Text = 1..Offset[Eof] /\ Offset[Eof] \in Nat
  BY <1>1, TextIs
<1>3. ASSUME NEW k \in text
      PROVE  \E n \in 1..Offset[Eof] : n \notin Moved /\ Output[k] = Char(n)
  <2>1. Output[k] \in Remains(Vars, Parts, Puts) /\ Output[k][1] = "text"
    BY OutputIs
  <2> QED BY <1>1, <2>1, TextRemains
<1>4. \A n \in 1..Offset[Eof] : n \in Nat /\ Char(n)[1] = "text" /\ Char(n)[2] = n /\ RankOf[Char(n)] = 2 * n
  <2>1. \A n \in 1..Offset[Eof] : n \in Nat
    BY <1>2
  <2> QED BY <2>1, CharIs, RankIs
<1>5. ASSUME NEW n \in 1..Offset[Eof], n \notin Moved
      PROVE  \E k \in text : Output[k][2] = n
  <2>1. Char(n) \in Remains(Vars, Parts, Puts)
    BY <1>1, <1>5, TextRemains
  <2>2. PICK k \in DOMAIN Output : Output[k] = Char(n)
    BY <2>1, OutputIs
  <2> QED BY <1>4, <2>2
<1>6. {Output[k][2] : k \in text} = DOMAIN Text \ Moved
  <2> HIDE DEF text
  <2>1. \A k \in text : Output[k][2] \in DOMAIN Text \ Moved
    BY <1>2, <1>3, <1>4
  <2>2. \A n \in DOMAIN Text \ Moved : \E k \in text : Output[k][2] = n
    BY <1>2, <1>5
  <2> QED BY <2>1, <2>2
<1>7. ASSUME NEW j \in text, NEW k \in text, j < k PROVE Output[j][2] < Output[k][2]
  <2>1. PICK m \in 1..Offset[Eof] : Output[j] = Char(m)
    BY <1>3
  <2>2. PICK n \in 1..Offset[Eof] : Output[k] = Char(n)
    BY <1>3
  <2>3. InOrder(Char(m), Char(n), RankOf)
    BY <1>7, <2>1, <2>2, OutputIs
  <2>4. 2 * m <= 2 * n
    BY <1>4, <2>3 DEF InOrder
  <2>5. m # n
    <3> SUFFICES ASSUME m = n PROVE FALSE
      OBVIOUS
    <3>1. Char(n)[3] < Char(n)[3]
      BY <2>3 DEF InOrder
    <3>2. Char(n)[3] = 1
      BY DEF Char
    <3> QED BY <3>1, <3>2
  <2>6. m < n
    BY <1>2, <2>4, <2>5
  <2> QED BY <1>4, <2>1, <2>2, <2>6
<1> HIDE DEF text
<1> QED BY <1>6, <1>7 DEF text
-----------------------------------------------------------------------------
(* No variable and no other particle is where the call of a particle is.   *)
LEMMA CallRemains ==
  ASSUME Ready, NEW p \in Parts
  PROVE  Made(SetCall(p)) \subseteq Remains(Vars, Parts, Puts)
<1> DEFINE r == 2 * (Left(p) - 1) + 1
<1>1. \A c \in Made(SetCall(p)) : RankOf[c] = r
  BY CallIs
<1>2. Left(p) \in Nat /\ Right(p) \in Nat /\ Left(p) + 1 < Right(p) - 1
  BY RightIs DEF Ready
<1>3. ASSUME NEW d \in Vars PROVE ~(2 * Lo(d) < r /\ r <= 2 * Hi(d))
  <2>1. \/ Hi(d) < Left(p) - 1
        \/ Right(p) < Lo(d)
        \/ Left(p) < Lo(d)
    BY VarPart
  <2>2. Lo(d) \in Nat /\ Hi(d) \in Nat
    BY VarIs
  <2> QED BY <1>2, <2>1, <2>2
<1>4. ASSUME NEW q \in Parts PROVE ~(2 * Left(q) < r /\ r <= 2 * Right(q))
  <2>1. Left(q) \in Nat /\ Right(q) \in Nat
    BY RightIs DEF Ready
  <2>2. CASE q = p
    BY <1>2, <2>2
  <2>3. CASE q # p
    <3>1. Right(p) < Left(q) - 1 \/ Right(q) < Left(p) - 1
      BY <2>3, PartsApart
    <3> QED BY <1>2, <2>1, <3>1
  <2> QED BY <2>2, <2>3
<1>5. ~IsCut(Vars, Parts, r)
  BY <1>3, <1>4 DEF IsCut
<1> HIDE DEF r
<1>6. ASSUME NEW c \in Made(SetCall(p)) PROVE c \in UNION {Made(SetCall(q)) : q \in Parts}
  BY <1>6
<1> QED BY <1>1, <1>5, <1>6 DEF Remains

(* Calls are printed for the particles that are replaced.                  *)
LEMMA CallsOnly ==
  ASSUME Ready, NEW c \in Remains(Vars, Parts, Puts), c[1] = "set"
  PROVE  \E q \in Parts : c[2] = q.id /\ c \in Made(SetCall(q))
<1>1. \/ c \in ToSet(Text) \/ c \in UNION {Made(t) : t \in Puts}
      \/ c \in UNION {Made(SetCall(p)) : p \in Parts}
  BY DEF Remains
<1>2. c \in ToSet(Text) \/ (\E t \in Puts : c \in Made(t)) \/ (\E p \in Parts : c \in Made(SetCall(p)))
  BY <1>1
<1>3. c \notin ToSet(Text)
  BY TextHas DEF Ready, TypeInv, IsTyped
<1>4. ASSUME NEW t \in Puts, c \in Made(t) PROVE FALSE
  <2>1. c[1] = t[1] /\ t[1] \in {"threads", "alloc", "undef"}
    BY <1>4, MadeIs, SpotIs
  <2> QED BY <2>1
<1>5. PICK q \in Parts : c \in Made(SetCall(q))
  BY <1>2, <1>3, <1>4
<1> QED BY <1>5, CallIs

(* The call of a particle, in the order of its characters.                 *)
LEMMA CallIsWhole ==
  ASSUME Done, NEW p \in Parts
  PROVE  \E j, k \in DOMAIN Output :
           /\ j < k /\ Places("set", p.id) = {j, k}
           /\ Output[j][3] = 1 /\ Output[k][3] = 2
<1>1. Ready
  BY DEF Done
<1>2. p \in AllParticles /\ p.id \in Nat
  BY <1>1, CallIs DEF Parts
<1> DEFINE a == <<"set", p.id, 1>>
           b == <<"set", p.id, 2>>
<1>3. Made(SetCall(p)) = {a, b}
  BY <1>1, CallIs
<1>4. /\ a[1] = "set" /\ a[2] = p.id /\ a[3] = 1
      /\ b[1] = "set" /\ b[2] = p.id /\ b[3] = 2
  OBVIOUS
<1> HIDE DEF a, b
<1>5. PICK j \in DOMAIN Output : Output[j] = a
  BY <1>1, <1>3, CallRemains, OutputIs
<1>6. PICK k \in DOMAIN Output : Output[k] = b
  BY <1>1, <1>3, CallRemains, OutputIs
<1>7. ASSUME NEW m \in Places("set", p.id) PROVE m \in DOMAIN Output /\ (Output[m] = a \/ Output[m] = b)
  <2>1. m \in DOMAIN Output /\ Output[m][1] = "set" /\ Output[m][2] = p.id
    BY DEF Places
  <2>2. Output[m] \in Remains(Vars, Parts, Puts)
    BY <2>1, OutputIs
  <2>3. PICK q \in Parts : Output[m][2] = q.id /\ Output[m] \in Made(SetCall(q))
    BY <1>1, <2>1, <2>2, CallsOnly
  <2>4. q = p
    <3>1. q \in AllParticles /\ q.id = p.id
      BY <2>1, <2>3 DEF Parts
    <3> QED BY <1>1, <1>2, <3>1, PartOfIs DEF Ready
  <2> QED BY <1>3, <2>1, <2>3, <2>4
<1>8. j \in Int /\ k \in Int /\ \A m \in DOMAIN Output : m \in Int
  BY OutputIs
<1>9. ASSUME NEW m \in DOMAIN Output, Output[m] = a PROVE m = j
  <2>1. m <= j /\ j <= m
    BY <1>4, <1>5, <1>9, PlacesApart
  <2> QED BY <1>8, <2>1
<1>10. ASSUME NEW m \in DOMAIN Output, Output[m] = b PROVE m = k
  <2>1. m <= k /\ k <= m
    BY <1>4, <1>6, <1>10, PlacesApart
  <2> QED BY <1>8, <2>1
<1>11. Places("set", p.id) = {j, k}
  <2>1. j \in Places("set", p.id) /\ k \in Places("set", p.id)
    BY <1>4, <1>5, <1>6 DEF Places
  <2> QED BY <1>7, <1>9, <1>10, <2>1
<1>12. j < k
  <2>1. j # k
    BY <1>4, <1>5, <1>6
  <2>2. j <= k
    BY <1>4, <1>5, <1>6, PlacesApart
  <2> QED BY <1>8, <2>1, <2>2
<1> QED BY <1>4, <1>5, <1>6, <1>11, <1>12

(* Every particle in a scope is replaced, and no other.                    *)
LEMMA ParticlesOfDone ==
  ASSUME Done, NEW p \in AllParticles
  PROVE  IF Owners(p) = {} THEN Places("set", p.id) = {}
         ELSE /\ \E j, k \in DOMAIN Output :
                   /\ j < k /\ Places("set", p.id) = {j, k}
                   /\ Output[j][3] = 1 /\ Output[k][3] = 2
              /\ \A n \in (Offset[p.begin] + 1)..(Offset[p.end] + 1) :
                   Places("text", n) = {}
<1>1. Ready
  BY DEF Done
<1>2. ASSUME Owners(p) = {}, NEW m \in Places("set", p.id) PROVE FALSE
  <2>1. m \in DOMAIN Output /\ Output[m][1] = "set" /\ Output[m][2] = p.id
    BY DEF Places
  <2>2. Output[m] \in Remains(Vars, Parts, Puts)
    BY <2>1, OutputIs
  <2>3. PICK q \in Parts : Output[m][2] = q.id /\ Output[m] \in Made(SetCall(q))
    BY <1>1, <2>1, <2>2, CallsOnly
  <2>4. q = p
    <3>1. q \in AllParticles /\ q.id = p.id
      BY <2>1, <2>3 DEF Parts
    <3> QED BY <1>1, <3>1, PartOfIs DEF Ready
  <2> QED BY <1>2, <2>4 DEF Parts
<1>3. ASSUME Owners(p) # {}, NEW n \in (Offset[p.begin] + 1)..(Offset[p.end] + 1),
             NEW k \in Places("text", n)
      PROVE  FALSE
  <2>1. p \in Parts
    BY <1>3 DEF Parts
  <2>2. Left(p) \in Nat /\ Right(p) \in Nat
    BY <1>1, <2>1, RightIs DEF Ready
  <2>3. n \in (Left(p) + 1)..Right(p)
    BY <1>3 DEF Left, Right
  <2>4. n \in Nat /\ 2 * Left(p) < 2 * n /\ 2 * n <= 2 * Right(p)
    BY <2>2, <2>3
  <2>5. n \in Moved
    <3>1. IsCut(Vars, Parts, 2 * n)
      BY <2>1, <2>4 DEF IsCut
    <3> QED BY <1>1, <2>4, <3>1, MovedIsCut
  <2>6. k \in DOMAIN Output /\ Output[k][1] = "text" /\ Output[k][2] = n
    BY DEF Places
  <2>7. Output[k] \in Remains(Vars, Parts, Puts)
    BY <2>6, OutputIs
  <2>8. PICK m \in 1..Offset[Eof] : m \notin Moved /\ Output[k] = Char(m)
    BY <1>1, <2>6, <2>7, TextRemains
  <2>9. Char(m)[2] = m
    BY DEF Char
  <2> QED BY <2>5, <2>6, <2>8, <2>9
<1>4. ASSUME Owners(p) # {}
      PROVE  \E j, k \in DOMAIN Output :
                   /\ j < k /\ Places("set", p.id) = {j, k}
                   /\ Output[j][3] = 1 /\ Output[k][3] = 2
  <2>1. p \in Parts
    BY <1>4 DEF Parts
  <2> QED BY <2>1, CallIsWhole
<1> QED BY <1>2, <1>3, <1>4
-----------------------------------------------------------------------------
(* A text that is not put into a particle is printed.                      *)
LEMMA PutIsShown ==
  ASSUME Done, NEW t \in Puts,
         \A p \in Parts : Spot(t) < Left(p) - 1 \/ Right(p) < Spot(t)
  PROVE  Shown(t[1], t[2], 2 * Spot(t) + 1)
<1> DEFINE r == 2 * Spot(t) + 1
           c == <<t[1], t[2], 1>>
<1>1. Ready
  BY DEF Done
<1>2. Spot(t) \in Nat
  BY <1>1, SpotIs
<1>3. c \in Made(t) /\ RankOf[c] = r /\ c[1] = t[1] /\ c[2] = t[2]
  BY <1>1, MadeIs
<1>4. ASSUME NEW d \in Vars PROVE ~(2 * Lo(d) < r /\ r <= 2 * Hi(d))
  <2>1. Spot(t) < Lo(d) \/ Hi(d) <= Spot(t)
    <3>1. Spot(t) < Lo(d) \/ Hi(d) < Spot(t) \/ Hi(d) <= Spot(t)
      BY <1>1, SpotIs
    <3>2. Hi(d) \in Nat
      BY <1>1, VarIs
    <3> QED BY <1>2, <3>1, <3>2
  <2>2. Lo(d) \in Nat /\ Hi(d) \in Nat
    BY <1>1, VarIs
  <2> QED BY <1>2, <2>1, <2>2
<1>5. ASSUME NEW p \in Parts PROVE ~(2 * Left(p) < r /\ r <= 2 * Right(p))
  <2>1. Left(p) \in Nat /\ Right(p) \in Nat
    BY <1>1, RightIs DEF Ready
  <2>2. Spot(t) < Left(p) - 1 \/ Right(p) < Spot(t)
    OBVIOUS
  <2> QED BY <1>2, <2>1, <2>2
<1>6. ~IsCut(Vars, Parts, r)
  BY <1>4, <1>5 DEF IsCut
<1> HIDE DEF r, c
<1>7. c \in UNION {Made(u) : u \in Puts}
  BY <1>3
<1>8. c \in Remains(Vars, Parts, Puts)
  BY <1>3, <1>6, <1>7 DEF Remains
<1>9. Shown(c[1], c[2], RankOf[c])
  BY <1>8, OneIsShown
<1> QED BY <1>3, <1>9 DEF r

LEMMA CallIsShown ==
  ASSUME Done, NEW p \in Parts
  PROVE  Shown("set", p.id, 2 * (Left(p) - 1) + 1)
<1> DEFINE c == <<"set", p.id, 1>>
<1>1. Ready
  BY DEF Done
<1>2. c \in Made(SetCall(p)) /\ c[1] = "set" /\ c[2] = p.id
  BY <1>1, CallIs
<1> HIDE DEF c
<1>3. RankOf[c] = 2 * (Left(p) - 1) + 1 /\ c \in Remains(Vars, Parts, Puts)
  BY <1>1, <1>2, CallIs, CallRemains
<1>4. Shown(c[1], c[2], RankOf[c])
  BY <1>3, OneIsShown
<1> QED BY <1>2, <1>3, <1>4

(* The first characters of a function with a scope, and of its end.        *)
LEMMA EdgeIsShown ==
  ASSUME Done, NEW f \in Scopes, NEW x \in EdgesOf(f)
  PROVE  Shown("text", x + 1, 2 * (x + 1))
<1>1. Ready /\ src \in Sources
  BY DEF Done, Ready, TypeInv, IsTyped
<1>2. x \in Nat /\ x + 1 \in 1..Offset[Eof] /\ x + 1 \in Nat
  <2>1. x \in Nat /\ x < Offset[Eof] /\ Offset[Eof] \in Nat
    <3>1. /\ Offset[f] \in Nat /\ Offset[FunctionEnd(f)] \in Nat
          /\ Offset[f] < Offset[FunctionEnd(f)] /\ Offset[FunctionEnd(f)] < Offset[Eof]
      BY <1>1, ScopeIs
    <3>2. Offset[Eof] \in Nat
      BY <1>1, TextIs
    <3> QED BY <3>1, <3>2 DEF EdgesOf
  <2> QED BY <2>1
<1>3. ASSUME NEW d \in Vars PROVE ~(2 * Lo(d) < 2 * (x + 1) /\ 2 * (x + 1) <= 2 * Hi(d))
  <2>1. x < Lo(d) \/ Hi(d) < x
    BY <1>1, EndsApart
  <2>2. Lo(d) \in Nat /\ Hi(d) \in Nat
    BY <1>1, VarIs
  <2> QED BY <1>2, <2>1, <2>2
<1>4. ASSUME NEW p \in Parts PROVE ~(2 * Left(p) < 2 * (x + 1) /\ 2 * (x + 1) <= 2 * Right(p))
  <2>1. x < Left(p) - 1 \/ Right(p) < x
    BY <1>1, EndsApart
  <2>2. Left(p) \in Nat /\ Right(p) \in Nat
    BY <1>1, RightIs DEF Ready
  <2> QED BY <1>2, <2>1, <2>2
<1>5. x + 1 \notin Moved
  <2>1. ~IsCut(Vars, Parts, 2 * (x + 1))
    BY <1>3, <1>4 DEF IsCut
  <2> QED BY <1>1, <1>2, <2>1, MovedIsCut
<1> DEFINE c == Char(x + 1)
<1>6. c[1] = "text" /\ c[2] = x + 1 /\ RankOf[c] = 2 * (x + 1)
  BY <1>2, CharIs, RankIs
<1>7. c \in Remains(Vars, Parts, Puts)
  BY <1>1, <1>2, <1>5, TextRemains
<1> HIDE DEF c
<1>8. Shown(c[1], c[2], RankOf[c])
  BY <1>7, OneIsShown
<1> QED BY <1>6, <1>8

(* The texts of the function f and of a particle p that it owns, when its  *)
(* variables are declared before its particles.                            *)
LEMMA TextsOfDone ==
  ASSUME Done, NEW f \in Scopes, NEW p \in Parts, f \in Owners(p),
         \A d \in VariablesOf(f), q \in Parts : f \in Owners(q) => d.end < q.begin
  PROVE  /\ Precedes(Places("threads", f), Places("text", Offset[f] + 1))
         /\ Precedes(Places("text", Offset[f] + 1), Places("alloc", f))
         /\ Precedes(Places("alloc", f), Places("set", p.id))
         /\ Precedes(Places("set", p.id), Places("undef", f))
         /\ Precedes(Places("undef", f), Places("text", Offset[FunctionEnd(f)] + 1))
<1>1. Ready /\ src \in Sources /\ Plain
  BY DEF Done, Ready, TypeInv, IsTyped
<1> DEFINE threadsOf == <<"threads", f>>
           alloc == <<"alloc", f>>
           undef == <<"undef", f>>
           x == Offset[f]
           y == Offset[FunctionEnd(f)]
           l == LastOf(f)
           z == Left(p) - 1
<1>2. /\ threadsOf \in Puts /\ alloc \in Puts /\ undef \in Puts
      /\ threadsOf[1] = "threads" /\ alloc[1] = "alloc" /\ undef[1] = "undef"
      /\ threadsOf[2] = f /\ alloc[2] = f /\ undef[2] = f
  BY DEF Puts
<1> HIDE DEF threadsOf, alloc, undef
<1>3. Spot(threadsOf) = x /\ Spot(undef) = y /\ Spot(alloc) = Hi(l)
  BY <1>2 DEF Spot, Anchor
<1>4. x \in Nat /\ y \in Nat /\ x \in EdgesOf(f) /\ y \in EdgesOf(f) /\ x < y
  BY <1>1, ScopeIs DEF EdgesOf
<1>5. l \in VariablesOf(f) /\ l \in Vars /\ l \in Declarations /\ Container(l.begin) = f
  BY <1>1, LastIs DEF VariablesOf
<1> HIDE DEF x, y, l
<1>6. Lo(l) \in Nat /\ Hi(l) \in Nat /\ Lo(l) < Hi(l)
  BY <1>1, <1>5, VarIs
<1>7. /\ f \in 0..Eof /\ FunctionEnd(f) \in 0..Eof /\ l.begin \in 0..Eof /\ l.end \in 0..Eof
      /\ p.begin \in 0..Eof /\ l.begin <= l.end
  <2>1. Len(src) \in Nat /\ Eof = Len(src) + 1
    BY <1>1, SourceType DEF Eof
  <2>2. f \in 1..Len(src) /\ FunctionEnd(f) \in 1..Len(src)
    BY <1>1, ScopeIs
  <2>3. l.begin \in 1..Len(src) /\ l.end \in 1..Len(src) /\ l.begin <= l.end
    BY <1>1, <1>5, Declared
  <2>4. p.begin \in 1..Len(src)
    BY <1>1, ParticleIs DEF Ready
  <2> QED BY <2>1, <2>2, <2>3, <2>4
<1>8. x + 1 <= Hi(l)
  <2>1. f <= l.begin
    <3>1. Within(f, l.begin)
      BY <1>1, <1>5, VarIs
    <3> QED BY <1>7, <3>1 DEF Within
  <2>2. x <= Lo(l)
    BY <1>1, <1>7, <2>1, OffsetsInOrder DEF x, Lo
  <2> QED BY <1>4, <1>6, <2>2
<1>9. z \in Nat /\ Left(p) \in Nat /\ Right(p) \in Nat /\ Left(p) + 1 < Right(p) - 1 /\ z = Left(p) - 1
  <2>1. Left(p) \in Nat /\ Right(p) \in Nat /\ Left(p) >= 1 /\ Left(p) + 1 < Right(p) - 1
    BY <1>1, RightIs DEF Ready
  <2> QED BY <2>1
<1> HIDE DEF z
<1>10. ASSUME NEW q \in Parts, f \in Owners(q) PROVE Hi(l) < Left(q) - 1
  <2>1. l.end < q.begin
    BY <1>5, <1>10
  <2>2. \/ Hi(l) < Left(q) - 1
        \/ Right(q) < Lo(l)
        \/ Left(q) < Lo(l)
    BY <1>1, <1>5, VarPart
  <2>3. Left(q) \in Nat /\ Right(q) \in Nat /\ Left(q) + 1 < Right(q) - 1
    BY <1>1, RightIs DEF Ready
  <2>4. Lo(l) <= Left(q)
    <3>1. q.begin \in 0..Eof
      <4>1. Len(src) \in Nat /\ Eof = Len(src) + 1
        BY <1>1, SourceType DEF Eof
      <4>2. q.begin \in 1..Len(src)
        BY <1>1, ParticleIs DEF Ready
      <4> QED BY <4>1, <4>2
    <3>2. l.begin <= q.begin
      BY <1>7, <2>1, <3>1
    <3> QED BY <1>1, <1>7, <3>1, <3>2, OffsetsInOrder DEF Lo, Left
  <2> QED BY <1>6, <2>2, <2>3, <2>4
<1>11. Hi(l) < z
  BY <1>9, <1>10
<1>12. z < y
  <2>1. y < Left(p) - 1 \/ Right(p) < y
    BY <1>1, <1>4, EndsApart
  <2>2. Left(p) <= y
    <3>1. p.begin <= FunctionEnd(f)
      <4>1. Within(f, p.begin)
        BY DEF Owners
      <4> QED BY <1>7, <4>1 DEF Within
    <3> QED BY <1>1, <1>7, <3>1, OffsetsInOrder DEF y, Left
  <2> QED BY <1>4, <1>9, <2>1, <2>2
<1>13. Shown("threads", f, 2 * x + 1) /\ Shown("undef", f, 2 * y + 1)
  <2>1. \A q \in Parts : /\ x < Left(q) - 1 \/ Right(q) < x
                         /\ y < Left(q) - 1 \/ Right(q) < y
    BY <1>1, <1>4, EndsApart
  <2>2. Shown(threadsOf[1], threadsOf[2], 2 * Spot(threadsOf) + 1)
    BY <1>2, <1>3, <2>1, PutIsShown
  <2>3. Shown(undef[1], undef[2], 2 * Spot(undef) + 1)
    BY <1>2, <1>3, <2>1, PutIsShown
  <2> QED BY <1>2, <1>3, <2>2, <2>3
<1>14. Shown("alloc", f, 2 * Hi(l) + 1)
  <2>1. ASSUME NEW q \in Parts PROVE Spot(alloc) < Left(q) - 1 \/ Right(q) < Spot(alloc)
    <3>1. CASE f \in Owners(q)
      BY <1>3, <1>10, <3>1
    <3>2. CASE f \notin Owners(q)
      BY <1>1, <1>2, <3>2, SpotIs
    <3> QED BY <3>1, <3>2
  <2>2. Shown(alloc[1], alloc[2], 2 * Spot(alloc) + 1)
    BY <1>2, <2>1, PutIsShown
  <2> QED BY <1>2, <1>3, <2>2
<1>15. Shown("set", p.id, 2 * z + 1)
  BY CallIsShown DEF z
<1>16. Shown("text", x + 1, 2 * (x + 1)) /\ Shown("text", y + 1, 2 * (y + 1))
  BY <1>4, EdgeIsShown
<1>17. /\ 2 * x + 1 < 2 * (x + 1) /\ 2 * (x + 1) < 2 * Hi(l) + 1 /\ 2 * Hi(l) + 1 < 2 * z + 1
       /\ 2 * z + 1 < 2 * y + 1 /\ 2 * y + 1 < 2 * (y + 1)
  BY <1>4, <1>6, <1>8, <1>9, <1>11, <1>12
<1>18. /\ Precedes(Places("threads", f), Places("text", x + 1))
       /\ Precedes(Places("text", x + 1), Places("alloc", f))
  BY <1>13, <1>14, <1>16, <1>17, ShownInOrder
<1>19. Precedes(Places("alloc", f), Places("set", p.id))
  BY <1>14, <1>15, <1>17, ShownInOrder
<1>20. /\ Precedes(Places("set", p.id), Places("undef", f))
       /\ Precedes(Places("undef", f), Places("text", y + 1))
  BY <1>13, <1>15, <1>16, <1>17, ShownInOrder
<1> QED BY <1>18, <1>19, <1>20 DEF x, y
-----------------------------------------------------------------------------
(* All that is known of a run over a file.                                 *)
FileInv ==
  /\ TypeInv /\ AtMostOneFrame /\ SpansInOrder /\ Registered
  /\ ProxyInv /\ VarsInv /\ BufferInv

LEMMA FileInvKept ==
  ASSUME MaxDepth = 1
  PROVE  ProxySpec => []FileInv
<1>1. ProxyInit => FileInv
  BY SpansInit, TypeInvInit, TokensInit, ProxyInvInit, RegisteredInit, VarsInvInit,
     BufferInvInit DEF ProxyInit, FileInv
<1>2. FileInv /\ [ProxyNext]_allVars => FileInv'
  <2> SUFFICES ASSUME FileInv, [ProxyNext]_allVars PROVE FileInv'
    OBVIOUS
  <2>1. NoNesting
    BY DEF NoNesting
  <2>2. TypeInv' /\ AtMostOneFrame' /\ SpansInOrder' /\ Registered' /\ ProxyInv'
    BY <2>1, ProxyStep, TypeInvStep, OneFrameStep, SpansStep, ProxyInvStep, RegisteredStep
       DEF FileInv
  <2>3. VarsInv' /\ BufferInv'
    BY VarsInvStep, BufferInvStep DEF FileInv
  <2> QED BY <2>2, <2>3 DEF FileInv
<1> QED BY <1>1, <1>2, PTL DEF ProxySpec

(* For plain files with particles that do not nest, any widths and spaces, *)
(* and the scopes in any order: no removal is asked for what is no longer  *)
(* there, and what is printed of the file is exactly what lies outside of  *)
(* the particles and declarations of the scopes, each character once and   *)
(* in order.                                                               *)
THEOREM FileIsKept ==
  ASSUME MaxDepth = 1
  PROVE  ProxySpec => []RestIsKept
<1>1. FileInv => RestIsKept
  <2> SUFFICES ASSUME FileInv PROVE RestIsKept
    OBVIOUS
  <2>1. phase = "undefined" => ~Plain
    BY DEF FileInv, BufferInv
  <2>2. Printed /\ Plain => Done
    BY PrintedIsDone DEF FileInv
  <2> QED BY <2>1, <2>2, RestOfDone DEF RestIsKept
<1> QED BY <1>1, FileInvKept, PTL

(* For the same files: a particle is replaced by one call, which is whole  *)
(* and where no later edit cuts it, exactly when it has an owner, and then *)
(* nothing of the particle is left.                                        *)
THEOREM ParticlesAreReplaced ==
  ASSUME MaxDepth = 1
  PROVE  ProxySpec => []ParticlesAreMoved
<1>1. FileInv => ParticlesAreMoved
  <2> SUFFICES ASSUME FileInv, Printed, Plain PROVE ParticlesAreMoved
    BY DEF ParticlesAreMoved
  <2>1. Done
    BY PrintedIsDone DEF FileInv
  <2> QED BY <2>1, ParticlesOfDone DEF ParticlesAreMoved
<1> QED BY <1>1, FileInvKept, PTL

(* For the same files: what is put into the file for a function comes in   *)
(* the order in which C needs it.                                          *)
THEOREM TextsAreInOrder ==
  ASSUME MaxDepth = 1
  PROVE  ProxySpec => []TextsInOrder
<1>1. FileInv => TextsInOrder
  <2> SUFFICES ASSUME FileInv, Printed, Plain, NEW f \in DOMAIN scopes,
                      \A d \in VariablesOf(f), q \in {q \in AllParticles : f \in Owners(q)} :
                        d.end < q.begin,
                      NEW p \in {p \in AllParticles : f \in Owners(p)}
               PROVE  LET texts == <<Places("threads", f), Places("text", Offset[f] + 1),
                                     Places("alloc", f), Places("set", p.id),
                                     Places("undef", f), Places("text", Offset[FunctionEnd(f)] + 1)>>
                      IN  \A n \in 1..5 : Precedes(texts[n], texts[n + 1])
    BY DEF TextsInOrder
  <2>1. Done
    BY PrintedIsDone DEF FileInv
  <2>2. f \in Scopes
    BY ScopesAre DEF FileInv, Printed
  <2>3. p \in Parts /\ f \in Owners(p)
    BY DEF Parts
  <2>4. \A d \in VariablesOf(f), q \in Parts : f \in Owners(q) => d.end < q.begin
    BY DEF Parts
  <2>5. /\ Precedes(Places("threads", f), Places("text", Offset[f] + 1))
        /\ Precedes(Places("text", Offset[f] + 1), Places("alloc", f))
        /\ Precedes(Places("alloc", f), Places("set", p.id))
        /\ Precedes(Places("set", p.id), Places("undef", f))
        /\ Precedes(Places("undef", f), Places("text", Offset[FunctionEnd(f)] + 1))
    BY <2>1, <2>2, <2>3, <2>4, TextsOfDone
  <2> QED
    <3> DEFINE a == Places("threads", f)
               b == Places("text", Offset[f] + 1)
               c == Places("alloc", f)
               d == Places("set", p.id)
               e == Places("undef", f)
               g == Places("text", Offset[FunctionEnd(f)] + 1)
    <3>1. Precedes(a, b) /\ Precedes(b, c) /\ Precedes(c, d) /\ Precedes(d, e) /\ Precedes(e, g)
      BY <2>5
    <3> HIDE DEF a, b, c, d, e, g
    <3> SUFFICES ASSUME NEW n \in 1..5
                 PROVE  Precedes(<<a, b, c, d, e, g>>[n], <<a, b, c, d, e, g>>[n + 1])
      BY DEF a, b, c, d, e, g
    <3>2. n = 1 \/ n = 2 \/ n = 3 \/ n = 4 \/ n = 5
      OBVIOUS
    <3> QED BY <3>1, <3>2
<1> QED BY <1>1, FileInvKept, PTL
=============================================================================
