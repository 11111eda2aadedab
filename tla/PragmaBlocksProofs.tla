------------------------- MODULE PragmaBlocksProofs -------------------------
(***************************************************************************)
(* Proofs about PragmaHandler: where the range of a particle ends, and     *)
(* that each use of __synchronized becomes one block. Both are about files *)
(* whose particles do not nest (NoNesting).                                *)
(***************************************************************************)
EXTENDS PragmaHandlerProofs, FiniteSetTheorems

(* Counting the items of a kind, one more item at a time.                  *)
LEMMA BracesSteps ==
  ASSUME NEW k, NEW b \in Int, NEW r \in Int
  PROVE  /\ Braces(k, b, r) \in Nat
         /\ b > r => Braces(k, b, r) = 0
         /\ b <= r => Braces(k, b, r) = Braces(k, b, r - 1) + (IF Kind(r) = k THEN 1 ELSE 0)
<1> DEFINE S(x) == {q \in b..x : Kind(q) = k}
<1>1. ASSUME NEW x \in Int PROVE IsFiniteSet(S(x)) /\ Cardinality(S(x)) \in Nat
  <2>1. IsFiniteSet(b..x)
    BY FS_Interval
  <2>2. IsFiniteSet(S(x))
    BY <2>1, FS_Subset
  <2> QED BY <2>2, FS_CardinalityType
<1>2. \A x : Braces(k, b, x) = Cardinality(S(x))
  BY DEF Braces
<1>3. ASSUME b > r PROVE Braces(k, b, r) = 0
  <2>1. S(r) = {}
    BY <1>3
  <2> QED BY <1>2, <2>1, FS_EmptySet
<1>4. ASSUME b <= r
      PROVE  Braces(k, b, r) = Braces(k, b, r - 1) + (IF Kind(r) = k THEN 1 ELSE 0)
  <2>1. CASE Kind(r) = k
    <3>1. S(r) = S(r - 1) \cup {r} /\ r \notin S(r - 1)
      BY <1>4, <2>1
    <3>2. IsFiniteSet(S(r - 1)) /\ Cardinality(S(r - 1)) \in Nat
      BY <1>1
    <3> HIDE DEF S
    <3>3. Cardinality(S(r)) = Cardinality(S(r - 1)) + 1
      BY <3>1, <3>2, FS_AddElement
    <3> QED BY <1>2, <2>1, <3>3
  <2>2. CASE Kind(r) # k
    <3>1. S(r) = S(r - 1)
      BY <1>4, <2>2
    <3>2. Cardinality(S(r - 1)) \in Nat
      BY <1>1
    <3> HIDE DEF S
    <3> QED BY <1>2, <2>2, <3>1, <3>2
  <2> QED BY <2>1, <2>2
<1>5. Braces(k, b, r) \in Nat
  BY <1>1, <1>2
<1> QED BY <1>3, <1>4, <1>5

(* How many of the braces from b to x are not closed.                      *)
Depth(b, x) == Braces("lb", b, x) - Braces("rb", b, x)

(* The same for the braces that are not closed.                            *)
LEMMA DepthSteps ==
  ASSUME NEW b \in Int, NEW r \in Int
  PROVE  /\ Depth(b, r) \in Int
         /\ b > r => Depth(b, r) = 0
         /\ b <= r => Depth(b, r) = Depth(b, r - 1) + Brace(r)
         /\ Depth(b, r) = 0 <=> Braces("lb", b, r) = Braces("rb", b, r)
<1>1. /\ Braces("lb", b, r) \in Nat /\ Braces("rb", b, r) \in Nat
      /\ b > r => Braces("lb", b, r) = 0 /\ Braces("rb", b, r) = 0
  BY BracesSteps
<1>2. Braces("lb", b, r - 1) \in Nat /\ Braces("rb", b, r - 1) \in Nat
  BY BracesSteps
<1>3. ASSUME b <= r PROVE Depth(b, r) = Depth(b, r - 1) + Brace(r)
  <2>1. /\ Braces("lb", b, r) = Braces("lb", b, r - 1) + (IF Kind(r) = "lb" THEN 1 ELSE 0)
        /\ Braces("rb", b, r) = Braces("rb", b, r - 1) + (IF Kind(r) = "rb" THEN 1 ELSE 0)
    BY <1>3, BracesSteps
  <2> QED BY <1>1, <1>2, <2>1, BraceCases DEF Depth
<1> QED BY <1>1, <1>3 DEF Depth

(* The brace at b is not closed before r.                                  *)
IsOpen(b, r) == /\ b < r
                /\ Kind(b) = "lb"
                /\ \A x \in b..(r - 1) : Depth(b, x) >= 1

(* A brace stays open while the count is positive.                         *)
LEMMA IsOpenSteps ==
  ASSUME NEW b \in Nat, NEW r \in Nat
  PROVE  /\ IsOpen(b, r) /\ Depth(b, r) >= 1 => IsOpen(b, r + 1)
         /\ b = r /\ Kind(b) = "lb" => IsOpen(b, r + 1) /\ Depth(b, r) = 1
<1>1. ASSUME IsOpen(b, r), Depth(b, r) >= 1 PROVE IsOpen(b, r + 1)
  BY <1>1 DEF IsOpen
<1>2. ASSUME b = r, Kind(b) = "lb" PROVE IsOpen(b, r + 1) /\ Depth(b, r) = 1
  <2>1. Depth(b, r) = Depth(b, r - 1) + 1 /\ Depth(b, r - 1) = 0
    BY <1>2, DepthSteps, BraceCases
  <2> QED BY <1>2, <2>1 DEF IsOpen
<1> QED BY <1>1, <1>2

(* The brace that closes b is the first where the count is 0.              *)
LEMMA MatchingFound ==
  ASSUME src \in Sources, NEW b \in Nat, NEW r \in Nat, NEW none, r <= Eof,
         IsOpen(b, r)
  PROVE  /\ Depth(b, r) <= 0 => /\ Kind(r) = "rb" /\ r \in 1..Len(src)
                                /\ Matching(b, none) = r
         /\ r = Eof => Matching(b, none) = none
<1> DEFINE S == {e \in b..Len(src) : /\ Kind(e) = "rb"
                                     /\ Braces("lb", b, e) = Braces("rb", b, e)}
<1>1. b < r /\ \A x \in b..(r - 1) : Depth(b, x) >= 1
  BY DEF IsOpen
<1>2. Len(src) \in Nat /\ Eof = Len(src) + 1
  BY SourceType DEF Eof
<1>3. \A e \in S : e \in Nat /\ e >= r
  <2> SUFFICES ASSUME NEW e \in S PROVE e >= r
    OBVIOUS
  <2>1. e \in b..Len(src) /\ Depth(b, e) = 0
    BY DepthSteps
  <2> QED BY <1>1, <2>1
<1>4. ASSUME Depth(b, r) <= 0
      PROVE  Kind(r) = "rb" /\ r \in 1..Len(src) /\ Matching(b, none) = r
  <2>1. Depth(b, r) = Depth(b, r - 1) + Brace(r) /\ Depth(b, r - 1) >= 1
        /\ Depth(b, r - 1) \in Int /\ Depth(b, r) \in Int
    BY <1>1, DepthSteps
  <2>2. Kind(r) = "rb" /\ Depth(b, r) = 0
    BY <1>4, <2>1, BraceCases
  <2>3. r \in 1..Len(src)
    BY <1>1, <1>2, <2>2, EofKind DEF Positions
  <2>4. r \in S
    BY <1>1, <2>2, <2>3, DepthSteps
  <2>5. S \in SUBSET Nat
    BY <1>3
  <2> HIDE DEF S
  <2>6. Least(S, none) = r
    BY <1>3, <2>4, <2>5, LeastIs
  <2> QED BY <2>2, <2>3, <2>6 DEF Matching, S
<1>5. ASSUME r = Eof PROVE Matching(b, none) = none
  <2>1. S = {}
    BY <1>2, <1>3, <1>5
  <2> QED BY <2>1, Zenon DEF Matching, Least
<1> QED BY <1>4, <1>5
-----------------------------------------------------------------------------
(* A range of items, and a sequence of blocks, without braces.             *)
Flat(first, last) == \A q \in first..last : Brace(q) = 0

AllFlat(blocks) == \A n \in 1..Len(blocks) : Flat(blocks[n].begin, blocks[n].end)

(* The braces of f count those from its beginning to the item before r.    *)
Counts(f, r) == IsOpen(f.begin, r) /\ f.braces = Depth(f.begin, r - 1)

(* Frame f when every item before r has been read.                         *)
CountsBraces(f, r) ==
  /\ f.mode = "open" => f.begin = 0 /\ f.blocks = <<>>
  /\ f.mode # "done" => f.end = 0
  /\ f.mode \in {"scan", "braced", "line"} => f.begin # 0
  /\ f.mode = "braced" => f.start < r /\ Brace(f.start) = 1
  /\ f.mode = "line" => f.start < r
  /\ f.begin # 0 /\ AllFlat(f.blocks) =>
       /\ f.mode = "scan" => Counts(f, r)
       /\ f.mode = "line" /\ Flat(f.start, r - 1) => Counts(f, r)
       /\ f.mode = "done" => f.end = Matching(f.begin, 0)

(* What the loops do to the counts. The end of a turn;                     *)
LEMMA LeaveCounts ==
  ASSUME src \in Sources, NEW f \in FrameSet, NEW r \in 1..Eof,
         f.end = 0, f.begin = 0 => f.braces = 0,
         f.begin # 0 /\ AllFlat(f.blocks) =>
           IsOpen(f.begin, r) /\ f.braces = Depth(f.begin, r)
  PROVE  CountsBraces(Leave(f, r), r + 1)
<1>1. /\ f.braces \in Nat /\ f.begin \in Nat /\ r \in Nat /\ r <= Eof /\ Eof \in Nat
  BY EofKind DEF FrameSet
<1>2. CASE f.braces = 0 \/ Kind(r) = "eof"
  <2> DEFINE e == IF Kind(r) = "rb" THEN r ELSE f.end
             g == [f EXCEPT !.mode = "done", !.end = e]
  <2>1. Leave(f, r) = g
    BY <1>2 DEF Leave
  <2> HIDE DEF e
  <2>2. g.mode = "done" /\ g.end = e /\ g.begin = f.begin /\ g.blocks = f.blocks
    BY DEF FrameSet
  <2> HIDE DEF g
  <2>3. ASSUME f.begin # 0, AllFlat(f.blocks) PROVE e = Matching(f.begin, 0)
    <3>1. IsOpen(f.begin, r) /\ f.braces = Depth(f.begin, r)
      BY <2>3
    <3>2. CASE f.braces = 0
      <4>1. Kind(r) = "rb" /\ Matching(f.begin, 0) = r
        <5>1. Depth(f.begin, r) <= 0
          BY <3>1, <3>2
        <5> QED BY <1>1, <3>1, <5>1, MatchingFound
      <4> QED BY <4>1 DEF e
    <3>3. CASE Kind(r) = "eof"
      <4>1. r = Eof
        BY <3>3, EofKind DEF Positions
      <4>2. Matching(f.begin, 0) = 0
        BY <1>1, <3>1, <4>1, MatchingFound
      <4> QED BY <3>3, <4>2 DEF e
    <3> QED BY <1>2, <3>2, <3>3
  <2> QED BY <2>1, <2>2, <2>3 DEF CountsBraces
<1>3. CASE ~(f.braces = 0 \/ Kind(r) = "eof")
  <2> DEFINE g == [f EXCEPT !.mode = "scan"]
  <2>1. Leave(f, r) = g
    BY <1>3 DEF Leave
  <2>2. g.mode = "scan" /\ g.end = f.end /\ g.begin = f.begin /\ g.blocks = f.blocks
        /\ g.braces = f.braces
    BY DEF FrameSet
  <2> HIDE DEF g
  <2>3. ASSUME f.begin # 0, AllFlat(f.blocks)
        PROVE  IsOpen(f.begin, r + 1) /\ f.braces = Depth(f.begin, (r + 1) - 1)
    <3>1. (r + 1) - 1 = r /\ f.braces >= 1
      BY <1>1, <1>3
    <3> QED BY <1>1, <2>3, <3>1, IsOpenSteps
  <2> QED BY <1>3, <2>1, <2>2, <2>3 DEF CountsBraces, Counts
<1> QED BY <1>2, <1>3

(* a turn outside of a block;                                              *)
LEMMA CountCounts ==
  ASSUME src \in Sources, NEW f \in FrameSet, NEW r \in 1..Eof, f.braces >= 1,
         f.end = 0, f.begin # 0, AllFlat(f.blocks) => Counts(f, r)
  PROVE  CountsBraces(Count(f, r), r + 1)
<1> DEFINE n == f.braces + Brace(r)
           g == [f EXCEPT !.braces = n]
<1>1. f.braces \in Nat /\ f.begin \in Nat /\ r \in Nat
  BY EofKind DEF FrameSet
<1>2. n \in Nat
  BY <1>1, BraceCases
<1>3. Count(f, r) = Leave(g, r)
  BY DEF Count
<1>4. AllFlat(f.blocks) => IsOpen(f.begin, r) /\ n = Depth(f.begin, r)
  <2> SUFFICES ASSUME Counts(f, r) PROVE IsOpen(f.begin, r) /\ n = Depth(f.begin, r)
    OBVIOUS
  <2>1. f.begin <= r
    BY <1>1 DEF Counts, IsOpen
  <2>2. Depth(f.begin, r) = Depth(f.begin, r - 1) + Brace(r)
    <3>1. f.begin \in Int /\ r \in Int
      BY <1>1
    <3> QED BY <2>1, <3>1, DepthSteps, Zenon
  <2> QED BY <2>2 DEF Counts
<1> HIDE DEF n
<1>5. g \in FrameSet /\ g.end = 0 /\ g.begin = f.begin /\ g.blocks = f.blocks
      /\ g.braces = n
  BY <1>2 DEF FrameSet
<1> HIDE DEF g
<1>6. CountsBraces(Leave(g, r), r + 1)
  BY <1>4, <1>5, LeaveCounts
<1> QED BY <1>3, <1>6

(* a turn that ends a block, where its last token is counted twice unless  *)
(* it is not a brace;                                                      *)
LEMMA EndBlockCounts ==
  ASSUME src \in Sources, NEW f \in FrameSet, NEW r \in 1..Eof, f.braces >= 1,
         f.end = 0, f.begin # 0,
         AllFlat(f.blocks) /\ Flat(f.start, r) => Counts(f, r)
  PROVE  CountsBraces(EndBlock(f, r), r + 1)
<1> DEFINE b == [begin |-> f.start, end |-> r]
           bs == Append(f.blocks, b)
           g == [f EXCEPT !.blocks = bs]
<1>1. b \in Block /\ f.blocks \in Seq(Block) /\ Len(f.blocks) \in Nat
  BY EofKind, LenProperties DEF FrameSet, Block
<1>2. EndBlock(f, r) = Count(g, r)
  BY DEF EndBlock
<1>3. b.begin = f.start /\ b.end = r
  OBVIOUS
<1> HIDE DEF b
<1>4. bs \in Seq(Block) /\ Len(bs) = Len(f.blocks) + 1 /\ bs[Len(f.blocks) + 1] = b
      /\ \A n \in 1..Len(f.blocks) : bs[n] = f.blocks[n]
  BY <1>1, AppendProperties
<1> HIDE DEF bs
<1>5. ASSUME AllFlat(bs) PROVE AllFlat(f.blocks) /\ Flat(f.start, r)
  <2> DEFINE m == Len(f.blocks)
  <2>1. m \in Nat /\ Len(bs) = m + 1
    BY <1>1, <1>4
  <2>2. bs[m + 1] = b /\ \A n \in 1..m : bs[n] = f.blocks[n]
    BY <1>4
  <2>3. \A n \in 1..(m + 1) : Flat(bs[n].begin, bs[n].end)
    BY <1>5, <2>1, Zenon DEF AllFlat
  <2> HIDE DEF m
  <2>4. Flat(b.begin, b.end)
    <3>1. m + 1 \in 1..(m + 1)
      BY <2>1
    <3> QED BY <2>2, <2>3, <3>1, Zenon
  <2>5. \A n \in 1..m : Flat(f.blocks[n].begin, f.blocks[n].end)
    <3>1. \A n \in 1..m : n \in 1..(m + 1)
      BY <2>1
    <3> QED BY <2>2, <2>3, <3>1, Zenon
  <2> QED BY <1>3, <2>4, <2>5, Zenon DEF AllFlat, m
<1>6. g \in FrameSet /\ g.end = 0 /\ g.begin = f.begin /\ g.blocks = bs
      /\ g.braces = f.braces
  BY <1>4 DEF FrameSet
<1> HIDE DEF g
<1>7. AllFlat(g.blocks) => Counts(g, r)
  BY <1>5, <1>6 DEF Counts
<1>8. CountsBraces(Count(g, r), r + 1)
  BY <1>6, <1>7, CountCounts
<1> QED BY <1>2, <1>8

(* and a turn of any kind.                                                 *)
LEMMA FeedCounts ==
  ASSUME src \in Sources, NEW f \in FrameSet, NEW r \in 1..Eof, f.mode # "done",
         CountsArePositive(f), CountsBraces(f, r)
  PROVE  CountsBraces(Feed(f, r), r + 1)
<1>1. f.mode \in Modes /\ r \in Nat /\ f.begin \in Nat /\ (r + 1) - 1 = r /\ Eof \in Nat
      /\ f.start \in Nat
  BY EofKind DEF FrameSet
<1>2. CASE f.mode = "open"
  <2>1. Feed(f, r) = Open(f, r) /\ f.begin = 0 /\ f.blocks = <<>> /\ f.end = 0 /\ f.braces = 0
    BY <1>2, FeedCases DEF CountsBraces, CountsArePositive
  <2>2. CASE Kind(r) = "lb"
    <3> DEFINE g == [f EXCEPT !.mode = "scan", !.braces = 1, !.begin = r]
    <3>1. Open(f, r) = g
      BY <2>2 DEF Open
    <3>2. g.mode = "scan" /\ g.end = f.end /\ g.begin = r /\ g.braces = 1
      BY DEF FrameSet
    <3> HIDE DEF g
    <3>3. IsOpen(r, r + 1) /\ Depth(r, (r + 1) - 1) = 1
      BY <1>1, <2>2, IsOpenSteps
    <3> QED BY <1>1, <2>1, <3>1, <3>2, <3>3 DEF CountsBraces, Counts
  <2>3. CASE Kind(r) # "lb"
    <3>1. Open(f, r) = Leave(f, r)
      BY <2>3 DEF Open
    <3> QED BY <2>1, <3>1, LeaveCounts
  <2> QED BY <2>1, <2>2, <2>3
<1>3. ASSUME f.mode \in {"scan", "braced", "line"}
      PROVE  f.begin # 0 /\ f.end = 0 /\ f.braces >= 1
  BY <1>3 DEF CountsBraces, CountsArePositive
<1>4. CASE f.mode = "scan" /\ inSync
  <2> DEFINE g == [f EXCEPT !.start = r]
  <2>1. Feed(f, r) = BeginBlock(f, r)
    BY <1>4, FeedCases
  <2>2. AllFlat(f.blocks) => Counts(f, r)
    BY <1>3, <1>4 DEF CountsBraces
  <2>3. g \in FrameSet /\ g.end = f.end /\ g.begin = f.begin /\ g.blocks = f.blocks
        /\ g.braces = f.braces /\ g.start = r
    BY <1>1 DEF FrameSet
  <2>4. CASE Kind(r) = "lb"
    <3> DEFINE k == [g EXCEPT !.mode = "braced", !.inner = 1]
    <3>1. BeginBlock(f, r) = k
      BY <2>4 DEF BeginBlock
    <3> HIDE DEF g
    <3>2. k.mode = "braced" /\ k.end = g.end /\ k.begin = g.begin /\ k.start = g.start
      BY <2>3 DEF FrameSet
    <3> HIDE DEF k
    <3> QED BY <1>1, <1>3, <1>4, <2>1, <2>3, <2>4, <3>1, <3>2, BraceCases DEF CountsBraces
  <2>5. CASE Kind(r) \in {"semi", "eof"}
    <3>1. BeginBlock(f, r) = EndBlock(g, r)
      BY <2>5 DEF BeginBlock
    <3> HIDE DEF g
    <3>2. AllFlat(g.blocks) => Counts(g, r)
      BY <2>2, <2>3 DEF Counts
    <3>3. CountsBraces(EndBlock(g, r), r + 1)
      BY <1>3, <1>4, <2>3, <3>2, EndBlockCounts
    <3> QED BY <2>1, <3>1, <3>3
  <2>6. CASE Kind(r) \notin {"lb", "semi", "eof"}
    <3> DEFINE k == [g EXCEPT !.mode = "line"]
    <3>1. BeginBlock(f, r) = k
      BY <2>6 DEF BeginBlock
    <3> HIDE DEF g
    <3>2. k.mode = "line" /\ k.end = g.end /\ k.begin = g.begin /\ k.start = g.start
          /\ k.braces = g.braces /\ k.blocks = g.blocks
      BY <2>3 DEF FrameSet
    <3> HIDE DEF k
    <3>3. ASSUME AllFlat(f.blocks), Flat(r, r) PROVE Counts(k, r + 1)
      <4>1. Brace(r) = 0 /\ Counts(f, r)
        BY <1>1, <2>2, <3>3 DEF Flat
      <4>2. f.begin \in Nat /\ f.begin < r /\ f.braces \in Nat
        BY <1>1, <4>1 DEF Counts, IsOpen, FrameSet
      <4>3. Depth(f.begin, r) = f.braces
        <5>1. Depth(f.begin, r) = Depth(f.begin, r - 1) + Brace(r)
          <6>1. f.begin \in Int /\ r \in Int /\ f.begin <= r
            BY <1>1, <4>2
          <6> QED BY <6>1, DepthSteps, Zenon
        <5> QED BY <4>1, <4>2, <5>1 DEF Counts
      <4>4. IsOpen(f.begin, r + 1)
        BY <1>1, <1>3, <1>4, <4>1, <4>2, <4>3, IsOpenSteps DEF Counts
      <4> QED BY <1>1, <2>3, <3>2, <4>3, <4>4 DEF Counts
    <3> QED BY <1>1, <1>3, <1>4, <2>1, <2>3, <3>1, <3>2, <3>3 DEF CountsBraces
  <2> QED BY <2>4, <2>5, <2>6
<1>5. CASE f.mode = "scan" /\ ~inSync
  <2>1. Feed(f, r) = Count(f, r)
    BY <1>5, FeedCases
  <2>2. AllFlat(f.blocks) => Counts(f, r)
    BY <1>3, <1>5 DEF CountsBraces
  <2> QED BY <1>3, <1>5, <2>1, <2>2, CountCounts
<1>6. CASE f.mode = "braced"
  <2>1. Feed(f, r) = Braced(f, r) /\ Brace(f.start) = 1 /\ f.start < r
    BY <1>6, FeedCases DEF CountsBraces
  <2> DEFINE n == f.inner + Brace(r)
  <2>2. CASE n = 0 \/ Kind(r) = "eof"
    <3>1. Braced(f, r) = EndBlock(f, r)
      BY <2>2 DEF Braced
    <3>2. ~Flat(f.start, r)
      BY <1>1, <2>1 DEF Flat
    <3> QED BY <1>3, <1>6, <2>1, <3>1, <3>2, EndBlockCounts
  <2>3. CASE ~(n = 0 \/ Kind(r) = "eof")
    <3> DEFINE g == [f EXCEPT !.inner = n]
    <3>1. Braced(f, r) = g
      BY <2>3, Zenon DEF Braced
    <3> HIDE DEF n
    <3>2. g.mode = "braced" /\ g.end = f.end /\ g.begin = f.begin /\ g.start = f.start
      BY <1>6 DEF FrameSet
    <3> HIDE DEF g
    <3> QED BY <1>1, <1>3, <1>6, <2>1, <3>1, <3>2 DEF CountsBraces
  <2> QED BY <2>2, <2>3
<1>7. CASE f.mode = "line"
  <2>1. Feed(f, r) = Line(f, r) /\ f.start < r
    BY <1>7, FeedCases DEF CountsBraces
  <2>2. AllFlat(f.blocks) /\ Flat(f.start, r - 1) => Counts(f, r)
    BY <1>3, <1>7 DEF CountsBraces
  <2>3. Flat(f.start, r) => Flat(f.start, r - 1) /\ Brace(r) = 0
    BY <1>1, <2>1 DEF Flat
  <2>4. CASE Kind(r) \in {"semi", "eof"}
    <3>1. Line(f, r) = EndBlock(f, r)
      BY <2>4 DEF Line
    <3> QED BY <1>3, <1>7, <2>1, <2>2, <2>3, <3>1, EndBlockCounts
  <2>5. CASE Kind(r) \notin {"semi", "eof"}
    <3>1. Line(f, r) = f
      BY <2>5 DEF Line
    <3>2. ASSUME AllFlat(f.blocks), Flat(f.start, r) PROVE Counts(f, r + 1)
      <4>1. Brace(r) = 0 /\ Counts(f, r)
        BY <2>2, <2>3, <3>2
      <4>2. f.begin \in Nat /\ f.begin < r /\ f.braces \in Nat
        BY <1>1, <4>1 DEF Counts, IsOpen, FrameSet
      <4>3. Depth(f.begin, r) = f.braces
        <5>1. Depth(f.begin, r) = Depth(f.begin, r - 1) + Brace(r)
          <6>1. f.begin \in Int /\ r \in Int /\ f.begin <= r
            BY <1>1, <4>2
          <6> QED BY <6>1, DepthSteps, Zenon
        <5> QED BY <4>1, <4>2, <5>1 DEF Counts
      <4>4. IsOpen(f.begin, r + 1)
        BY <1>1, <1>3, <1>7, <4>1, <4>2, <4>3, IsOpenSteps DEF Counts
      <4> QED BY <1>1, <4>3, <4>4 DEF Counts
    <3> QED BY <1>1, <1>3, <1>7, <2>1, <3>1, <3>2 DEF CountsBraces
  <2> QED BY <2>4, <2>5
<1> QED BY <1>1, <1>2, <1>4, <1>5, <1>6, <1>7 DEF Modes

(* An item that is not a token counts for nothing.                         *)
LEMMA SkipCounts ==
  ASSUME src \in Sources, NEW f \in FrameSet, NEW r \in 1..Eof, f.mode # "done",
         ~IsToken(r), CountsBraces(f, r)
  PROVE  CountsBraces(f, r + 1)
<1>1. r \in Nat /\ f.begin \in Nat /\ f.start \in Nat /\ (r + 1) - 1 = r /\ f.braces \in Nat
  BY EofKind DEF FrameSet
<1>2. Brace(r) = 0
  BY BraceCases DEF IsToken, IsUse
<1>3. ASSUME Counts(f, r), f.begin # 0, f.braces >= 1 PROVE Counts(f, r + 1)
  <2>1. f.begin <= r /\ f.begin \in Int /\ r \in Int
    BY <1>1, <1>3 DEF Counts, IsOpen
  <2>2. Depth(f.begin, r) = Depth(f.begin, r - 1) + Brace(r)
    BY <2>1, DepthSteps, Zenon
  <2>3. Depth(f.begin, r) = f.braces
    BY <1>1, <1>2, <1>3, <2>2 DEF Counts
  <2>4. IsOpen(f.begin, r + 1)
    BY <1>1, <1>3, <2>3, IsOpenSteps DEF Counts
  <2> QED BY <1>1, <2>3, <2>4 DEF Counts
<1>4. Counts(f, r) => f.braces >= 1
  <2> SUFFICES ASSUME Counts(f, r) PROVE f.braces >= 1
    OBVIOUS
  <2>1. r - 1 \in f.begin..(r - 1)
    BY <1>1 DEF Counts, IsOpen
  <2> QED BY <2>1 DEF Counts, IsOpen
<1>5. f.start < r /\ Flat(f.start, r) => Flat(f.start, r - 1)
  BY <1>1 DEF Flat
<1>6. f.start < r => f.start < r + 1
  BY <1>1
<1> QED BY <1>1, <1>3, <1>4, <1>5, <1>6 DEF CountsBraces

(* The inductive invariant: the call counts its braces and the particles   *)
(* have ended where they should.                                           *)
BracesCounted ==
  /\ InHandler => CountsBraces(Top, raw)
  /\ \A n \in 1..Len(particles) :
       particles[n].begin # 0 /\ AllFlat(particles[n].blocks) =>
         particles[n].end = Matching(particles[n].begin, 0)

(* Every step keeps it.                                                    *)
LEMMA BracesStep ==
  ASSUME TypeInv, AtMostOneFrame, BracesCounted, NoNesting, [Next]_vars
  PROVE  BracesCounted'
<1>1. src' = src
  BY SingleStep DEF vars
<1>2. /\ \A q : Brace(q)' = Brace(q)
      /\ \A b : Matching(b, 0)' = Matching(b, 0)
      /\ \A b, r : Braces("lb", b, r)' = Braces("lb", b, r)
      /\ \A b, r : Braces("rb", b, r)' = Braces("rb", b, r)
      /\ \A b : Kind(b)' = Kind(b)
  BY <1>1, SourceIsFixed
<1>3. /\ \A b, r : Depth(b, r)' = Depth(b, r)
      /\ \A m, n : Flat(m, n)' = Flat(m, n)
  BY <1>2 DEF Depth, Flat
<1>4. \A b, r : IsOpen(b, r)' = IsOpen(b, r)
  BY <1>2, <1>3 DEF IsOpen
<1>5. /\ \A f, r : Counts(f, r)' = Counts(f, r)
      /\ \A bs : AllFlat(bs)' = AllFlat(bs)
  BY <1>3, <1>4 DEF Counts, AllFlat
<1>6. \A f, r : CountsBraces(f, r)' <=> CountsBraces(f, r)
  BY <1>2, <1>3, <1>5 DEF CountsBraces
<1>7. raw \in Nat /\ raw >= 1 /\ Eof \in Nat /\ src \in Sources /\ particles \in Seq(ParticleSet)
  BY EofKind DEF TypeInv, IsTyped
<1>8. InHandler => Top \in FrameSet /\ CountsArePositive(Top)
  <2>1. InHandler => Len(frames) \in 1..Len(frames)
    BY SeqFacts DEF InHandler, TypeInv, IsTyped
  <2> QED BY <2>1, SeqFacts DEF Top, TypeInv, IsTyped, MarksInOrder
<1>9. ASSUME InHandler' => CountsBraces(Top', raw'), particles' = particles
      PROVE  BracesCounted'
  BY <1>2, <1>5, <1>6, <1>9 DEF BracesCounted
<1>10. CASE UNCHANGED vars
  BY <1>9, <1>10 DEF vars, InHandler, Top, BracesCounted
<1>11. CASE Replay \/ Pass
  BY <1>9, <1>11 DEF Replay, Pass, InHandler
<1>12. CASE LookAhead
  <2>1. InHandler /\ Top.mode # "done" /\ raw \in 1..Eof /\ raw' = raw + 1
        /\ Top' = Feed(Top, raw) /\ particles' = particles
    <3>1. frames' = <<Feed(Top, raw)>> /\ frames = <<Top>>
      BY <1>12 DEF LookAhead
    <3>2. Top' = frames'[Len(frames')]
      BY DEF Top
    <3>3. Top' = Feed(Top, raw)
      BY <3>1, <3>2
    <3> QED BY <1>7, <1>12, <3>1, <3>3 DEF LookAhead, InHandler
  <2> QED BY <1>7, <1>8, <1>9, <2>1, FeedCounts DEF BracesCounted
<1>13. CASE Skip
  <2>1. InHandler => Top.mode # "done"
    BY <1>13 DEF Skip
  <2>2. raw \in 1..Eof /\ ~IsToken(raw) /\ raw' = raw + 1 /\ particles' = particles
        /\ InHandler' = InHandler /\ Top' = Top
    BY <1>7, <1>13 DEF Skip, InHandler, Top
  <2> QED BY <1>7, <1>8, <1>9, <2>1, <2>2, SkipCounts DEF BracesCounted
<1>14. CASE Call
  <2>1. Top' = NewFrame(raw) /\ particles' = particles
    BY <1>14 DEF Call, Top
  <2>2. CountsBraces(NewFrame(raw), raw')
    BY DEF NewFrame, Frame, CountsBraces
  <2> QED BY <1>9, <2>1, <2>2
<1>15. CASE Return
  <2> DEFINE p == Particle(Top)
             N == Len(particles)
  <2>1. InHandler /\ Top.mode = "done" /\ ~InHandler' /\ particles' = Append(particles, p)
    BY <1>15 DEF Return, InHandler
  <2>2. p.begin # 0 /\ AllFlat(p.blocks) => p.end = Matching(p.begin, 0)
    <3>1. p.begin = Top.begin /\ p.blocks = Top.blocks /\ p.end = Top.end
      BY DEF Particle
    <3> HIDE DEF p
    <3> QED BY <2>1, <3>1 DEF BracesCounted, CountsBraces
  <2> HIDE DEF p
  <2>3. /\ N \in Nat /\ Len(particles') = N + 1 /\ particles'[N + 1] = p
        /\ \A n \in 1..N : particles'[n] = particles[n]
    BY <1>7, <2>1
  <2>4. \A n \in 1..N : particles[n].begin # 0 /\ AllFlat(particles[n].blocks) =>
          particles[n].end = Matching(particles[n].begin, 0)
    BY DEF BracesCounted
  <2> HIDE DEF N
  <2>5. \A n \in 1..Len(particles') :
          particles'[n].begin # 0 /\ AllFlat(particles'[n].blocks) =>
            particles'[n].end = Matching(particles'[n].begin, 0)
    BY <2>2, <2>3, <2>4
  <2> QED BY <1>2, <1>5, <2>1, <2>5 DEF BracesCounted
<1> QED BY <1>10, <1>11, <1>12, <1>13, <1>14, <1>15, SingleStep

(* Particles are matched in every behaviour, also in one that stops.       *)
LEMMA BracesKept ==
  ASSUME MaxDepth = 1
  PROVE  HandlerRuns => []ParticleEndsAtItsBrace
<1> DEFINE Inv == TypeInv /\ AtMostOneFrame /\ BracesCounted
<1>1. Init => Inv
  <2>1. Init => BracesCounted
    BY DEF Init, BracesCounted, InHandler
  <2> QED BY <2>1, TypeInvInit, TokensInit
<1>2. Inv /\ [Next]_vars => Inv'
  <2>1. NoNesting
    BY DEF NoNesting
  <2> QED BY <2>1, TypeInvStep, OneFrameStep, BracesStep
<1>3. Inv => ParticleEndsAtItsBrace
  <2> SUFFICES ASSUME TypeInv, BracesCounted, NEW p \in AllParticles, p.begin # 0,
                      \A b \in BlocksOf(p) : \A q \in b.begin..b.end : Brace(q) = 0
               PROVE  p.end = Matching(p.begin, 0)
    BY DEF ParticleEndsAtItsBrace
  <2>1. PICK n \in 1..Len(particles) : p = particles[n]
    <3>1. particles \in Seq(ParticleSet)
      BY DEF TypeInv, IsTyped
    <3> QED BY <3>1 DEF AllParticles, ToSet
  <2>2. p \in ParticleSet
    BY <2>1, SeqFacts DEF TypeInv, IsTyped
  <2>3. AllFlat(p.blocks)
    <3>1. \A m \in 1..Len(p.blocks) : p.blocks[m] \in BlocksOf(p)
      BY <2>2 DEF BlocksOf, ToSet, ParticleSet
    <3> QED BY <3>1 DEF AllFlat, Flat
  <2> QED BY <2>1, <2>3 DEF BracesCounted
<1> QED BY <1>1, <1>2, <1>3, PTL DEF HandlerRuns

(* In a file whose particles do not nest: the range that setBegin and      *)
(* setEnd give a particle goes from its first brace to the brace that      *)
(* closes it, for any nesting of braces, as long as no synchronized block  *)
(* of the particle contains a brace; a particle that is not closed has no  *)
(* end. (With braces in a block this is false: run pragma_block.)          *)
THEOREM BlocksMatched ==
  ASSUME MaxDepth = 1
  PROVE  Spec => []ParticleEndsAtItsBrace
BY BracesKept, PTL DEF Spec, HandlerRuns
-----------------------------------------------------------------------------
(* The block that is being read, when every item before r has been.        *)
InBlock(f, r) ==
  /\ f.mode = "braced" => IsOpen(f.start, r) /\ f.inner = Depth(f.start, r - 1)
  /\ f.mode = "line" =>
       /\ f.start < r /\ Kind(f.start) # "lb"
       /\ \A q \in f.start..(r - 1) : Kind(q) # "semi"

(* What may become of frame f when it is fed r: nothing is read for a      *)
(* block, a block that began at b ends, or it goes on.                     *)
Idle(g, f) == g.blocks = f.blocks /\ g.mode \in {"scan", "done"}

Ends(g, f, b, r) == /\ g.blocks = Append(f.blocks, [begin |-> b, end |-> r])
                    /\ g.mode \in {"scan", "done"}
                    /\ BlockEnd(b) = r

GoesOn(g, f, b) == /\ g.blocks = f.blocks
                   /\ g.mode \in {"braced", "line"}
                   /\ g.start = b

(* The end of a turn, and a turn outside of blocks, add no block.          *)
LEMMA LeaveIdle ==
  ASSUME NEW f \in FrameSet, NEW r PROVE Idle(Leave(f, r), f)
<1>1. CASE f.braces = 0 \/ Kind(r) = "eof"
  <2> DEFINE e == IF Kind(r) = "rb" THEN r ELSE f.end
             g == [f EXCEPT !.mode = "done", !.end = e]
  <2>1. Leave(f, r) = g
    BY <1>1 DEF Leave
  <2> HIDE DEF e
  <2>2. g.mode = "done" /\ g.blocks = f.blocks
    BY DEF FrameSet
  <2> HIDE DEF g
  <2> QED BY <2>1, <2>2 DEF Idle
<1>2. CASE ~(f.braces = 0 \/ Kind(r) = "eof")
  <2> DEFINE g == [f EXCEPT !.mode = "scan"]
  <2>1. Leave(f, r) = g
    BY <1>2 DEF Leave
  <2>2. g.mode = "scan" /\ g.blocks = f.blocks
    BY DEF FrameSet
  <2> HIDE DEF g
  <2> QED BY <2>1, <2>2 DEF Idle
<1> QED BY <1>1, <1>2

LEMMA CountIdle ==
  ASSUME NEW f \in FrameSet, NEW r, f.braces >= 1 PROVE Idle(Count(f, r), f)
<1> DEFINE n == f.braces + Brace(r)
           g == [f EXCEPT !.braces = n]
<1>1. Count(f, r) = Leave(g, r)
  BY DEF Count
<1>2. f.braces \in Nat
  BY DEF FrameSet
<1>3. n \in Nat
  BY <1>2, BraceCases
<1> HIDE DEF n
<1>4. g \in FrameSet /\ g.blocks = f.blocks
  BY <1>3 DEF FrameSet
<1> HIDE DEF g
<1>5. Idle(Leave(g, r), g)
  BY <1>4, LeaveIdle
<1> QED BY <1>1, <1>4, <1>5 DEF Idle

(* The end of a block adds it.                                             *)
LEMMA EndBlockEnds ==
  ASSUME NEW f \in FrameSet, NEW r \in Nat, f.braces >= 1, BlockEnd(f.start) = r
  PROVE  Ends(EndBlock(f, r), f, f.start, r)
<1> DEFINE b == [begin |-> f.start, end |-> r]
           bs == Append(f.blocks, b)
           g == [f EXCEPT !.blocks = bs]
<1>1. EndBlock(f, r) = Count(g, r)
  BY DEF EndBlock
<1>2. b \in Block /\ f.blocks \in Seq(Block)
  BY DEF FrameSet, Block
<1>3. bs \in Seq(Block)
  BY <1>2, AppendProperties
<1> HIDE DEF bs
<1>4. g \in FrameSet /\ g.blocks = bs /\ g.braces = f.braces
  BY <1>3 DEF FrameSet
<1> HIDE DEF g
<1>5. Idle(Count(g, r), g)
  BY <1>4, CountIdle
<1> QED BY <1>1, <1>4, <1>5 DEF Idle, Ends, bs, b

(* Where a block should end that is being read: at the `;' that is next,   *)
LEMMA LineEnds ==
  ASSUME src \in Sources, NEW b \in Nat, NEW r \in 1..Eof, b <= r,
         Kind(b) # "lb", \A q \in b..(r - 1) : Kind(q) # "semi",
         Kind(r) \in {"semi", "eof"}
  PROVE  BlockEnd(b) = r
<1> DEFINE S == {q \in b..Len(src) : Kind(q) = "semi"}
<1>1. Len(src) \in Nat /\ Eof = Len(src) + 1
  BY SourceType DEF Eof
<1>2. \A q \in S : q \in Nat /\ q >= r
  BY <1>1
<1>3. CASE Kind(r) = "semi"
  <2>1. r \in S
    BY <1>1, <1>3, EofKind DEF Positions
  <2>2. S \in SUBSET Nat
    BY <1>2
  <2> HIDE DEF S
  <2>3. Least(S, Eof) = r
    BY <1>2, <2>1, <2>2, LeastIs
  <2> QED BY <2>3, Zenon DEF BlockEnd, S
<1>4. CASE Kind(r) = "eof"
  <2>1. r = Eof
    BY <1>4, EofKind DEF Positions
  <2>2. S = {}
    BY <1>1, <1>2, <2>1
  <2>3. Least(S, Eof) = r
    BY <2>1, <2>2, Zenon DEF Least
  <2> HIDE DEF S
  <2> QED BY <2>3, Zenon DEF BlockEnd, S
<1> QED BY <1>3, <1>4

(* or at the brace where the count is 0.                                   *)
LEMMA BracedEnds ==
  ASSUME src \in Sources, NEW b \in Nat, NEW r \in 1..Eof, IsOpen(b, r),
         Depth(b, r) = 0 \/ Kind(r) = "eof"
  PROVE  BlockEnd(b) = r
<1>1. r \in Nat /\ r <= Eof /\ Eof \in Nat
  BY EofKind
<1>2. Matching(b, Eof) = r
  <2>1. CASE Depth(b, r) = 0
    <3>1. Depth(b, r) <= 0
      BY <2>1
    <3> QED BY <1>1, <3>1, MatchingFound
  <2>2. CASE Kind(r) = "eof"
    <3>1. r = Eof
      BY <2>2, EofKind DEF Positions
    <3> QED BY <1>1, <3>1, MatchingFound
  <2> QED BY <2>1, <2>2
<1>3. Kind(b) = "lb"
  BY DEF IsOpen
<1> QED BY <1>2, <1>3 DEF BlockEnd

(* What a token does to the block that is being read.                      *)
LEMMA FeedBlocks ==
  ASSUME src \in Sources, NEW f \in FrameSet, NEW r \in 1..Eof, f.mode # "done",
         CountsArePositive(f), InBlock(f, r)
  PROVE  /\ InBlock(Feed(f, r), r + 1)
         /\ f.mode = "open" \/ (f.mode = "scan" /\ ~inSync) => Idle(Feed(f, r), f)
         /\ f.mode = "scan" /\ inSync => \/ Ends(Feed(f, r), f, r, r)
                                         \/ GoesOn(Feed(f, r), f, r)
         /\ f.mode \in {"braced", "line"} => \/ Ends(Feed(f, r), f, f.start, r)
                                             \/ GoesOn(Feed(f, r), f, f.start)
<1>1. /\ f.mode \in Modes /\ r \in Nat /\ (r + 1) - 1 = r /\ Eof \in Nat
      /\ f.start \in Nat /\ f.inner \in Nat
  BY EofKind DEF FrameSet
<1>2. \A g, b : Idle(g, f) \/ Ends(g, f, b, r) => InBlock(g, r + 1)
  BY DEF Idle, Ends, InBlock
<1>3. CASE f.mode = "open"
  <2>1. Feed(f, r) = Open(f, r)
    BY <1>3, FeedCases
  <2>2. Idle(Open(f, r), f)
    <3>1. CASE Kind(r) = "lb"
      <4> DEFINE g == [f EXCEPT !.mode = "scan", !.braces = 1, !.begin = r]
      <4>1. Open(f, r) = g
        BY <3>1 DEF Open
      <4>2. g.mode = "scan" /\ g.blocks = f.blocks
        BY DEF FrameSet
      <4> HIDE DEF g
      <4> QED BY <4>1, <4>2 DEF Idle
    <3>2. CASE Kind(r) # "lb"
      BY <3>2, LeaveIdle DEF Open
    <3> QED BY <3>1, <3>2
  <2> QED BY <1>2, <1>3, <2>1, <2>2
<1>4. CASE f.mode = "scan" /\ ~inSync
  <2>1. Feed(f, r) = Count(f, r)
    BY <1>4, FeedCases
  <2>2. Idle(Count(f, r), f)
    BY <1>4, CountIdle DEF CountsArePositive
  <2> QED BY <1>2, <1>4, <2>1, <2>2
<1>5. CASE f.mode = "scan" /\ inSync
  <2> DEFINE g == [f EXCEPT !.start = r]
  <2>1. Feed(f, r) = BeginBlock(f, r)
    BY <1>5, FeedCases
  <2>2. f.braces >= 1
    BY <1>5 DEF CountsArePositive
  <2>3. g \in FrameSet /\ g.braces = f.braces /\ g.start = r /\ g.blocks = f.blocks
    BY <1>1 DEF FrameSet
  <2>4. CASE Kind(r) = "lb"
    <3> DEFINE k == [g EXCEPT !.mode = "braced", !.inner = 1]
    <3>1. BeginBlock(f, r) = k
      BY <2>4 DEF BeginBlock
    <3> HIDE DEF g
    <3>2. k.mode = "braced" /\ k.start = g.start /\ k.blocks = g.blocks /\ k.inner = 1
      BY <2>3 DEF FrameSet
    <3> HIDE DEF k
    <3>3. IsOpen(r, r + 1) /\ Depth(r, (r + 1) - 1) = 1
      BY <1>1, <2>4, IsOpenSteps
    <3>4. InBlock(k, r + 1) /\ GoesOn(k, f, r)
      BY <2>3, <3>2, <3>3 DEF InBlock, GoesOn
    <3> QED BY <1>5, <2>1, <3>1, <3>4
  <2>5. CASE Kind(r) \in {"semi", "eof"}
    <3>1. BeginBlock(f, r) = EndBlock(g, r)
      BY <2>5 DEF BeginBlock
    <3> HIDE DEF g
    <3>2. BlockEnd(r) = r
      BY <1>1, <2>5, LineEnds
    <3>3. Ends(EndBlock(g, r), g, r, r)
      BY <1>1, <2>2, <2>3, <3>2, EndBlockEnds
    <3>4. Ends(EndBlock(g, r), f, r, r)
      BY <2>3, <3>3 DEF Ends
    <3> QED BY <1>2, <1>5, <2>1, <3>1, <3>4
  <2>6. CASE Kind(r) \notin {"lb", "semi", "eof"}
    <3> DEFINE k == [g EXCEPT !.mode = "line"]
    <3>1. BeginBlock(f, r) = k
      BY <2>6 DEF BeginBlock
    <3> HIDE DEF g
    <3>2. k.mode = "line" /\ k.start = g.start /\ k.blocks = g.blocks
      BY <2>3 DEF FrameSet
    <3> HIDE DEF k
    <3>3. InBlock(k, r + 1) /\ GoesOn(k, f, r)
      BY <1>1, <2>3, <2>6, <3>2 DEF InBlock, GoesOn
    <3> QED BY <1>5, <2>1, <3>1, <3>3
  <2> QED BY <2>4, <2>5, <2>6
<1>6. CASE f.mode = "braced"
  <2> DEFINE n == f.inner + Brace(r)
  <2>1. Feed(f, r) = Braced(f, r) /\ f.braces >= 1
    BY <1>6, FeedCases DEF CountsArePositive
  <2>2. IsOpen(f.start, r) /\ f.start < r /\ f.inner = Depth(f.start, r - 1)
    BY <1>6 DEF InBlock, IsOpen
  <2>3. Depth(f.start, r) = n
    <3>1. f.start \in Int /\ r \in Int /\ f.start <= r
      BY <1>1, <2>2
    <3>2. Depth(f.start, r) = Depth(f.start, r - 1) + Brace(r)
      BY <3>1, DepthSteps, Zenon
    <3> QED BY <2>2, <3>2
  <2>4. n \in Nat
    BY <1>1, <1>6, BraceCases DEF CountsArePositive
  <2>5. CASE n = 0 \/ Kind(r) = "eof"
    <3>1. Braced(f, r) = EndBlock(f, r)
      BY <2>5 DEF Braced
    <3>2. BlockEnd(f.start) = r
      BY <1>1, <2>2, <2>3, <2>5, BracedEnds
    <3>3. Ends(EndBlock(f, r), f, f.start, r)
      BY <1>1, <2>1, <3>2, EndBlockEnds
    <3> QED BY <1>2, <1>6, <2>1, <3>1, <3>3
  <2>6. CASE ~(n = 0 \/ Kind(r) = "eof")
    <3> DEFINE g == [f EXCEPT !.inner = n]
    <3>1. Braced(f, r) = g
      BY <2>6, Zenon DEF Braced
    <3> HIDE DEF n
    <3>2. g.mode = "braced" /\ g.start = f.start /\ g.blocks = f.blocks /\ g.inner = n
      BY <1>6 DEF FrameSet
    <3> HIDE DEF g
    <3>3. IsOpen(f.start, r + 1)
      BY <1>1, <2>2, <2>3, <2>4, <2>6, IsOpenSteps
    <3>4. InBlock(g, r + 1) /\ GoesOn(g, f, f.start)
      BY <1>1, <2>3, <3>2, <3>3 DEF InBlock, GoesOn
    <3> QED BY <1>6, <2>1, <3>1, <3>4
  <2> QED BY <2>5, <2>6
<1>7. CASE f.mode = "line"
  <2>1. Feed(f, r) = Line(f, r) /\ f.braces >= 1
    BY <1>7, FeedCases DEF CountsArePositive
  <2>2. f.start < r /\ Kind(f.start) # "lb" /\ \A q \in f.start..(r - 1) : Kind(q) # "semi"
    BY <1>7 DEF InBlock
  <2>3. CASE Kind(r) \in {"semi", "eof"}
    <3>1. Line(f, r) = EndBlock(f, r)
      BY <2>3 DEF Line
    <3>2. BlockEnd(f.start) = r
      BY <1>1, <2>2, <2>3, LineEnds
    <3>3. Ends(EndBlock(f, r), f, f.start, r)
      BY <1>1, <2>1, <3>2, EndBlockEnds
    <3> QED BY <1>2, <1>7, <2>1, <3>1, <3>3
  <2>4. CASE Kind(r) \notin {"semi", "eof"}
    <3>1. Line(f, r) = f
      BY <2>4 DEF Line
    <3>2. \A q \in f.start..r : Kind(q) # "semi"
      BY <1>1, <2>2, <2>4
    <3>3. InBlock(f, r + 1) /\ GoesOn(f, f, f.start)
      BY <1>1, <1>7, <2>2, <3>2 DEF InBlock, GoesOn
    <3> QED BY <1>7, <2>1, <3>1, <3>3
  <2> QED BY <2>3, <2>4
<1> QED BY <1>1, <1>3, <1>4, <1>5, <1>6, <1>7 DEF Modes

(* An item that is not a token does nothing to it.                         *)
LEMMA SkipInBlock ==
  ASSUME src \in Sources, NEW f \in FrameSet, NEW r \in 1..Eof, ~IsToken(r),
         InBlock(f, r), CountsArePositive(f)
  PROVE  InBlock(f, r + 1)
<1>1. r \in Nat /\ (r + 1) - 1 = r /\ f.start \in Nat /\ f.inner \in Nat
  BY EofKind DEF FrameSet
<1>2. Brace(r) = 0 /\ Kind(r) # "semi"
  BY BraceCases DEF IsToken, IsUse
<1>3. ASSUME f.mode = "braced"
      PROVE  IsOpen(f.start, r + 1) /\ f.inner = Depth(f.start, r)
  <2>1. IsOpen(f.start, r) /\ f.inner = Depth(f.start, r - 1) /\ f.inner >= 1
    BY <1>3 DEF InBlock, CountsArePositive
  <2>2. f.start \in Int /\ r \in Int /\ f.start <= r
    BY <1>1, <2>1 DEF IsOpen
  <2>3. Depth(f.start, r) = Depth(f.start, r - 1) + Brace(r)
    BY <2>2, DepthSteps, Zenon
  <2>4. Depth(f.start, r) = f.inner
    BY <1>1, <1>2, <2>1, <2>3
  <2> QED BY <1>1, <2>1, <2>4, IsOpenSteps
<1>4. ASSUME f.mode = "line"
      PROVE  f.start < r + 1 /\ Kind(f.start) # "lb" /\ \A q \in f.start..r : Kind(q) # "semi"
  BY <1>1, <1>2, <1>4 DEF InBlock
<1> QED BY <1>1, <1>3, <1>4 DEF InBlock
-----------------------------------------------------------------------------
(* The uses of the macro that are not ignored, the blocks that have been   *)
(* read, and whether the block of use u is still to be read or is being    *)
(* read.                                                                   *)
Heads == {q \in 1..(raw - 1) : IsUse(q) /\ q \notin ignored}

Blocks == AllBlocks \cup (IF InHandler THEN ToSet(Top.blocks) ELSE {})

Reading(u) ==
  /\ InHandler
  /\ \/ /\ Top.mode = "scan" /\ inSync
        /\ \A q \in (u + 1)..(raw - 1) : ~IsToken(q)
     \/ /\ Top.mode \in {"braced", "line"}
        /\ Top.start = NextToken(u)

(* The flag is set while a block is to be read or is being read.           *)
FlagIsRight ==
  /\ inSync => InHandler /\ Top.mode \in {"scan", "braced", "line"}
  /\ InHandler /\ Top.mode \in {"braced", "line"} => inSync

(* Each use is being read or has its block and each block has its use;     *)
(* what is ignored stands in a block that is being read or in one that     *)
(* was.                                                                    *)
UsesCounted ==
  /\ ignored \subseteq {q \in 1..(raw - 1) : IsUse(q)}
  /\ \A u \in Heads : Reading(u) \/ \E b \in Blocks : b.begin = NextToken(u)
  /\ \A b \in Blocks : /\ b.end = BlockEnd(b.begin)
                       /\ \E u \in Heads : b.begin = NextToken(u)
  /\ inSync => \E u \in Heads : Reading(u)
  /\ \A q \in ignored : \E u \in Heads :
       u < q /\ (Reading(u) \/ q < BlockEnd(NextToken(u)))

(* The inductive invariant.                                                *)
UsesInv == /\ InHandler => InBlock(Top, raw)
           /\ outside = {} => FlagIsRight /\ UsesCounted

(* The elements of a sequence with one more.                               *)
LEMMA AppendSet ==
  ASSUME NEW S, NEW s \in Seq(S), NEW e
  PROVE  ToSet(Append(s, e)) = ToSet(s) \cup {e}
<1> DEFINE N == Len(s)
<1>1. N \in Nat /\ Len(Append(s, e)) = N + 1 /\ Append(s, e)[N + 1] = e
      /\ \A n \in 1..N : Append(s, e)[n] = s[n]
  OBVIOUS
<1>2. ToSet(s) = {s[n] : n \in 1..N}
  BY DEF ToSet
<1>3. ToSet(Append(s, e)) = {Append(s, e)[n] : n \in 1..(N + 1)}
  BY DEF ToSet
<1> HIDE DEF N
<1> QED BY <1>1, <1>2, <1>3

(* Every step keeps it.                                                    *)
LEMMA UsesStep ==
  ASSUME TypeInv, AtMostOneFrame, UsesInv, NoNesting, [Next]_vars
  PROVE  UsesInv'
<1>1. src' = src
  BY SingleStep DEF vars
<1>2. /\ \A q : /\ IsUse(q)' <=> IsUse(q)
                /\ NextToken(q)' = NextToken(q) /\ BlockEnd(q)' = BlockEnd(q)
                /\ IsToken(q)' <=> IsToken(q) /\ Kind(q)' = Kind(q)
      /\ \A k, m, n : Braces(k, m, n)' = Braces(k, m, n)
  BY <1>1, SourceIsFixed
<1>3. \A f, r : InBlock(f, r)' <=> InBlock(f, r)
  <2>1. /\ \A b, r : Braces("lb", b, r)' = Braces("lb", b, r)
        /\ \A b, r : Braces("rb", b, r)' = Braces("rb", b, r)
        /\ \A b : Kind(b)' = Kind(b)
    BY <1>1, SourceIsFixed
  <2>2. \A b, r : Depth(b, r)' = Depth(b, r)
    BY <2>1 DEF Depth
  <2>3. \A b, r : IsOpen(b, r)' = IsOpen(b, r)
    BY <2>1, <2>2 DEF IsOpen
  <2> QED BY <2>1, <2>2, <2>3 DEF InBlock
<1>4. /\ raw \in Nat /\ raw >= 1 /\ Eof \in Nat /\ src \in Sources
      /\ particles \in Seq(ParticleSet) /\ inSync \in BOOLEAN
      /\ ignored \subseteq Positions /\ Positions \subseteq Nat
  BY EofKind DEF TypeInv, IsTyped
<1>5. InHandler => /\ Top \in FrameSet /\ CountsArePositive(Top)
                   /\ Top.blocks \in Seq(Block) /\ Top.start \in Nat
                   /\ Top.mode \in Modes
  <2>1. InHandler => Len(frames) \in 1..Len(frames)
    BY SeqFacts DEF InHandler, TypeInv, IsTyped
  <2>2. InHandler => Top \in FrameSet /\ CountsArePositive(Top)
    BY <2>1, SeqFacts DEF Top, TypeInv, IsTyped, MarksInOrder
  <2> QED BY <2>2 DEF FrameSet
<1>6. ASSUME InHandler' => InBlock(Top', raw'),
             outside' = {} => FlagIsRight' /\ UsesCounted'
      PROVE  UsesInv'
  BY <1>3, <1>6 DEF UsesInv
<1>7. ASSUME ignored' \subseteq {q \in 1..(raw' - 1) : IsUse(q)},
             \A u \in Heads' : Reading(u)' \/ \E b \in Blocks' : b.begin = NextToken(u),
             \A b \in Blocks' : /\ b.end = BlockEnd(b.begin)
                                /\ \E u \in Heads' : b.begin = NextToken(u),
             inSync' => \E u \in Heads' : Reading(u)',
             \A q \in ignored' : \E u \in Heads' :
               u < q /\ (Reading(u)' \/ q < BlockEnd(NextToken(u)))
      PROVE  UsesCounted'
  BY <1>2, <1>7 DEF UsesCounted
<1>8. ASSUME UsesCounted, Heads' = Heads, Blocks' = Blocks, ignored' = ignored,
             raw' \in {raw, raw + 1}, inSync' => inSync,
             \A u \in Heads : Reading(u) => Reading(u)'
      PROVE  UsesCounted'
  <2>1. ignored \subseteq {q \in 1..(raw - 1) : IsUse(q)}
    BY <1>8 DEF UsesCounted
  <2>2. 1..(raw - 1) \subseteq 1..(raw' - 1)
    <3>1. raw' = raw \/ raw' = raw + 1
      BY <1>8
    <3> QED BY <1>4, <3>1
  <2>3. ignored' \subseteq {q \in 1..(raw' - 1) : IsUse(q)}
    BY <1>8, <2>1, <2>2, Zenon
  <2> QED BY <1>7, <1>8, <2>3 DEF UsesCounted
<1>9. Heads' = {q \in 1..(raw' - 1) : IsUse(q) /\ q \notin ignored'}
  BY <1>2 DEF Heads
<1>10. ASSUME ignored' = ignored, raw' = raw \/ (raw' = raw + 1 /\ ~IsUse(raw))
       PROVE  Heads' = Heads
  BY <1>4, <1>9, <1>10 DEF Heads
<1>11. Blocks' = AllBlocks' \cup (IF InHandler' THEN ToSet(Top'.blocks) ELSE {})
  BY DEF Blocks
<1>12. particles' = particles => AllBlocks' = AllBlocks
  BY DEF AllBlocks, AllParticles
<1>13. \A u : Reading(u)' <=>
         /\ InHandler'
         /\ \/ /\ Top'.mode = "scan" /\ inSync'
               /\ \A q \in (u + 1)..(raw' - 1) : ~IsToken(q)
            \/ /\ Top'.mode \in {"braced", "line"}
               /\ Top'.start = NextToken(u)
  <2>1. /\ \A q : IsToken(q)' <=> IsToken(q)
        /\ \A q : NextToken(q)' = NextToken(q)
    BY <1>1, SourceIsFixed
  <2> SUFFICES ASSUME NEW u
               PROVE  Reading(u)' <=>
         /\ InHandler'
         /\ \/ /\ Top'.mode = "scan" /\ inSync'
               /\ \A q \in (u + 1)..(raw' - 1) : ~IsToken(q)
            \/ /\ Top'.mode \in {"braced", "line"}
               /\ Top'.start = NextToken(u)
    OBVIOUS
  <2> QED BY <2>1, Zenon DEF Reading
<1>14. CASE UNCHANGED vars
  <2>1. /\ InHandler' <=> InHandler
        /\ Top' = Top /\ raw' = raw /\ outside' = outside /\ inSync' = inSync
        /\ ignored' = ignored /\ particles' = particles
    BY <1>14 DEF vars, InHandler, Top
  <2>2. FlagIsRight => FlagIsRight'
    BY <2>1 DEF FlagIsRight
  <2>3. Heads' = Heads /\ Blocks' = Blocks
    BY <1>10, <1>11, <1>12, <2>1 DEF Blocks
  <2>4. \A u : Reading(u) => Reading(u)'
    BY <1>13, <2>1 DEF Reading
  <2> QED BY <1>6, <1>8, <2>1, <2>2, <2>3, <2>4 DEF UsesInv
<1>15. CASE Replay \/ Pass \/ Call
  <2>1. /\ ~InHandler /\ inSync' = inSync /\ outside' = outside /\ ignored' = ignored
        /\ particles' = particles
        /\ raw' = raw \/ (raw' = raw + 1 /\ ~IsUse(raw))
        /\ InHandler' => Top' = NewFrame(raw)
    BY <1>15 DEF Replay, Pass, Call, InHandler, Top, IsToken, IsUse
  <2>2. InHandler' => Top'.mode = "open" /\ Top'.blocks = <<>>
    BY <2>1 DEF NewFrame, Frame
  <2>3. Heads' = Heads
    BY <1>10, <2>1
  <2>4. Blocks' = Blocks
    <3>1. ToSet(<<>>) = {}
      BY DEF ToSet
    <3> QED BY <1>11, <1>12, <2>1, <2>2, <3>1 DEF Blocks
  <2>5. \A u : ~Reading(u)
    BY <2>1 DEF Reading
  <2>6. outside' = {} => FlagIsRight' /\ UsesCounted'
    <3> SUFFICES ASSUME outside' = {} PROVE FlagIsRight' /\ UsesCounted'
      OBVIOUS
    <3>1. FlagIsRight /\ UsesCounted
      BY <2>1 DEF UsesInv
    <3>2. ~inSync /\ FlagIsRight'
      BY <2>1, <2>2, <3>1 DEF FlagIsRight
    <3> QED BY <1>8, <2>1, <2>3, <2>4, <2>5, <3>1, <3>2
  <2>7. InHandler' => InBlock(Top', raw')
    BY <2>2 DEF InBlock
  <2> QED BY <1>6, <2>6, <2>7
<1>16. CASE Return
  <2> DEFINE p == Particle(Top)
  <2>1. /\ InHandler /\ Top.mode = "done" /\ ~InHandler'
        /\ particles' = Append(particles, p)
        /\ raw' = raw /\ inSync' = inSync /\ outside' = outside /\ ignored' = ignored
    BY <1>16 DEF Return, InHandler
  <2>2. BlocksOf(p) = ToSet(Top.blocks)
    BY DEF BlocksOf, Particle
  <2> HIDE DEF p
  <2>3. AllParticles' = AllParticles \cup {p}
    BY <1>4, <2>1, AppendSet DEF AllParticles
  <2>4. AllBlocks' = AllBlocks \cup ToSet(Top.blocks)
    BY <2>2, <2>3 DEF AllBlocks
  <2>5. Blocks' = Blocks
    BY <1>11, <2>1, <2>4 DEF Blocks
  <2>6. Heads' = Heads
    BY <1>10, <2>1
  <2>7. \A u : ~Reading(u)
    BY <2>1 DEF Reading
  <2>8. outside' = {} => FlagIsRight' /\ UsesCounted'
    <3> SUFFICES ASSUME outside' = {} PROVE FlagIsRight' /\ UsesCounted'
      OBVIOUS
    <3>1. FlagIsRight /\ UsesCounted
      BY <2>1 DEF UsesInv
    <3>2. ~inSync /\ FlagIsRight'
      BY <2>1, <3>1 DEF FlagIsRight
    <3> QED BY <1>8, <2>1, <2>5, <2>6, <2>7, <3>1, <3>2
  <2> QED BY <1>6, <2>1, <2>8
<1>17. CASE Skip
  <2>1. /\ raw \in 1..Eof /\ ~IsToken(raw) /\ raw' = raw + 1
        /\ InHandler' = InHandler /\ Top' = Top /\ particles' = particles
        /\ InHandler => Top.mode # "done"
    BY <1>4, <1>17 DEF Skip, InHandler, Top
  <2>2. InHandler => InBlock(Top, raw + 1)
    BY <1>4, <1>5, <2>1, SkipInBlock DEF UsesInv
  <2>3. Blocks' = Blocks
    BY <1>11, <1>12, <2>1 DEF Blocks
  <2>4. \A u \in Nat : Reading(u) /\ inSync' = inSync => Reading(u)'
    BY <1>4, <1>13, <2>1 DEF Reading
  <2>5. CASE Kind(raw) \in {"define", "pragma"}
    <3>1. ~IsUse(raw) /\ ignored' = ignored /\ outside' = outside /\ inSync' = inSync
      BY <1>17, <2>5 DEF Skip, IsUse
    <3>2. Heads' = Heads
      BY <1>10, <2>1, <3>1
    <3>3. FlagIsRight => FlagIsRight'
      BY <2>1, <3>1 DEF FlagIsRight
    <3>4. \A u \in Heads : Reading(u) => Reading(u)'
      BY <1>4, <2>4, <3>1 DEF Heads
    <3> QED BY <1>6, <1>8, <2>1, <2>2, <2>3, <3>1, <3>2, <3>3, <3>4 DEF UsesInv
  <2>6. CASE Kind(raw) = "sync" /\ LexSync
    <3>1. /\ IsUse(raw) /\ inSync'
          /\ ignored' = IF inSync THEN ignored \cup {raw} ELSE ignored
          /\ outside' = IF InHandler /\ Top.mode # "open" THEN outside
                        ELSE outside \cup {raw}
      BY <2>1, <2>6 DEF LexSync, IsToken
    <3> SUFFICES ASSUME outside' = {} PROVE FlagIsRight' /\ UsesCounted'
      BY <1>6, <2>1, <2>2
    <3>2. InHandler /\ Top.mode # "open" /\ FlagIsRight /\ UsesCounted
      BY <3>1 DEF UsesInv
    <3>3. FlagIsRight'
      BY <1>5, <2>1, <3>1, <3>2 DEF FlagIsRight, Modes
    <3>4. CASE inSync
      <4>1. Heads' = Heads
        BY <1>4, <1>9, <2>1, <3>1, <3>4 DEF Heads
      <4>2. inSync' = inSync
        BY <1>4, <3>1, <3>4 DEF LexSync, IsTyped, TypeInv
      <4>3. \A u \in Heads : Reading(u) => Reading(u)'
        BY <1>4, <2>4, <4>2 DEF Heads
      <4>4. PICK v \in Heads : Reading(v)
        BY <3>2, <3>4 DEF UsesCounted
      <4>5. ignored' \subseteq {q \in 1..(raw' - 1) : IsUse(q)}
        BY <1>4, <2>1, <3>1, <3>2 DEF UsesCounted
      <4>6. v < raw
        BY <1>4 DEF Heads
      <4>7. \A q \in ignored' : \E u \in Heads' :
              u < q /\ (Reading(u)' \/ q < BlockEnd(NextToken(u)))
        BY <3>1, <3>2, <3>4, <4>1, <4>3, <4>4, <4>6 DEF UsesCounted
      <4> QED BY <1>7, <2>3, <3>2, <3>3, <4>1, <4>3, <4>4, <4>5, <4>7 DEF UsesCounted
    <3>5. CASE ~inSync
      <4>1. Top.mode = "scan"
        BY <1>5, <2>1, <3>2, <3>5 DEF FlagIsRight, Modes
      <4>2. raw \notin ignored /\ ignored' = ignored
        BY <1>4, <3>1, <3>2, <3>5 DEF UsesCounted
      <4>3. Heads' = Heads \cup {raw}
        BY <1>4, <1>9, <2>1, <3>1, <4>2 DEF Heads
      <4>4. \A u : u = raw => Reading(u)'
        BY <1>4, <1>13, <2>1, <3>1, <3>2, <4>1
      <4>5. \A u \in Heads : ~Reading(u)
        BY <3>5, <4>1 DEF Reading
      <4>6. ignored' \subseteq {q \in 1..(raw' - 1) : IsUse(q)}
        BY <1>4, <2>1, <3>2, <4>2 DEF UsesCounted
      <4>7. \A u \in Heads' : Reading(u)' \/ \E b \in Blocks' : b.begin = NextToken(u)
        <5>1. \A u \in Heads : \E b \in Blocks' : b.begin = NextToken(u)
          BY <2>3, <3>2, <4>5, Zenon DEF UsesCounted
        <5> QED BY <4>3, <4>4, <5>1, Zenon
      <4>8. \A b \in Blocks' : /\ b.end = BlockEnd(b.begin)
                               /\ \E u \in Heads' : b.begin = NextToken(u)
        BY <2>3, <3>2, <4>3 DEF UsesCounted
      <4>9. inSync' => \E u \in Heads' : Reading(u)'
        BY <4>3, <4>4, Zenon
      <4>10. \A q \in ignored' : \E u \in Heads' :
               u < q /\ (Reading(u)' \/ q < BlockEnd(NextToken(u)))
        BY <3>2, <4>2, <4>3, <4>5 DEF UsesCounted
      <4> QED BY <1>7, <3>3, <4>6, <4>7, <4>8, <4>9, <4>10
    <3> QED BY <3>4, <3>5
  <2> QED BY <1>17, <2>5, <2>6 DEF Skip
<1>18. CASE LookAhead
  <2> DEFINE g == Feed(Top, raw)
  <2>1. /\ InHandler /\ InHandler' /\ Top.mode # "done" /\ raw \in 1..Eof /\ IsToken(raw)
        /\ raw' = raw + 1 /\ Top' = g /\ particles' = particles /\ outside' = outside
        /\ ignored' = ignored /\ inSync' = Flag(Top, raw)
    <3>1. frames' = <<g>> /\ frames = <<Top>>
      BY <1>18 DEF LookAhead
    <3>2. Top' = frames'[Len(frames')]
      BY DEF Top
    <3>3. Top' = g
      BY <3>1, <3>2
    <3> QED BY <1>4, <1>18, <3>1, <3>3 DEF LookAhead, InHandler
  <2> HIDE DEF g
  <2>2. InBlock(Top, raw)
    BY <2>1 DEF UsesInv
  <2>3. /\ InBlock(g, raw + 1)
        /\ Top.mode = "open" \/ (Top.mode = "scan" /\ ~inSync) => Idle(g, Top)
        /\ Top.mode = "scan" /\ inSync => Ends(g, Top, raw, raw) \/ GoesOn(g, Top, raw)
        /\ Top.mode \in {"braced", "line"} => \/ Ends(g, Top, Top.start, raw)
                                              \/ GoesOn(g, Top, Top.start)
    BY <1>4, <1>5, <2>1, <2>2, FeedBlocks DEF g
  <2>4. Heads' = Heads
    <3>1. ~IsUse(raw)
      BY <2>1 DEF IsToken
    <3> QED BY <1>10, <2>1, <3>1
  <2>5. Blocks' = AllBlocks \cup ToSet(g.blocks) /\ Blocks = AllBlocks \cup ToSet(Top.blocks)
    BY <1>11, <1>12, <2>1 DEF Blocks
  <2>6. inSync' <=> inSync /\ Len(g.blocks) = Len(Top.blocks)
    BY <2>1 DEF Flag, g
  <2> SUFFICES ASSUME outside' = {} PROVE FlagIsRight' /\ UsesCounted'
    BY <1>6, <2>1, <2>3
  <2>7. FlagIsRight /\ UsesCounted
    BY <2>1 DEF UsesInv
  <2>8. \A u \in Heads : u \in Nat /\ u < raw
    BY <1>4 DEF Heads
  <2>9. ASSUME NEW u \in Heads, Reading(u)
        PROVE  NextToken(u) = IF Top.mode = "scan" THEN raw ELSE Top.start
    <3>1. CASE Top.mode = "scan"
      <4>1. \A q \in (u + 1)..(raw - 1) : ~IsToken(q)
        BY <2>9, <3>1 DEF Reading
      <4>2. NextToken(u) = raw
        BY <1>4, <2>1, <2>8, <4>1, NextTokenIs
      <4> QED BY <3>1, <4>2
    <3>2. CASE Top.mode # "scan"
      BY <2>9, <3>2 DEF Reading
    <3> QED BY <3>1, <3>2
  <2>10. CASE Top.mode = "open" \/ (Top.mode = "scan" /\ ~inSync)
    <3>1. Idle(g, Top)
      BY <2>3, <2>10
    <3>2. Blocks' = Blocks
      BY <2>5, <3>1 DEF Idle
    <3>3. ~inSync /\ \A u : ~Reading(u)
      BY <2>7, <2>10 DEF FlagIsRight, Reading
    <3>4. FlagIsRight'
      BY <2>1, <2>6, <3>1, <3>3 DEF FlagIsRight, Idle
    <3> QED BY <1>8, <2>1, <2>4, <2>6, <2>7, <3>2, <3>3, <3>4
  <2>11. ASSUME NEW b, inSync, GoesOn(g, Top, b),
                \A u \in Heads : Reading(u) => NextToken(u) = b
         PROVE  FlagIsRight' /\ UsesCounted'
    <3>1. Blocks' = Blocks /\ inSync'
      BY <2>5, <2>6, <2>11 DEF GoesOn
    <3>2. FlagIsRight'
      BY <2>1, <2>11, <3>1 DEF FlagIsRight, GoesOn
    <3>3. \A u \in Heads : Reading(u) => Reading(u)'
      BY <1>13, <2>1, <2>11 DEF GoesOn
    <3> QED BY <1>8, <2>1, <2>4, <2>7, <2>11, <3>1, <3>2, <3>3
  <2>12. ASSUME NEW b, inSync, Ends(g, Top, b, raw),
                \A u \in Heads : Reading(u) => NextToken(u) = b
         PROVE  FlagIsRight' /\ UsesCounted'
    <3> DEFINE e == [begin |-> b, end |-> raw]
    <3>1. e.begin = b /\ e.end = raw
      OBVIOUS
    <3>2. g.blocks = Append(Top.blocks, e) /\ g.mode \in {"scan", "done"} /\ BlockEnd(b) = raw
      BY <2>12 DEF Ends
    <3> HIDE DEF e
    <3>3. Len(g.blocks) = Len(Top.blocks) + 1 /\ Len(Top.blocks) \in Nat
      BY <1>5, <2>1, <3>2, LenProperties
    <3>4. ~inSync'
      BY <2>6, <3>3
    <3>5. Blocks' = Blocks \cup {e}
      BY <1>5, <2>1, <2>5, <3>2, AppendSet
    <3>6. FlagIsRight'
      BY <2>1, <3>2, <3>4 DEF FlagIsRight
    <3>7. PICK v \in Heads : Reading(v)
      BY <2>7, <2>12 DEF UsesCounted
    <3>8. ignored' \subseteq {q \in 1..(raw' - 1) : IsUse(q)}
      BY <1>4, <2>1, <2>7 DEF UsesCounted
    <3>9. \A u \in Heads' : \E d \in Blocks' : d.begin = NextToken(u)
      BY <2>4, <2>7, <2>12, <3>1, <3>5 DEF UsesCounted
    <3>10. \A d \in Blocks' : /\ d.end = BlockEnd(d.begin)
                              /\ \E u \in Heads' : d.begin = NextToken(u)
      BY <2>4, <2>7, <2>12, <3>1, <3>2, <3>5, <3>7 DEF UsesCounted
    <3>11. \A q \in ignored' : \E u \in Heads' : u < q /\ q < BlockEnd(NextToken(u))
      <4> SUFFICES ASSUME NEW q \in ignored
                   PROVE  \E u \in Heads : u < q /\ q < BlockEnd(NextToken(u))
        BY <2>1, <2>4
      <4>1. q < raw
        BY <1>4, <2>7 DEF UsesCounted
      <4>2. PICK u \in Heads : u < q /\ (Reading(u) \/ q < BlockEnd(NextToken(u)))
        BY <2>7 DEF UsesCounted
      <4> QED BY <2>12, <3>2, <4>1, <4>2
    <3> QED BY <1>7, <3>4, <3>6, <3>8, <3>9, <3>10, <3>11
  <2>13. CASE Top.mode = "scan" /\ inSync
    BY <2>3, <2>9, <2>11, <2>12, <2>13
  <2>14. CASE Top.mode \in {"braced", "line"}
    <3>1. inSync
      BY <2>1, <2>7, <2>14 DEF FlagIsRight
    <3>2. \A u \in Heads : Reading(u) => NextToken(u) = Top.start
      BY <2>9, <2>14
    <3> QED BY <2>3, <2>11, <2>12, <2>14, <3>1, <3>2
  <2> QED BY <1>5, <2>1, <2>10, <2>13, <2>14 DEF Modes
<1> QED BY <1>14, <1>15, <1>16, <1>17, <1>18, SingleStep

(* Uses are matched in every behaviour, also in one that stops.            *)
LEMMA UsesKept ==
  ASSUME MaxDepth = 1
  PROVE  HandlerRuns => []UsesAreBlocks
<1> DEFINE Inv == TypeInv /\ AtMostOneFrame /\ UsesInv
<1>1. Init => Inv
  <2>1. Init => UsesInv
    <3> SUFFICES ASSUME Init PROVE UsesInv
      OBVIOUS
    <3>1. ~InHandler /\ inSync = FALSE /\ ignored = {} /\ raw = 1 /\ particles = <<>>
      BY DEF Init, InHandler
    <3>2. Heads = {} /\ Blocks = {}
      <4>1. AllParticles = {}
        BY <3>1 DEF AllParticles, ToSet
      <4> QED BY <3>1, <4>1 DEF Heads, Blocks, AllBlocks
    <3> QED BY <3>1, <3>2 DEF UsesInv, FlagIsRight, UsesCounted
  <2> QED BY <2>1, TypeInvInit, TokensInit
<1>2. Inv /\ [Next]_vars => Inv'
  <2>1. NoNesting
    BY DEF NoNesting
  <2> QED BY <2>1, TypeInvStep, OneFrameStep, UsesStep
<1>3. Inv => UsesAreBlocks
  <2> SUFFICES ASSUME UsesInv, ~InHandler, outside = {} PROVE UsesAreBlocks
    BY DEF UsesAreBlocks
  <2> DEFINE uses == {q \in 1..(raw - 1) : IsUse(q)}
  <2>1. Heads = uses \ ignored
    BY DEF Heads
  <2>2. Blocks = AllBlocks /\ UsesCounted /\ \A u : ~Reading(u)
    BY DEF Blocks, UsesInv, Reading
  <2>3. {b.begin : b \in AllBlocks} = {NextToken(q) : q \in Heads}
    BY <2>2 DEF UsesCounted
  <2>4. \A b \in AllBlocks : b.end = BlockEnd(b.begin)
    BY <2>2 DEF UsesCounted
  <2>5. \A q \in ignored : \E u \in Heads : u < q /\ q < BlockEnd(NextToken(u))
    BY <2>2 DEF UsesCounted
  <2> QED BY <2>1, <2>3, <2>4, <2>5, Zenon DEF UsesAreBlocks
<1> QED BY <1>1, <1>2, <1>3, PTL DEF HandlerRuns

(* In a file whose particles do not nest and that uses __synchronized only *)
(* inside of them: the flag _isInsideSyncBlock, set by a macro callback    *)
(* and read two calls up the stack, pairs each use with exactly one block, *)
(* which begins at the next token and ends at the matching brace or at the *)
(* first semicolon; and a use is reported and left out exactly when it     *)
(* stands inside the block of another one.                                 *)
THEOREM UsesBecomeBlocks ==
  ASSUME MaxDepth = 1
  PROVE  Spec => []UsesAreBlocks
BY UsesKept, PTL DEF Spec, HandlerRuns
=============================================================================
