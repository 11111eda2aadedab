------------------------- MODULE ParserProxyProofs --------------------------
(***************************************************************************)
(* Proofs about ParserProxy: what is proved of the pragma handler holds    *)
(* of the whole run over a file; the thread functions go to the right      *)
(* scopes, in whatever order these are rewritten; a file whose unlock text *)
(* would be inserted beyond the end of a thread function is never printed; *)
(* what the texts of the thread functions consist of, and for which files  *)
(* the rewriting is given up.  A file is any sequence of items, and widths *)
(* and spaces are any numbers.                                             *)
(***************************************************************************)
EXTENDS ParserProxy, PragmaBlocksProofs

(* ParseAST runs the handler, and what comes after leaves it alone.        *)
LEMMA ProxyStep == [ProxyNext]_allVars => [Next]_vars
<1> SUFFICES ASSUME [ProxyNext]_allVars PROVE Step \/ UNCHANGED vars
  BY DEF Next
<1>1. CASE Parse
  BY <1>1 DEF Parse
<1>2. CASE EndParse \/ VisitVarDecl \/ Assign \/ PrintFile \/ ProxyFinished \/ UNCHANGED allVars
  BY <1>2 DEF EndParse, VisitVarDecl, Assign, PrintFile, ProxyFinished, allVars, vars
<1>3. ASSUME NEW f \in Functions, RewriteScope(f) PROVE UNCHANGED vars
  BY <1>3 DEF RewriteScope, vars
<1> QED BY <1>1, <1>2, <1>3 DEF ProxyNext

(* A run over a file is, for the pragma handler, a run of PragmaHandler,   *)
(* without its fairness: ParserProxy's visitor and rewriter only read      *)
(* what the handler has collected.                                         *)
THEOREM RunsTheHandler == ProxySpec => Init /\ [][Next]_vars
<1>1. ProxyInit => Init
  BY DEF ProxyInit
<1> QED BY <1>1, ProxyStep, PTL DEF ProxySpec

(* So while a whole file is processed, with particles nested to any        *)
(* depth: particles are registered exactly for the headers of the          *)
(* grammar, with their dimensions in order, and the names of the thread    *)
(* functions that are made of their numbers differ.                        *)
THEOREM HandlerIsSafe ==
  ProxySpec => [](TypeOK /\ AcceptsTheGrammar /\ ThreadNamesDiffer)
BY RunsTheHandler, TypeKept, GrammarKept, ThreadsKept, PTL DEF HandlerRuns

(* And in a file whose particles do not nest: clang's parser gets each     *)
(* token once and in order, the ranges end at their braces and the uses of *)
(* __synchronized are blocks, when the visitor and the rewriter read them. *)
THEOREM HandlerIsSafeFlat ==
  ASSUME MaxDepth = 1
  PROVE  ProxySpec => [](ParserSeesSource /\ ParticleEndsAtItsBrace /\ UsesAreBlocks)
BY RunsTheHandler, SourceKept, BracesKept, UsesKept, PTL DEF HandlerRuns
-----------------------------------------------------------------------------
(* The greatest number of a set that is bounded and not empty.             *)
LEMMA Greatest ==
  ASSUME NEW S \in SUBSET Nat, S # {}, NEW n \in Nat, \A m \in S : m <= n
  PROVE  Max(S) \in S /\ \A m \in S : m <= Max(S)
<1> DEFINE T == {b \in Nat : \A m \in S : m <= b}
<1>1. PICK x \in T : \A y \in T : x <= y
  <2>1. T \in SUBSET Nat /\ T # {}
    OBVIOUS
  <2> QED BY <2>1, LeastNumber
<1>2. x \in S
  <2> SUFFICES ASSUME x \notin S PROVE FALSE
    OBVIOUS
  <2>1. PICK m \in S : TRUE
    OBVIOUS
  <2>2. m <= x /\ m # x /\ m \in Nat /\ x \in Nat
    BY <1>1
  <2>3. x - 1 \in T
    BY <1>1, <2>2
  <2> QED BY <1>1, <2>2, <2>3
<1>3. \A m \in S : x >= m
  BY <1>1, <1>2
<1> HIDE DEF T
<1>4. Max(S) \in S /\ \A m \in S : Max(S) >= m
  BY <1>2, <1>3 DEF Max
<1> QED BY <1>4

(* A declaration is in one of the functions or in none.                    *)
LEMMA ContainerIs ==
  ASSUME src \in Sources, NEW q
  PROVE  Container(q) \in Functions \cup {0}
<1> DEFINE S == {f \in Functions : Within(f, q)} \cup {0}
<1>1. Len(src) \in Nat
  BY SourceType
<1>2. S \in SUBSET Nat /\ S # {} /\ \A m \in S : m <= Len(src)
  BY <1>1 DEF Functions
<1>3. S \subseteq Functions \cup {0}
  OBVIOUS
<1>4. Container(q) = Max(S)
  BY DEF Container
<1> HIDE DEF S
<1> QED BY <1>1, <1>2, <1>3, <1>4, Greatest

(* The functions with a scope: those with a variable.                      *)
Scoped(ds) == {Container(d.begin) : d \in ds} \ {0}

LEMMA ScopedIs ==
  ASSUME src \in Sources
  PROVE  Scoped(Declarations) = {f \in Functions : VariablesOf(f) # {}}
<1>1. \A d \in Declarations : Container(d.begin) \in Functions \cup {0}
  BY ContainerIs
<1>2. \A f \in Functions : f # 0
  BY DEF Functions
<1> QED BY <1>1, <1>2, Zenon DEF Scoped, VariablesOf
-----------------------------------------------------------------------------
(* The numbers of the particles in the scope of f.                         *)
Own(f) == {n \in DOMAIN particles : InScope(f, particles[n])}

(* The thread functions that the scope of f gets.                          *)
GetsThreads(f) ==
  /\ DOMAIN threads[f] = Own(f)
  /\ \A n \in Own(f) : /\ threads[f][n].id = particles[n].id
                       /\ threads[f][n].user = UserBlock(particles[n]).text
                       /\ ~UserBlock(particles[n]).thrown

(* Why the rewriting has been given up.                                    *)
GivenUp ==
  \/ TRUE \in Asserts /\ \E p \in AllParticles : 0 \in {p.begin, p.end}
  \/ \E f \in DOMAIN scopes : \E n \in Own(f) : UserBlock(particles[n]).thrown

(* The inductive invariant of the phases after the parser. visited only    *)
(* grows to Declarations, and only a phase later the particles are given   *)
(* out, so scopes has exactly the functions with a variable by then, each  *)
(* with all of its particles; threads is filled scope by scope, in any     *)
(* order, and a scope once written is not written again.                   *)
ProxyInv ==
  /\ phase \in {"parse", "visit", "rewrite", "printed", "aborted", "undefined"}
  /\ visited \subseteq Declarations
  /\ phase = "parse" => visited = {}
  /\ phase \in {"rewrite", "printed"} => visited = Declarations
  /\ DOMAIN scopes = Scoped(visited)
  /\ \A f \in DOMAIN scopes : "particles" \in DOMAIN scopes[f]
  /\ phase \in {"rewrite", "printed"} =>
       \A f \in DOMAIN scopes : scopes[f].particles = Own(f)
  /\ phase \in {"parse", "visit"} => DOMAIN threads = {}
  /\ DOMAIN threads \subseteq DOMAIN scopes
  /\ phase = "printed" => DOMAIN threads = DOMAIN scopes
  /\ \A f \in DOMAIN threads : GetsThreads(f)
  /\ phase = "aborted" => GivenUp

(* What is told from the file does not change while the file does not.     *)
LEMMA SameFile ==
  ASSUME src' = src
  PROVE  /\ Declarations' = Declarations
         /\ \A q : Container(q)' = Container(q)
         /\ \A f, p : InScope(f, p)' = InScope(f, p)
<1>1. Eof' = Eof /\ \A q : Kind(q)' = Kind(q)
  BY SourceIsFixed
<1>2. \A k, m, n : Braces(k, m, n)' = Braces(k, m, n)
  BY SourceIsFixed
<1>3. \A b : Matching(b, 0)' = Matching(b, 0)
  BY SourceIsFixed
<1>4. \A f : FunctionEnd(f)' = FunctionEnd(f)
  BY <1>3 DEF FunctionEnd
<1>5. \A f, q : Within(f, q)' = Within(f, q)
  BY <1>4 DEF Within
<1>6. Functions' = Functions
  BY <1>1 DEF Functions
<1>7. \A q : Container(q)' = Container(q)
  BY <1>5, <1>6 DEF Container
<1>8. \A q : DeclaredAt(q)' = DeclaredAt(q)
  BY <1>1 DEF DeclaredAt, Least
<1>9. Declarations' = Declarations
  BY <1>1, <1>8 DEF Declarations
<1>10. \A f, p : InScope(f, p)' = InScope(f, p)
  BY <1>5 DEF InScope
<1> QED BY <1>7, <1>9, <1>10

(* The user blocks are told from the file alone.                           *)
LEMMA SameText ==
  ASSUME src' = src
  PROVE  /\ Offset' = Offset /\ Text' = Text
         /\ \A q : Width(q)' = Width(q)
         /\ \A p : UserBlock(p)' = UserBlock(p)
<1>1. Eof' = Eof /\ \A q : Kind(q)' = Kind(q) /\ Width(q)' = Width(q) /\ SpaceAfter(q)' = SpaceAfter(q)
  BY SourceIsFixed DEF Width, SpaceAfter
<1>2. Offset' = Offset
  BY <1>1 DEF Offset
<1>3. Text' = Text
  BY <1>1, <1>2 DEF Text
<1>4. \A p : UserText(p)' = UserText(p)
  BY <1>2, <1>3 DEF UserText
<1>5. \A t, n : IsKeyword(t, n)' <=> IsKeyword(t, n)
  BY <1>1, <1>2 DEF IsKeyword
<1>6. \A t : EraseKeywords(t)' = EraseKeywords(t)
  BY <1>5 DEF EraseKeywords
<1>7. \A u, f, b : LockBlock(u, f, b)' = LockBlock(u, f, b)
  BY <1>2, <1>6 DEF LockBlock
<1>8. \A p : UserBlock(p)' = UserBlock(p)
  <2> SUFFICES ASSUME NEW p PROVE UserBlock(p)' = UserBlock(p)
    OBVIOUS
  <2>1. UserText(p)' = UserText(p)
    BY <1>4
  <2> DEFINE turn(u, n) == LockBlock(u, Offset[p.begin], p.blocks[n])
             IsUser(u) == u = [n \in 0..Len(p.blocks) |->
                                 IF n = 0 THEN [text |-> UserText(p), thrown |-> FALSE]
                                 ELSE turn(u[n - 1], n)]
             user == CHOOSE u : IsUser(u)
  <2>2. UserBlock(p) = IF Len(p.dimensions) # 1 THEN [text |-> <<>>, thrown |-> FALSE]
                       ELSE user[Len(p.blocks)]
    BY Zenon DEF UserBlock
  <2>3. UserBlock(p)' = IF Len(p.dimensions) # 1 THEN [text |-> <<>>, thrown |-> FALSE]
                        ELSE user'[Len(p.blocks)]
    BY Zenon DEF UserBlock
  <2>4. \A u, n : turn(u, n)' = turn(u, n)
    BY <1>2, <1>7
  <2> HIDE DEF turn
  <2>5. \A u : IsUser(u)' <=> IsUser(u)
    BY <2>1, <2>4
  <2> HIDE DEF IsUser
  <2>6. user' = user
    BY <2>5
  <2> HIDE DEF user
  <2> QED BY <2>2, <2>3, <2>6
<1> QED BY <1>1, <1>2, <1>3, <1>8
-----------------------------------------------------------------------------
(* Offset, which is defined by recursion, is a number at each item of the  *)
(* file and never decreases: the facts about the recursion hold of a set   *)
(* of numbers that contains 0 and, with each number, the next.             *)
LEMMA OffsetGrows ==
  ASSUME src \in Sources
  PROVE  /\ \A q \in 0..Len(src) :
              Offset[q] \in Nat /\ Offset[q + 1] \in Nat /\ Offset[q] <= Offset[q + 1]
         /\ \A q \in 1..Len(src) : Offset[q + 1] = Offset[q] + Width(q) + SpaceAfter(q)
         /\ Offset[1] = 0
<1> DEFINE N == Len(src)
           w(q) == Width(q) + SpaceAfter(q)
           step == [x \in Nat \X (1..N) |-> x[1] + w(x[2])]
<1>1. N \in Nat /\ Eof = N + 1
  BY SourceType DEF Eof
<1>2. \A q : w(q) \in Nat
  <2>1. \A q : Width(q) \in Nat
    BY DEF Width
  <2>2. \A q : SpaceAfter(q) \in Nat
    BY ParserProxyAssumption DEF SpaceAfter
  <2> QED BY <2>1, <2>2
<1> DEFINE IsOffset(f) == f = [q \in 0..Eof |-> IF q <= 1 THEN 0
                                ELSE f[q - 1] + Width(q - 1) + SpaceAfter(q - 1)]
<1>3. \E f : IsOffset(f)
  <2>1. step \in [Nat \X (1..N) -> Nat]
    <3>1. \A x \in Nat \X (1..N) : x[1] + w(x[2]) \in Nat
      BY <1>2
    <3> HIDE DEF w
    <3> QED BY <3>1
  <2>2. PICK f \in [1..(N + 1) -> Nat] : Recurrence(f, N, 0, step)
    <3> HIDE DEF N, step
    <3> QED BY <1>1, <2>1, RecursiveFunction
  <2> DEFINE g == [q \in 0..Eof |-> IF q <= 1 THEN 0 ELSE f[q]]
  <2>3. f[1] = 0 /\ \A k \in 2..(N + 1) : f[k] = step[<<f[k - 1], k - 1>>]
    <3> HIDE DEF step, N
    <3>1. 1 \in 1..(N + 1) /\ \A k \in 2..(N + 1) : k \in 1..(N + 1) /\ k # 1
      BY <1>1
    <3> QED BY <2>2, <3>1, Zenon DEF Recurrence
  <2>4. ASSUME NEW k \in 2..(N + 1)
        PROVE  f[k] = g[k - 1] + Width(k - 1) + SpaceAfter(k - 1)
    <3>1. k - 1 \in 1..N /\ f[k - 1] \in Nat /\ k - 1 \in 0..Eof
      BY <1>1, <2>4
    <3>2. g[k - 1] = f[k - 1]
      <4>1. k - 1 <= 1 => k - 1 = 1
        BY <3>1
      <4> QED BY <2>3, <3>1, <4>1
    <3>3. f[k] = f[k - 1] + w(k - 1)
      <4>1. <<f[k - 1], k - 1>> \in Nat \X (1..N)
        BY <3>1
      <4> HIDE DEF w
      <4> QED BY <2>3, <3>1, <4>1
    <3>4. Width(k - 1) \in Nat /\ SpaceAfter(k - 1) \in Nat
      BY ParserProxyAssumption DEF Width, SpaceAfter
    <3> QED BY <3>1, <3>2, <3>3, <3>4
  <2>5. \A q \in 0..Eof : g[q] = IF q <= 1 THEN 0
                                ELSE g[q - 1] + Width(q - 1) + SpaceAfter(q - 1)
    BY <1>1, <2>4
  <2>6. g = [q \in 0..Eof |-> g[q]]
    OBVIOUS
  <2> HIDE DEF g
  <2>7. g = [q \in 0..Eof |-> IF q <= 1 THEN 0
                              ELSE g[q - 1] + Width(q - 1) + SpaceAfter(q - 1)]
    BY <2>5, <2>6
  <2> QED BY <2>7
<1>4. IsOffset(Offset)
  <2>1. Offset = CHOOSE f : IsOffset(f)
    BY Zenon DEF Offset
  <2> HIDE DEF IsOffset
  <2> QED BY <1>3, <2>1
<1>5. /\ \A q \in 0..Eof : q <= 1 => Offset[q] = 0
      /\ \A q \in 1..N : Offset[q + 1] = Offset[q] + Width(q) + SpaceAfter(q)
  <2> DEFINE f == Offset
  <2> HIDE DEF f
  <2>0. IsOffset(f)
    BY <1>4 DEF f
  <2>1. \A q \in 0..Eof : f[q] = IF q <= 1 THEN 0
                                ELSE f[q - 1] + Width(q - 1) + SpaceAfter(q - 1)
    BY <2>0
  <2>2. \A q \in 1..N : q + 1 \in 0..Eof /\ ~(q + 1 <= 1) /\ (q + 1) - 1 = q
    BY <1>1
  <2>3. \A q \in 1..N : f[q + 1] = f[q] + Width(q) + SpaceAfter(q)
    BY <2>1, <2>2
  <2> QED BY <2>1, <2>3 DEF f
<1> DEFINE I == {n \in Nat : n <= N => Offset[n] \in Nat /\ Offset[n + 1] \in Nat
                                       /\ Offset[n] <= Offset[n + 1]}
<1> HIDE DEF IsOffset
<1>6. 0 \in I
  <2>1. Offset[0] = 0 /\ Offset[1] = 0
    BY <1>1, <1>5
  <2> QED BY <2>1
<1>7. ASSUME NEW n \in I PROVE n + 1 \in I
  <2> SUFFICES ASSUME n + 1 <= N
               PROVE  Offset[n + 1] \in Nat /\ Offset[(n + 1) + 1] \in Nat
                      /\ Offset[n + 1] <= Offset[(n + 1) + 1]
    OBVIOUS
  <2>1. Offset[n + 1] \in Nat /\ n + 1 \in 1..N
    BY <1>1
  <2>2. Offset[(n + 1) + 1] = Offset[n + 1] + Width(n + 1) + SpaceAfter(n + 1)
    BY <1>5, <2>1
  <2>3. Width(n + 1) \in Nat /\ SpaceAfter(n + 1) \in Nat
    BY ParserProxyAssumption DEF Width, SpaceAfter
  <2> QED BY <2>1, <2>2, <2>3
<1>8. I = Nat
  <2>1. I \in SUBSET Nat
    OBVIOUS
  <2> HIDE DEF I
  <2> QED BY <1>6, <1>7, <2>1, InductiveSet
<1>9. Offset[1] = 0
  BY <1>1, <1>5
<1> QED BY <1>1, <1>5, <1>8, <1>9

(* So what stands later in the file has no smaller offset.                 *)
LEMMA OffsetsInOrder ==
  ASSUME src \in Sources, NEW a \in 0..Eof, NEW b \in 0..Eof, a <= b
  PROVE  Offset[a] \in Nat /\ Offset[b] \in Nat /\ Offset[a] <= Offset[b]
<1> DEFINE N == Len(src)
           I == {n \in Nat : a + n <= N + 1 => Offset[a] <= Offset[a + n]}
<1>1. N \in Nat /\ Eof = N + 1
  BY SourceType DEF Eof
<1>2. \A q \in 0..N : Offset[q] \in Nat /\ Offset[q + 1] \in Nat /\ Offset[q] <= Offset[q + 1]
  BY OffsetGrows
<1>3. 0 \in I
  <2>1. a + 0 = a
    BY <1>1
  <2> QED BY <1>2, <2>1
<1>4. ASSUME NEW n \in I PROVE n + 1 \in I
  <2> SUFFICES ASSUME a + (n + 1) <= N + 1 PROVE Offset[a] <= Offset[a + (n + 1)]
    OBVIOUS
  <2>1. a + n \in 0..N /\ a + (n + 1) = (a + n) + 1 /\ Offset[a] <= Offset[a + n]
    BY <1>1
  <2> QED BY <1>2, <2>1
<1>5. I = Nat
  <2>1. I \in SUBSET Nat
    OBVIOUS
  <2> HIDE DEF I
  <2> QED BY <1>3, <1>4, <2>1, InductiveSet
<1>6. b - a \in I /\ a + (b - a) = b
  <2>1. b - a \in Nat /\ a + (b - a) = b
    BY <1>1
  <2> HIDE DEF I
  <2> QED BY <1>5, <2>1
<1> QED BY <1>1, <1>2, <1>6

(* The turns of the loop over the blocks of a particle.                    *)
LEMMA UserBlockSteps ==
  ASSUME NEW p, NEW n \in Nat, Len(p.blocks) = n, Len(p.dimensions) = 1
  PROVE  \E user : /\ UserBlock(p) = user[n]
                   /\ user[0] = [text |-> UserText(p), thrown |-> FALSE]
                   /\ \A k \in 1..n : user[k] = LockBlock(user[k - 1], Offset[p.begin], p.blocks[k])
<1> DEFINE from == Offset[p.begin]
           first == [text |-> UserText(p), thrown |-> FALSE]
           turn(u, k) == LockBlock(u, from, p.blocks[k])
           IsUser(u) == u = [k \in 0..n |-> IF k = 0 THEN first ELSE turn(u[k - 1], k)]
           user == CHOOSE u : IsUser(u)
<1>1. UserBlock(p) = user[n]
  BY Zenon DEF UserBlock
<1>2. IsUser(user)
  <2> DEFINE Rec(m, u) == \A k \in 0..m : u[k] = IF k = 0 THEN first ELSE turn(u[k - 1], k)
             I == {m \in Nat : \E u : Rec(m, u)}
  <2> HIDE DEF first, turn
  <2>1. 0 \in I
    <3>1. Rec(0, [k \in 0..0 |-> first])
      OBVIOUS
    <3> QED BY <3>1
  <2>2. ASSUME NEW m \in I PROVE m + 1 \in I
    <3>1. PICK u : Rec(m, u)
      OBVIOUS
    <3> DEFINE v == [k \in 0..(m + 1) |-> IF k <= m THEN u[k] ELSE turn(u[m], m + 1)]
    <3>2. Rec(m + 1, v)
      <4>1. \A k \in 0..(m + 1) : v[k] = IF k <= m THEN u[k] ELSE turn(u[m], m + 1)
        OBVIOUS
      <4>2. ASSUME NEW k \in 0..(m + 1)
            PROVE  v[k] = IF k = 0 THEN first ELSE turn(v[k - 1], k)
        <5>1. CASE k <= m
          <6>1. k \in 0..m /\ (k # 0 => k - 1 \in 0..(m + 1) /\ k - 1 <= m)
            BY <5>1
          <6>2. v[k] = u[k] /\ (k # 0 => v[k - 1] = u[k - 1])
            BY <4>1, <5>1, <6>1
          <6> QED BY <3>1, <6>1, <6>2
        <5>2. CASE ~(k <= m)
          <6>1. k = m + 1 /\ k # 0 /\ k - 1 = m /\ m \in 0..(m + 1) /\ m <= m
            BY <5>2
          <6>2. v[m] = u[m]
            BY <4>1, <6>1
          <6>3. v[k] = turn(u[m], m + 1)
            BY <4>1, <5>2
          <6> QED BY <6>1, <6>2, <6>3
        <5> QED BY <5>1, <5>2
      <4> QED BY <4>2
    <3> HIDE DEF v
    <3>3. m + 1 \in Nat
      OBVIOUS
    <3> HIDE DEF Rec
    <3> QED BY <3>2, <3>3
  <2>3. n \in I
    <3>1. I \in SUBSET Nat
      OBVIOUS
    <3> HIDE DEF I
    <3> QED BY <2>1, <2>2, <3>1, InductiveSet
  <2>4. PICK u : Rec(n, u)
    BY <2>3
  <2> DEFINE v == [k \in 0..n |-> u[k]]
  <2>5. IsUser(v)
    <3>1. \A k \in 0..n : k # 0 => k - 1 \in 0..n
      OBVIOUS
    <3>2. \A k \in 0..n : v[k] = u[k]
      OBVIOUS
    <3>3. \A k \in 0..n : v[k] = IF k = 0 THEN first ELSE turn(v[k - 1], k)
      BY <2>4, <3>1, <3>2
    <3>4. v = [k \in 0..n |-> v[k]]
      OBVIOUS
    <3> HIDE DEF v
    <3> QED BY <3>3, <3>4
  <2> HIDE DEF IsUser, v
  <2> QED BY <2>5
<1> HIDE DEF user, turn, first
<1>3. \A k \in 0..n : user[k] = IF k = 0 THEN first ELSE turn(user[k - 1], k)
  BY <1>2
<1>4. 0 \in 0..n /\ \A k \in 1..n : k \in 0..n /\ k # 0
  OBVIOUS
<1>5. user[0] = first /\ \A k \in 1..n : user[k] = turn(user[k - 1], k)
  BY <1>3, <1>4
<1> QED BY <1>1, <1>5 DEF first, turn

(* When the first block ends where the particle does, the unlock text goes *)
(* one character beyond the text of the particle, which ends before the    *)
(* closing brace: insert throws, and no later turn of the loop clears it.  *)
LEMMA LastBlockThrows ==
  ASSUME src \in Sources, NEW p, NEW n \in Nat, n >= 1, Len(p.blocks) = n,
         p.begin \in 0..Len(src), p.end \in 0..Len(src), p.begin <= p.end,
         Len(p.dimensions) = 1, p.blocks[1].end = p.end
  PROVE  UserBlock(p).thrown = TRUE
<1> DEFINE from == Offset[p.begin]
           first == [text |-> UserText(p), thrown |-> FALSE]
           turn(u, k) == LockBlock(u, from, p.blocks[k])
<1>1. PICK user : /\ UserBlock(p) = user[n]
                  /\ user[0] = [text |-> UserText(p), thrown |-> FALSE]
                  /\ \A k \in 1..n : user[k] = LockBlock(user[k - 1], Offset[p.begin], p.blocks[k])
  BY UserBlockSteps
<1>2. user[0] = first /\ \A k \in 1..n : user[k] = turn(user[k - 1], k)
  BY <1>1
<1> DEFINE Given(u) == DOMAIN u = {"text", "thrown"} /\ u.thrown = TRUE
<1>3. ASSUME NEW u, DOMAIN u = {"text", "thrown"}
      PROVE  Given([u EXCEPT !.thrown = TRUE])
  BY <1>3
<1>4. ASSUME NEW u, NEW k, Given(u) PROVE Given(turn(u, k))
  <2>1. turn(u, k) = [u EXCEPT !.thrown = TRUE]
    BY <1>4, Zenon DEF LockBlock
  <2> QED BY <1>3, <1>4, <2>1
<1>5. Given(turn(first, 1))
  <2> DEFINE end == Offset[p.blocks[1].end] - from + 1
  <2>1. end > Len(UserText(p))
    <3> DEFINE a == Offset[p.begin]
               b == Offset[p.end]
    <3>1. a \in Nat /\ b \in Nat /\ a <= b
      <4>1. p.begin \in 0..Eof /\ p.end \in 0..Eof
        BY SourceType DEF Eof
      <4> QED BY <4>1, OffsetsInOrder
    <3>2. end = b - a + 1
      OBVIOUS
    <3>3. Len(UserText(p)) = b - a
      <4> HIDE DEF a, b
      <4>1. Len(SubSeq(Text, a + 1, b)) = b - a
        <5> DEFINE T == Text
        <5> HIDE DEF T
        <5>1. \A i \in (a + 1)..b : T[i] \in {T[j] : j \in (a + 1)..b}
          OBVIOUS
        <5>2. Len(SubSeq(T, a + 1, b)) = IF a + 1 <= b THEN b - (a + 1) + 1 ELSE 0
          <6>1. a + 1 \in Int /\ b \in Int
            BY <3>1
          <6> QED BY <5>1, <6>1, SubSeqProperties
        <5> QED BY <3>1, <5>2 DEF T
      <4> QED BY <4>1 DEF UserText, a, b
    <3> HIDE DEF a, b, end
    <3> QED BY <3>1, <3>2, <3>3
  <2>2. first.text = UserText(p) /\ DOMAIN first = {"text", "thrown"}
    OBVIOUS
  <2> HIDE DEF first
  <2>3. turn(first, 1) = [first EXCEPT !.thrown = TRUE]
    BY <2>1, <2>2, Zenon DEF LockBlock
  <2> QED BY <1>3, <2>2, <2>3
<1> DEFINE J == {m \in Nat : m + 1 <= n => Given(user[m + 1])}
<1> HIDE DEF turn, first, Given
<1>6. 0 \in J
  <2>1. 1 \in 1..n /\ 1 - 1 = 0 /\ 0 + 1 = 1
    OBVIOUS
  <2>2. user[0] = first /\ user[1] = turn(user[0], 1)
    BY <1>2, <2>1
  <2> QED BY <1>5, <2>1, <2>2
<1>7. ASSUME NEW m \in J PROVE m + 1 \in J
  <2> SUFFICES ASSUME (m + 1) + 1 <= n PROVE Given(user[(m + 1) + 1])
    OBVIOUS
  <2>1. (m + 1) + 1 \in 1..n /\ ((m + 1) + 1) - 1 = m + 1 /\ m + 1 <= n
    OBVIOUS
  <2>2. user[(m + 1) + 1] = turn(user[m + 1], (m + 1) + 1)
    BY <1>2, <2>1
  <2> QED BY <1>4, <2>1, <2>2
<1>8. J = Nat
  <2>1. J \in SUBSET Nat
    OBVIOUS
  <2> HIDE DEF J
  <2> QED BY <1>6, <1>7, <2>1, InductiveSet
<1>9. n - 1 \in J /\ (n - 1) + 1 = n
  <2>1. n - 1 \in Nat /\ (n - 1) + 1 = n
    OBVIOUS
  <2> HIDE DEF J
  <2> QED BY <1>8, <2>1
<1>10. Given(user[n])
  BY <1>9
<1> QED BY <1>1, <1>10 DEF Given
-----------------------------------------------------------------------------
(* No token stands after the pragma at this line and before r.             *)
Leads(line, r) == \A q \in (line + 1)..(r - 1) : ~IsToken(q)

(* What lies where in a particle, or in the call that reads it, when every *)
(* item before r is read: the pragma, the opening brace, the blocks, each  *)
(* of which ends at a `;', a brace or the end of the file, and the closing *)
(* brace.                                                                  *)
Spans(f, r) ==
  /\ 0 < f.line /\ f.line < r
  /\ f.begin # 0 => /\ f.line < f.begin /\ f.begin < r
                    /\ Kind(f.begin) = "lb" /\ Leads(f.line, f.begin)
  /\ f.end # 0 => f.line < f.end /\ f.begin < f.end /\ f.end < r /\ Kind(f.end) = "rb"
  /\ \A b \in BlocksOf(f) :
       /\ f.begin # 0 /\ f.begin < b.begin /\ b.begin <= b.end /\ b.end < r
       /\ f.end # 0 => b.end <= f.end
       /\ Kind(b.end) \in {"semi", "rb", "eof"}

(* What a call that is not over has found.                                 *)
Reads(f, r) ==
  /\ Spans(f, r)
  /\ f.mode # "done" => f.end = 0
  /\ f.mode = "open" => f.begin = 0 /\ f.blocks = <<>> /\ Leads(f.line, r)
  /\ f.mode \in {"scan", "braced", "line"} => f.begin # 0
  /\ f.mode \in {"braced", "line"} => f.begin < f.start /\ f.start < r

LEMMA SpansLater ==
  ASSUME NEW f \in FrameSet \cup ParticleSet, NEW r \in Nat, NEW s \in Nat, r <= s, Spans(f, r)
  PROVE  Spans(f, s)
<1>1. f.line \in Nat /\ f.begin \in Nat /\ f.end \in Nat /\ f.blocks \in Seq(Block)
  BY DEF FrameSet, ParticleSet
<1>2. \A b \in BlocksOf(f) : b \in Block
  BY <1>1 DEF BlocksOf, ToSet
<1>3. \A b \in BlocksOf(f) : b.end \in Nat
  BY <1>2 DEF Block
<1> QED BY <1>1, <1>3 DEF Spans

(* The parts of Feed, one by one.                                          *)
LEMMA LeaveReads ==
  ASSUME NEW f \in FrameSet, NEW t \in Nat, Spans(f, t + 1), f.end = 0,
         f.line < t, f.begin < t, f.begin # 0 \/ f.braces = 0
  PROVE  Reads(Leave(f, t), t + 1)
<1>1. f.line \in Nat /\ f.begin \in Nat /\ f.blocks \in Seq(Block)
  BY DEF FrameSet
<1>2. \A b \in BlocksOf(f) : b.end < t + 1 /\ b.end \in Nat
  <2>1. \A b \in BlocksOf(f) : b \in Block
    BY <1>1 DEF BlocksOf, ToSet
  <2> QED BY <2>1 DEF Spans, Block
<1>3. CASE f.braces = 0 \/ Kind(t) = "eof"
  <2> DEFINE e == IF Kind(t) = "rb" THEN t ELSE f.end
             g == [f EXCEPT !.mode = "done", !.end = e]
  <2>1. Leave(f, t) = g
    BY <1>3 DEF Leave
  <2>2. e = 0 \/ (e = t /\ Kind(t) = "rb")
    OBVIOUS
  <2> HIDE DEF e
  <2>3. g.mode = "done" /\ g.line = f.line /\ g.begin = f.begin /\ g.end = e /\ g.blocks = f.blocks
    BY DEF FrameSet
  <2>4. BlocksOf(g) = BlocksOf(f)
    BY <2>3 DEF BlocksOf
  <2> HIDE DEF g
  <2>5. Spans(g, t + 1)
    BY <1>1, <1>2, <2>2, <2>3, <2>4 DEF Spans
  <2> QED BY <2>1, <2>3, <2>5 DEF Reads
<1>4. CASE ~(f.braces = 0 \/ Kind(t) = "eof")
  <2> DEFINE g == [f EXCEPT !.mode = "scan"]
  <2>1. Leave(f, t) = g
    BY <1>4 DEF Leave
  <2>2. g.mode = "scan" /\ g.line = f.line /\ g.begin = f.begin /\ g.end = f.end /\ g.blocks = f.blocks
    BY DEF FrameSet
  <2>3. BlocksOf(g) = BlocksOf(f)
    BY <2>2 DEF BlocksOf
  <2> HIDE DEF g
  <2> QED BY <1>4, <2>1, <2>2, <2>3 DEF Reads, Spans
<1> QED BY <1>3, <1>4

LEMMA CountReads ==
  ASSUME NEW f \in FrameSet, NEW t \in Nat, Spans(f, t + 1), f.end = 0,
         f.line < t, f.begin < t, f.begin # 0, f.braces >= 1
  PROVE  Reads(Count(f, t), t + 1)
<1> DEFINE n == f.braces + Brace(t)
           g == [f EXCEPT !.braces = n]
<1>1. Count(f, t) = Leave(g, t)
  BY DEF Count
<1>2. n \in Nat
  BY BraceCases, SMTT(20) DEF FrameSet
<1> HIDE DEF n
<1>3. g \in FrameSet /\ g.line = f.line /\ g.begin = f.begin /\ g.end = f.end /\ g.blocks = f.blocks
  BY <1>2 DEF FrameSet
<1>4. BlocksOf(g) = BlocksOf(f)
  BY <1>3 DEF BlocksOf
<1> HIDE DEF g
<1>5. Spans(g, t + 1)
  BY <1>3, <1>4 DEF Spans
<1> QED BY <1>1, <1>3, <1>5, LeaveReads

LEMMA EndBlockReads ==
  ASSUME NEW f \in FrameSet, NEW t \in Nat, Spans(f, t + 1), f.end = 0,
         f.line < t, f.begin < t, f.begin # 0, f.braces >= 1,
         f.begin < f.start, f.start <= t, Kind(t) \in {"semi", "rb", "eof"}
  PROVE  Reads(EndBlock(f, t), t + 1)
<1> DEFINE b == [begin |-> f.start, end |-> t]
           bs == Append(f.blocks, b)
           g == [f EXCEPT !.blocks = bs]
<1>1. EndBlock(f, t) = Count(g, t)
  BY DEF EndBlock
<1>2. b \in Block /\ f.blocks \in Seq(Block) /\ b.begin = f.start /\ b.end = t
  BY DEF FrameSet, Block
<1> HIDE DEF b
<1>3. bs \in Seq(Block) /\ ToSet(bs) = ToSet(f.blocks) \cup {b}
  BY <1>2, AppendSet
<1> HIDE DEF bs
<1>4. g \in FrameSet /\ g.line = f.line /\ g.begin = f.begin /\ g.end = f.end
      /\ g.braces = f.braces /\ g.blocks = bs
  BY <1>3 DEF FrameSet
<1>5. BlocksOf(g) = BlocksOf(f) \cup {b}
  BY <1>3, <1>4 DEF BlocksOf
<1> HIDE DEF g
<1>6. Spans(g, t + 1)
  BY <1>2, <1>4, <1>5 DEF Spans
<1> QED BY <1>1, <1>4, <1>6, CountReads

LEMMA FeedReads ==
  ASSUME NEW f \in FrameSet, NEW t \in Nat, f.mode # "done", CountsArePositive(f), Reads(f, t)
  PROVE  Reads(Feed(f, t), t + 1)
<1>1. /\ f.mode \in Modes /\ f.line \in Nat /\ f.begin \in Nat /\ f.end = 0 /\ f.start \in Nat
      /\ f.line < t /\ f.begin < t
  <2>1. f.mode \in Modes /\ f.line \in Nat /\ f.begin \in Nat /\ f.start \in Nat
    BY DEF FrameSet
  <2>2. f.begin = 0 \/ f.begin < t
    BY DEF Reads, Spans
  <2>3. 0 < f.line /\ f.line < t
    BY DEF Reads, Spans
  <2> QED BY <2>1, <2>2, <2>3 DEF Reads
<1>2. Spans(f, t + 1)
  BY SpansLater DEF Reads
<1>3. f.mode \in {"scan", "braced", "line"} => f.braces >= 1
  BY DEF CountsArePositive
<1>4. CASE f.mode = "open"
  <2>1. Feed(f, t) = Open(f, t)
    BY <1>4, FeedCases
  <2>2. CASE Kind(t) = "lb"
    <3> DEFINE g == [f EXCEPT !.mode = "scan", !.braces = 1, !.begin = t]
    <3>1. Open(f, t) = g
      BY <2>2 DEF Open
    <3>2. g.mode = "scan" /\ g.line = f.line /\ g.begin = t /\ g.end = f.end /\ g.blocks = f.blocks
      BY DEF FrameSet
    <3>3. BlocksOf(g) = {}
      BY <1>4, <3>2 DEF BlocksOf, Reads, ToSet
    <3> HIDE DEF g
    <3>4. Spans(g, t + 1)
      <4>1. Leads(f.line, t)
        BY <1>4 DEF Reads
      <4> QED BY <1>1, <1>2, <2>2, <3>2, <3>3, <4>1 DEF Spans
    <3> QED BY <1>1, <2>1, <3>1, <3>2, <3>4 DEF Reads
  <2>3. CASE Kind(t) # "lb"
    <3>1. Open(f, t) = Leave(f, t)
      BY <2>3 DEF Open
    <3>2. f.braces = 0
      BY <1>4 DEF CountsArePositive
    <3> QED BY <1>1, <1>2, <2>1, <3>1, <3>2, LeaveReads
  <2> QED BY <2>2, <2>3
<1>5. CASE f.mode = "scan" /\ inSync
  <2> DEFINE g == [f EXCEPT !.start = t]
  <2>1. Feed(f, t) = BeginBlock(f, t) /\ f.begin # 0
    BY <1>5, FeedCases DEF Reads
  <2>2. g \in FrameSet /\ g.line = f.line /\ g.begin = f.begin /\ g.end = f.end
        /\ g.braces = f.braces /\ g.start = t /\ g.blocks = f.blocks
    BY DEF FrameSet
  <2>3. BlocksOf(g) = BlocksOf(f)
    BY <2>2 DEF BlocksOf
  <2> HIDE DEF g
  <2>4. Spans(g, t + 1)
    BY <1>2, <2>2, <2>3 DEF Spans
  <2>5. CASE Kind(t) = "lb"
    <3> DEFINE k == [g EXCEPT !.mode = "braced", !.inner = 1]
    <3>1. BeginBlock(f, t) = k
      BY <2>5 DEF BeginBlock, g
    <3>2. k.mode = "braced" /\ k.line = g.line /\ k.begin = g.begin /\ k.end = g.end
          /\ k.start = g.start /\ k.blocks = g.blocks
      BY <2>2 DEF FrameSet
    <3>3. BlocksOf(k) = BlocksOf(g)
      BY <3>2 DEF BlocksOf
    <3> HIDE DEF k
    <3> QED BY <1>1, <2>1, <2>2, <2>4, <3>1, <3>2, <3>3 DEF Reads, Spans
  <2>6. CASE Kind(t) \in {"semi", "eof"}
    <3>1. BeginBlock(f, t) = EndBlock(g, t)
      BY <2>6 DEF BeginBlock, g
    <3>2. Reads(EndBlock(g, t), t + 1)
      BY <1>1, <1>3, <1>5, <2>1, <2>2, <2>4, <2>6, EndBlockReads
    <3> QED BY <2>1, <3>1, <3>2
  <2>7. CASE Kind(t) \notin {"lb", "semi", "eof"}
    <3> DEFINE k == [g EXCEPT !.mode = "line"]
    <3>1. BeginBlock(f, t) = k
      BY <2>7 DEF BeginBlock, g
    <3>2. k.mode = "line" /\ k.line = g.line /\ k.begin = g.begin /\ k.end = g.end
          /\ k.start = g.start /\ k.blocks = g.blocks
      BY <2>2 DEF FrameSet
    <3>3. BlocksOf(k) = BlocksOf(g)
      BY <3>2 DEF BlocksOf
    <3> HIDE DEF k
    <3> QED BY <1>1, <2>1, <2>2, <2>4, <3>1, <3>2, <3>3 DEF Reads, Spans
  <2> QED BY <2>5, <2>6, <2>7
<1>6. CASE f.mode = "scan" /\ ~inSync
  <2>1. Feed(f, t) = Count(f, t)
    BY <1>6, FeedCases
  <2>2. f.begin # 0
    BY <1>6 DEF Reads
  <2> QED BY <1>1, <1>2, <1>3, <1>6, <2>1, <2>2, CountReads
<1>7. ASSUME f.mode \in {"braced", "line"}, Kind(t) \in {"semi", "rb", "eof"}
      PROVE  Reads(EndBlock(f, t), t + 1)
  <2>1. f.begin # 0 /\ f.begin < f.start /\ f.start <= t
    BY <1>1, <1>7 DEF Reads
  <2> QED BY <1>1, <1>2, <1>3, <1>7, <2>1, EndBlockReads
<1>8. CASE f.mode = "braced"
  <2> DEFINE n == f.inner + Brace(t)
             g == [f EXCEPT !.inner = n]
  <2>1. Feed(f, t) = Braced(f, t)
    BY <1>8, FeedCases
  <2>2. CASE n = 0 \/ Kind(t) = "eof"
    <3>1. Kind(t) \in {"rb", "eof"}
      <4>1. f.inner >= 1 /\ f.inner \in Nat
        BY <1>8 DEF CountsArePositive, FrameSet
      <4>2. Brace(t) \in {0, 1} => n # 0
        BY <4>1
      <4> QED BY <2>2, <4>2, BraceCases
    <3> QED BY <1>7, <1>8, <2>1, <2>2, <3>1 DEF Braced
  <2>3. CASE ~(n = 0 \/ Kind(t) = "eof")
    <3>1. Braced(f, t) = g
      BY <2>3 DEF Braced
    <3> HIDE DEF n
    <3>2. g.mode = f.mode /\ g.line = f.line /\ g.begin = f.begin /\ g.end = f.end
          /\ g.start = f.start /\ g.blocks = f.blocks
      BY DEF FrameSet
    <3>3. BlocksOf(g) = BlocksOf(f)
      BY <3>2 DEF BlocksOf
    <3> HIDE DEF g
    <3> QED BY <1>1, <1>2, <1>8, <2>1, <3>1, <3>2, <3>3 DEF Reads, Spans
  <2> QED BY <2>2, <2>3
<1>9. CASE f.mode = "line"
  <2>1. Feed(f, t) = Line(f, t)
    BY <1>9, FeedCases
  <2>2. CASE Kind(t) \in {"semi", "eof"}
    BY <1>7, <1>9, <2>1, <2>2 DEF Line
  <2>3. CASE Kind(t) \notin {"semi", "eof"}
    <3>1. Line(f, t) = f
      BY <2>3 DEF Line
    <3> QED BY <1>1, <1>2, <1>9, <2>1, <3>1 DEF Reads
  <2> QED BY <2>2, <2>3
<1> QED BY <1>1, <1>4, <1>5, <1>6, <1>8, <1>9 DEF Modes

(* The particles follow one another in the file, and the call that is      *)
(* active reads what is behind them.                                       *)
SpansInOrder ==
  /\ InHandler => Reads(Top, raw)
  /\ \A n \in 1..Len(particles) :
       /\ Spans(particles[n], IF InHandler THEN Top.line ELSE raw)
       /\ \A m \in 1..(n - 1) : Spans(particles[m], particles[n].line)

(* With one frame, the items reach it in the order of the file.  A frame   *)
(* under another one would be fed what the upper one has gone beyond.      *)
LEMMA SpansStep ==
  ASSUME TypeInv, AtMostOneFrame, SpansInOrder, NoNesting, [Next]_vars
  PROVE  SpansInOrder'
<1>1. raw \in Nat /\ raw >= 1 /\ particles \in Seq(ParticleSet) /\ Len(particles) \in Nat
      /\ \A n \in 1..Len(particles) : particles[n] \in ParticleSet
  BY EofKind, SeqFacts DEF TypeInv, IsTyped
<1>2. InHandler => Top \in FrameSet /\ CountsArePositive(Top)
  <2>1. InHandler => Len(frames) \in 1..Len(frames)
    BY SeqFacts DEF InHandler, TypeInv, IsTyped
  <2> QED BY <2>1, SeqFacts DEF Top, TypeInv, IsTyped, MarksInOrder
<1>3. src' = src
  BY SingleStep DEF vars
<1>4. \A q : Kind(q)' = Kind(q)
  BY <1>3, SourceIsFixed
<1>5. \A f, r : Spans(f, r)' <=> Spans(f, r)
  <2>1. \A k, m : Leads(k, m)' <=> Leads(k, m)
    BY <1>3, SourceIsFixed DEF Leads
  <2> QED BY <1>4, <2>1 DEF Spans, BlocksOf
<1>6. \A f, r : Reads(f, r)' <=> Reads(f, r)
  <2>1. \A k, m : Leads(k, m)' <=> Leads(k, m)
    BY <1>3, SourceIsFixed DEF Leads
  <2> QED BY <1>5, <2>1 DEF Reads
<1>7. CASE UNCHANGED vars
  <2>1. UNCHANGED <<particles, raw, frames>>
    BY <1>7 DEF vars
  <2>2. InHandler' = InHandler /\ Top' = Top
    BY <2>1 DEF InHandler, Top
  <2> QED BY <1>5, <1>6, <2>1, <2>2 DEF SpansInOrder
<1>8. \A n \in 1..Len(particles) : particles[n].line \in Nat
  BY <1>1 DEF ParticleSet
<1>9. ASSUME particles' = particles, InHandler' <=> InHandler, InHandler => Top'.line = Top.line,
             raw' \in {raw, raw + 1}
      PROVE  \A n \in 1..Len(particles') :
               /\ Spans(particles[n], IF InHandler THEN Top.line ELSE raw)'
               /\ \A m \in 1..(n - 1) : Spans(particles[m], particles[n].line)'
  <2> SUFFICES ASSUME NEW n \in 1..Len(particles)
               PROVE  /\ Spans(particles[n], IF InHandler THEN Top'.line ELSE raw')
                      /\ \A m \in 1..(n - 1) : Spans(particles[m], particles[n].line)
    BY <1>5, <1>9
  <2>1. CASE InHandler
    BY <1>9, <2>1 DEF SpansInOrder
  <2>2. CASE ~InHandler
    <3>1. Spans(particles[n], raw)
      BY <2>2 DEF SpansInOrder
    <3>2. raw' \in Nat /\ raw <= raw'
      BY <1>1, <1>9
    <3>3. Spans(particles[n], raw')
      BY <1>1, <3>1, <3>2, SpansLater
    <3> QED BY <2>2, <3>3 DEF SpansInOrder
  <2> QED BY <2>1, <2>2
<1>10. CASE Replay \/ Pass
  <2>1. ~InHandler /\ ~InHandler' /\ particles' = particles /\ raw' \in {raw, raw + 1}
    BY <1>10 DEF Replay, Pass, InHandler
  <2> QED BY <1>9, <2>1 DEF SpansInOrder
<1>11. CASE Skip
  <2>1. raw' = raw + 1 /\ frames' = frames /\ particles' = particles
    BY <1>11 DEF Skip
  <2>2. InHandler' = InHandler /\ Top' = Top
    BY <2>1 DEF InHandler, Top
  <2>3. ASSUME InHandler PROVE Reads(Top, raw + 1)
    <3>1. Spans(Top, raw + 1)
      BY <1>1, <1>2, <2>3, SpansLater DEF SpansInOrder, Reads
    <3>2. Top.start \in Nat
      BY <1>2, <2>3 DEF FrameSet
    <3>3. Leads(Top.line, raw) => Leads(Top.line, raw + 1)
      <4>1. ~IsToken(raw)
        BY <1>11 DEF Skip
      <4>2. Top.line \in Nat
        BY <1>2, <2>3 DEF FrameSet
      <4> QED BY <1>1, <4>1, <4>2 DEF Leads
    <3> QED BY <1>1, <2>3, <3>1, <3>2, <3>3 DEF SpansInOrder, Reads
  <2>4. (InHandler => Reads(Top, raw))'
    BY <1>6, <2>1, <2>2, <2>3
  <2> QED BY <1>9, <2>1, <2>2, <2>4 DEF SpansInOrder
<1>12. CASE Call
  <2>1. raw' = raw + 1 /\ frames' = <<NewFrame(raw)>> /\ particles' = particles /\ frames = <<>>
    BY <1>12 DEF Call
  <2> DEFINE g == NewFrame(raw)
  <2>2. Top' = g /\ InHandler' /\ ~InHandler
    BY <2>1 DEF Top, InHandler
  <2>3. g.line = raw /\ g.begin = 0 /\ g.end = 0 /\ g.blocks = <<>> /\ g.mode = "open"
    BY DEF NewFrame, Frame
  <2>4. BlocksOf(g) = {}
    BY <2>3 DEF BlocksOf, ToSet
  <2> HIDE DEF g
  <2>5. Reads(g, raw + 1)
    <3>1. Leads(raw, raw + 1)
      BY <1>1 DEF Leads
    <3> QED BY <1>1, <2>3, <2>4, <3>1 DEF Reads, Spans
  <2>6. (InHandler => Reads(Top, raw))'
    BY <1>6, <2>1, <2>2, <2>5
  <2>7. \A n \in 1..Len(particles) :
          /\ Spans(particles[n], raw)
          /\ \A m \in 1..(n - 1) : Spans(particles[m], particles[n].line)
    BY <2>2 DEF SpansInOrder
  <2> QED BY <1>5, <2>1, <2>2, <2>3, <2>6, <2>7 DEF SpansInOrder
<1>13. CASE LookAhead
  <2>1. /\ raw' = raw + 1 /\ frames' = <<Feed(Top, raw)>> /\ particles' = particles
        /\ Top.mode # "done" /\ InHandler
    BY <1>13 DEF LookAhead, InHandler
  <2> DEFINE g == Feed(Top, raw)
  <2>2. Reads(g, raw + 1)
    BY <1>1, <1>2, <2>1, FeedReads DEF SpansInOrder
  <2>3. g.line = Top.line
    BY <1>1, <1>2, <2>1, FeedFollows DEF Follows
  <2>4. Top' = g /\ InHandler'
    BY <2>1 DEF Top, InHandler
  <2> HIDE DEF g
  <2>5. (InHandler => Reads(Top, raw))'
    BY <1>6, <2>1, <2>2, <2>4
  <2> QED BY <1>9, <2>1, <2>3, <2>4, <2>5 DEF SpansInOrder
<1>14. CASE Return
  <2>1. /\ frames' = <<>> /\ particles' = Append(particles, Particle(Top)) /\ InHandler
        /\ ~InHandler' /\ raw' = raw
    BY <1>14 DEF Return, InHandler
  <2> DEFINE p == Particle(Top)
             N == Len(particles)
  <2>2. Spans(p, raw) /\ p.line = Top.line
    <3>1. p.line = Top.line /\ p.begin = Top.begin /\ p.end = Top.end /\ p.blocks = Top.blocks
      BY DEF Particle
    <3>2. BlocksOf(p) = BlocksOf(Top)
      BY <3>1 DEF BlocksOf
    <3>3. Spans(Top, raw)
      BY <2>1 DEF SpansInOrder, Reads
    <3> HIDE DEF p
    <3> QED BY <3>1, <3>2, <3>3 DEF Spans
  <2>3. /\ particles' = Append(particles, p)
        /\ Len(particles') = N + 1 /\ particles'[N + 1] = p
        /\ \A n \in 1..N : particles'[n] = particles[n]
    BY <1>1, <2>1
  <2> HIDE DEF p
  <2>4. Top.line \in Nat /\ Top.line <= raw
    <3>1. Top.line < raw
      BY <2>1 DEF SpansInOrder, Reads, Spans
    <3> QED BY <1>1, <1>2, <2>1, <3>1 DEF FrameSet
  <2>5. \A n \in 1..N : Spans(particles[n], Top.line) /\ Spans(particles[n], raw)
    <3> SUFFICES ASSUME NEW n \in 1..N PROVE Spans(particles[n], Top.line) /\ Spans(particles[n], raw)
      OBVIOUS
    <3>1. Spans(particles[n], Top.line)
      BY <2>1 DEF SpansInOrder
    <3> QED BY <1>1, <2>4, <3>1, SpansLater
  <2>6. ASSUME NEW n \in 1..(N + 1)
        PROVE  /\ Spans(particles'[n], raw)
               /\ \A m \in 1..(n - 1) : Spans(particles'[m], particles'[n].line)
    <3>1. CASE n \in 1..N
      <4>1. \A m \in 1..(n - 1) : m \in 1..N
        BY <1>1, <3>1
      <4>2. \A m \in 1..(n - 1) : Spans(particles[m], particles[n].line)
        BY <3>1 DEF SpansInOrder
      <4> QED BY <2>3, <2>5, <3>1, <4>1, <4>2
    <3>2. CASE n = N + 1
      <4>1. \A m \in 1..(n - 1) : m \in 1..N
        BY <1>1, <3>2
      <4> QED BY <2>2, <2>3, <2>5, <3>2, <4>1
    <3> QED BY <1>1, <3>1, <3>2
  <2> HIDE DEF N
  <2> QED BY <1>5, <2>1, <2>3, <2>6 DEF SpansInOrder
<1> QED BY <1>7, <1>10, <1>11, <1>12, <1>13, <1>14, SingleStep

LEMMA SpansInit == Init => SpansInOrder
BY DEF Init, SpansInOrder, InHandler
-----------------------------------------------------------------------------
(* What is within a function stands in the file; 0 is within none.         *)
LEMMA WithinFile ==
  ASSUME src \in Sources, NEW f \in Functions, NEW q \in Nat, Within(f, q)
  PROVE  q \in 1..Len(src)
<1> DEFINE S == {e \in (f + 1)..Len(src) : /\ Kind(e) = "rb"
                             /\ Braces("lb", f + 1, e) = Braces("rb", f + 1, e)}
<1>1. Len(src) \in Nat /\ f \in Nat
  BY SourceType DEF Functions
<1>2. FunctionEnd(f) = Least(S, 0)
  BY Zenon DEF FunctionEnd, Matching
<1>3. Least(S, 0) \in S \cup {0}
  <2>1. S \in SUBSET Nat
    BY <1>1
  <2>2. S \subseteq 0..Len(src)
    BY <1>1
  <2> HIDE DEF S
  <2>3. CASE S = {}
    BY <2>3 DEF Least
  <2>4. CASE S # {}
    <3>1. PICK n \in S : \A m \in S : n <= m
      BY <2>1, <2>4, LeastNumber
    <3>2. Least(S, 0) = n
      BY <2>1, <3>1, LeastIs
    <3> QED BY <3>2
  <2> QED BY <2>3, <2>4
<1>4. FunctionEnd(f) \in 0..Len(src)
  BY <1>1, <1>2, <1>3
<1> QED BY <1>1, <1>4 DEF Within

(* A block that ends with its particle would be unlocked outside of it, so *)
(* there is none in a user block that is made without an exception.        *)
LEMMA RoomOfUnthrown ==
  ASSUME src \in Sources, NEW f \in Functions, NEW p \in ParticleSet, InScope(f, p),
         p.begin <= p.end, ~UserBlock(p).thrown
  PROVE  Len(p.dimensions) = 1 /\ p.blocks # <<>> => p.blocks[1].end # p.end
<1> SUFFICES ASSUME Len(p.dimensions) = 1, p.blocks # <<>>, p.blocks[1].end = p.end
             PROVE  FALSE
  OBVIOUS
<1>1. p.begin \in Nat /\ p.end \in Nat /\ p.blocks \in Seq(Block)
  BY DEF ParticleSet
<1>2. p.begin \in 1..Len(src) /\ p.end \in 1..Len(src)
  BY <1>1, WithinFile DEF InScope
<1>3. p.begin \in 0..Len(src) /\ p.end \in 0..Len(src)
  BY <1>2
<1> DEFINE n == Len(p.blocks)
<1>4. n \in Nat /\ n >= 1
  BY <1>1, SeqFacts
<1>5. UserBlock(p).thrown = TRUE
  BY <1>3, <1>4, LastBlockThrows
<1> QED BY <1>5

(* The invariant holds at first, and every step keeps it.                  *)
LEMMA ProxyInvInit == ProxyInit => ProxyInv
<1> SUFFICES ASSUME ProxyInit PROVE ProxyInv
  OBVIOUS
<1>1. phase = "parse" /\ visited = {} /\ DOMAIN scopes = {} /\ DOMAIN threads = {}
  BY DEF ProxyInit
<1>2. Scoped({}) = {}
  BY DEF Scoped
<1> QED BY <1>1, <1>2 DEF ProxyInv

LEMMA ProxyInvStep ==
  ASSUME TypeInv, ProxyInv, [ProxyNext]_allVars
  PROVE  ProxyInv'
<1>1. src' = src /\ src \in Sources
  <2>1. [Next]_vars
    BY ProxyStep
  <2> QED BY <2>1, CallsStep DEF TypeInv, IsTyped
<1>2. /\ Declarations' = Declarations
      /\ \A q : Container(q)' = Container(q)
      /\ \A f, p : InScope(f, p)' = InScope(f, p)
  BY <1>1, SameFile
<1>3. \A ds : Scoped(ds)' = Scoped(ds)
  BY <1>2 DEF Scoped
<1>4. \A p : UserBlock(p)' = UserBlock(p)
  BY <1>1, SameText
<1>5. CASE Parse
  <2>1. phase = "parse" /\ UNCHANGED <<phase, visited, scopes, threads>>
    BY <1>5 DEF Parse, proxyVars
  <2>2. Scoped(visited)' = Scoped(visited)
    BY <1>2, <2>1 DEF Scoped
  <2> QED BY <1>2, <2>1, <2>2 DEF ProxyInv
<1>6. ASSUME particles' = particles PROVE \A f : Own(f)' = Own(f)
  BY <1>2, <1>6 DEF Own
<1>7. ASSUME particles' = particles, NEW f, threads'[f] = threads[f], GetsThreads(f)
      PROVE  GetsThreads(f)'
  BY <1>4, <1>6, <1>7 DEF GetsThreads
<1>14. ASSUME particles' = particles, DOMAIN scopes' = DOMAIN scopes, GivenUp PROVE GivenUp'
  BY <1>4, <1>6, <1>14 DEF GivenUp, AllParticles
<1>8. CASE EndParse
  <2>1. phase = "parse" /\ phase' = "visit" /\ UNCHANGED <<particles, visited, scopes, threads>>
    BY <1>8 DEF EndParse, vars
  <2>2. Scoped(visited)' = Scoped(visited)
    BY <1>2, <2>1 DEF Scoped
  <2> QED BY <1>2, <2>1, <2>2 DEF ProxyInv
<1>9. CASE VisitVarDecl
  <2>1. phase = "visit" /\ phase' = "visit" /\ UNCHANGED <<particles, threads>>
    BY <1>9 DEF VisitVarDecl, vars
  <2>2. PICK d \in Declarations :
          /\ visited' = visited \cup {d}
          /\ Container(d.begin) = 0 => scopes' = scopes
          /\ Container(d.begin) # 0 =>
               /\ DOMAIN scopes' = DOMAIN scopes \cup {Container(d.begin)}
               /\ \A f \in DOMAIN scopes' :
                    \/ f \in DOMAIN scopes /\ scopes'[f] = scopes[f]
                    \/ DOMAIN scopes'[f] = {"vars", "particles"}
    <3>1. PICK d \in Declarations :
            /\ visited' = visited \cup {d}
            /\ IF Container(d.begin) = 0 THEN UNCHANGED scopes
               ELSE scopes' = [g \in DOMAIN scopes \cup {Container(d.begin)} |->
                      IF g # Container(d.begin) THEN scopes[g]
                      ELSE [vars |-> Append(VariablesAt(Container(d.begin)), d),
                            particles |-> {}]]
      BY <1>9 DEF VisitVarDecl
    <3> DEFINE f == Container(d.begin)
               new == [vars |-> Append(VariablesAt(f), d), particles |-> {}]
    <3>2. DOMAIN new = {"vars", "particles"}
      OBVIOUS
    <3>3. f # 0 => scopes' = [g \in DOMAIN scopes \cup {f} |->
                                IF g # f THEN scopes[g] ELSE new]
      BY <3>1
    <3> HIDE DEF new
    <3>4. f # 0 => /\ DOMAIN scopes' = DOMAIN scopes \cup {f}
                   /\ \A g \in DOMAIN scopes' :
                        \/ g \in DOMAIN scopes /\ scopes'[g] = scopes[g]
                        \/ DOMAIN scopes'[g] = {"vars", "particles"}
      BY <3>2, <3>3
    <3>5. f = 0 => scopes' = scopes
      BY <3>1
    <3> QED BY <3>1, <3>4, <3>5
  <2> DEFINE ds == visited \cup {d}
  <2>3. Scoped(ds) = Scoped(visited) \cup ({Container(d.begin)} \ {0})
    BY DEF Scoped
  <2>4. DOMAIN scopes' = Scoped(ds)
    BY <2>2, <2>3 DEF ProxyInv
  <2>5. visited' = ds /\ ds \subseteq Declarations
    BY <2>2 DEF ProxyInv
  <2> HIDE DEF ds
  <2>6. Scoped(visited)' = Scoped(ds)
    BY <1>2, <2>5 DEF Scoped
  <2>7. \A f \in DOMAIN scopes' : "particles" \in DOMAIN scopes'[f]
    BY <2>2 DEF ProxyInv
  <2> QED BY <1>2, <2>1, <2>4, <2>5, <2>6, <2>7 DEF ProxyInv
<1>10. CASE Assign
  <2>1. /\ phase = "visit" /\ visited = Declarations
        /\ UNCHANGED <<particles, visited, threads>>
    BY <1>10 DEF Assign, vars
  <2>2. Scoped(visited)' = Scoped(visited)
    BY <1>2, <2>1 DEF Scoped
  <2>3. CASE /\ phase' = "aborted" /\ UNCHANGED scopes /\ TRUE \in Asserts
             /\ \E f \in DOMAIN scopes, p \in AllParticles : AssertFails(f, p)
    <3>1. GivenUp
      BY <2>3 DEF AssertFails, GivenUp
    <3> QED BY <1>2, <1>14, <2>1, <2>2, <2>3, <3>1 DEF ProxyInv
  <2>4. CASE /\ phase' = "rewrite"
             /\ scopes' = [f \in DOMAIN scopes |->
                  [scopes[f] EXCEPT !.particles = Own(f)]]
    <3>1. DOMAIN scopes' = DOMAIN scopes
      BY <2>4
    <3>2. ASSUME NEW f \in DOMAIN scopes PROVE scopes'[f].particles = Own(f)
      <4>1. scopes'[f] = [scopes[f] EXCEPT !.particles = Own(f)]
        BY <2>4
      <4>2. "particles" \in DOMAIN scopes[f]
        BY DEF ProxyInv
      <4> QED BY <4>1, <4>2
    <3> QED BY <1>2, <1>6, <2>1, <2>2, <2>4, <3>1, <3>2 DEF ProxyInv
  <2> QED BY <1>10, <2>3, <2>4 DEF Assign, Own
<1>11. CASE PrintFile
  <2>1. /\ phase = "rewrite" /\ phase' = "printed" /\ DOMAIN threads = DOMAIN scopes
        /\ UNCHANGED <<particles, visited, scopes, threads>>
    BY <1>11 DEF PrintFile, vars
  <2>2. Scoped(visited)' = Scoped(visited)
    BY <1>2, <2>1 DEF Scoped
  <2>3. \A f \in DOMAIN threads : GetsThreads(f)'
    BY <1>7, <2>1 DEF ProxyInv
  <2> QED BY <1>2, <1>6, <2>1, <2>2, <2>3 DEF ProxyInv
<1>12. CASE ProxyFinished \/ UNCHANGED allVars
  <2>1. UNCHANGED <<particles, phase, visited, scopes, threads>>
    BY <1>12 DEF ProxyFinished, allVars, vars, proxyVars
  <2>2. Scoped(visited)' = Scoped(visited)
    BY <1>2, <2>1 DEF Scoped
  <2>3. \A f \in DOMAIN threads : GetsThreads(f)'
    BY <1>7, <2>1 DEF ProxyInv
  <2>4. GivenUp => GivenUp'
    BY <1>14, <2>1
  <2> QED BY <1>2, <1>6, <2>1, <2>2, <2>3, <2>4 DEF ProxyInv
<1>13. ASSUME NEW f \in Functions, RewriteScope(f) PROVE ProxyInv'
  <2> DEFINE own  == scopes[f].particles
             user == [n \in own |-> UserBlock(particles[n])]
             new  == Rewritten(buffer, f, scopes[f])
             made == [n \in own |-> [id |-> particles[n].id, user |-> user[n].text]]
  <2>1. /\ phase = "rewrite" /\ f \in DOMAIN scopes /\ f \notin DOMAIN threads
        /\ UNCHANGED <<particles, visited, scopes>>
    BY <1>13 DEF RewriteScope, vars
  <2>2. \/ /\ phase' \in {"undefined", "aborted"} /\ threads' = threads
           /\ phase' = "aborted" => \E n \in own : user[n].thrown
        \/ /\ phase' = phase /\ \A n \in own : ~user[n].thrown
           /\ threads' = [g \in DOMAIN threads \cup {f} |->
                            IF g # f THEN threads[g] ELSE made]
    BY <1>13 DEF RewriteScope
  <2>3. own = Own(f)
    BY <2>1 DEF ProxyInv
  <2>4. Scoped(visited)' = Scoped(visited)
    BY <1>2, <2>1 DEF Scoped
  <2>5. CASE /\ phase' \in {"undefined", "aborted"} /\ threads' = threads
             /\ phase' = "aborted" => \E n \in own : user[n].thrown
    <3>1. \A g \in DOMAIN threads : GetsThreads(g)'
      BY <1>7, <2>1, <2>5 DEF ProxyInv
    <3>2. phase' = "aborted" => GivenUp
      BY <2>1, <2>3, <2>5 DEF GivenUp
    <3> QED BY <1>2, <1>14, <2>1, <2>4, <2>5, <3>1, <3>2 DEF ProxyInv
  <2>6. CASE /\ phase' = phase /\ \A n \in own : ~user[n].thrown
             /\ threads' = [g \in DOMAIN threads \cup {f} |->
                              IF g # f THEN threads[g] ELSE made]
    <3>1. DOMAIN threads' = DOMAIN threads \cup {f}
      BY <2>6
    <3>2. ASSUME NEW g \in DOMAIN threads PROVE GetsThreads(g)'
      <4>1. threads'[g] = threads[g] /\ GetsThreads(g)
        BY <2>1, <2>6 DEF ProxyInv
      <4> QED BY <1>7, <2>1, <4>1
    <3>3. threads'[f] = made
      BY <2>6
    <3>4. /\ DOMAIN made = Own(f)
          /\ \A n \in Own(f) : /\ made[n].id = particles[n].id
                               /\ made[n].user = UserBlock(particles[n]).text
                               /\ ~UserBlock(particles[n]).thrown
      BY <2>3, <2>6
    <3> HIDE DEF made
    <3>5. GetsThreads(f)'
      BY <1>4, <1>6, <2>1, <3>3, <3>4 DEF GetsThreads
    <3> QED BY <1>2, <1>6, <2>1, <2>4, <2>6, <3>1, <3>2, <3>5 DEF ProxyInv
  <2> QED BY <2>2, <2>5, <2>6
<1> QED BY <1>5, <1>8, <1>9, <1>10, <1>11, <1>12, <1>13 DEF ProxyNext

(* For files with any particles, nested or not, and any scopes, nested or  *)
(* not: when the file is printed, in whatever order the map of scopes was  *)
(* walked, a function has a thread function of a particle exactly when it  *)
(* declares a shared variable and the whole particle is inside of it. A    *)
(* particle that has not been closed, or that only begins in the function, *)
(* gets none; and no two particles are taken for each other.               *)
THEOREM ThreadsAreGiven == ProxySpec => []ParticlesGetThreads
<1> DEFINE Inv == TypeInv /\ Registered /\ ProxyInv
<1>1. ProxyInit => Inv
  BY TypeInvInit, RegisteredInit, ProxyInvInit DEF ProxyInit
<1>2. Inv /\ [ProxyNext]_allVars => Inv'
  BY ProxyStep, TypeInvStep, RegisteredStep, ProxyInvStep
<1>3. Inv => ParticlesGetThreads
  <2> SUFFICES ASSUME Inv, Printed, NEW p \in AllParticles
               PROVE  {f \in DOMAIN threads : \E t \in ThreadsOf(f) : t.id = p.id} = Owners(p)
    BY DEF ParticlesGetThreads
  <2>1. PICK m \in 1..Len(particles) : p = particles[m]
    BY DEF AllParticles, ToSet
  <2>2. m \in DOMAIN particles /\ DOMAIN particles = 1..Len(particles)
    BY DEF TypeInv, IsTyped
  <2>3. DOMAIN threads = {f \in Functions : VariablesOf(f) # {}}
    <3>1. src \in Sources
      BY DEF TypeInv, IsTyped
    <3> QED BY <3>1, ScopedIs DEF ProxyInv, Printed
  <2>4. ASSUME NEW f \in DOMAIN threads
        PROVE  (\E t \in ThreadsOf(f) : t.id = p.id) <=> InScope(f, p)
    <3>1. GetsThreads(f)
      BY DEF ProxyInv
    <3>2. ASSUME InScope(f, p) PROVE \E t \in ThreadsOf(f) : t.id = p.id
      <4>1. m \in Own(f)
        BY <2>1, <2>2, <3>2 DEF Own
      <4> QED BY <2>1, <3>1, <4>1 DEF GetsThreads, ThreadsOf
    <3>3. ASSUME NEW t \in ThreadsOf(f), t.id = p.id PROVE InScope(f, p)
      <4>1. PICK n \in Own(f) : t = threads[f][n] /\ t.id = particles[n].id
        BY <3>1 DEF GetsThreads, ThreadsOf
      <4>2. n \in 1..Len(particles) /\ InScope(f, particles[n])
        BY <2>2 DEF Own
      <4>3. n = m
        BY <2>1, <3>3, <4>1, <4>2 DEF Registered
      <4> QED BY <2>1, <4>2, <4>3
    <3> QED BY <3>2, <3>3
  <2> QED BY <2>3, <2>4 DEF Owners, InScope
<1> QED BY <1>1, <1>2, <1>3, PTL DEF ProxySpec
-----------------------------------------------------------------------------
(* The texts of the thread functions. The characters of texts:             *)
Character ==
  {"text", "lock", "unlock", "threads", "alloc", "set", "undef"} \X Nat \X Nat

(* Characters of the file are told apart by their places.                  *)
LEMMA CharIs ==
  ASSUME NEW m \in Nat, NEW n \in Nat
  PROVE  /\ Char(m) \in Character /\ Char(m)[1] = "text" /\ Char(m)[2] = m
         /\ (Char(m) = Char(n)) <=> (m = n)
<1>1. Char(m) = <<"text", m, 1>> /\ Char(n) = <<"text", n, 1>>
  BY DEF Char
<1>2. Char(m) \in Character
  BY <1>1 DEF Character
<1>3. (Char(m) = Char(n)) <=> (m = n)
  BY <1>1
<1> QED BY <1>1, <1>2, <1>3

(* The text of the file: what stands at q begins behind Offset[q].         *)
LEMMA TextIs ==
  ASSUME src \in Sources
  PROVE  /\ Offset[Eof] \in Nat /\ Text \in Seq(Character) /\ Len(Text) = Offset[Eof]
         /\ DOMAIN Text = 1..Offset[Eof]
         /\ \A n \in 1..Offset[Eof] : Text[n] = Char(n)
<1>1. Offset[Eof] \in Nat
  <2>1. Len(src) \in 0..Len(src) /\ Eof = Len(src) + 1
    BY SourceType DEF Eof
  <2> QED BY <2>1, OffsetGrows
<1> DEFINE N == Offset[Eof]
<1> HIDE DEF N
<1>2. Text = [n \in 1..N |-> Char(n)]
  BY DEF Text, N
<1>3. N \in Nat
  BY <1>1 DEF N
<1>4. \A n \in 1..N : Char(n) \in Character
  <2>1. \A n \in 1..N : n \in Nat
    BY <1>3
  <2> QED BY <2>1, CharIs
<1>5. Text \in Seq(Character) /\ Len(Text) = N
  BY <1>2, <1>3, <1>4
<1> QED BY <1>1, <1>2, <1>3, <1>5 DEF N

(* A token has characters of its own, and what stands after it is behind   *)
(* them.                                                                   *)
LEMMA TokensApart ==
  ASSUME src \in Sources, NEW a \in 1..Len(src), NEW b \in 1..Eof, a < b
  PROVE  /\ Offset[a] \in Nat /\ Offset[b] \in Nat
         /\ Offset[a] + Width(a) + SpaceAfter(a) <= Offset[b]
         /\ Width(a) \in Nat /\ Width(a) >= 1 /\ SpaceAfter(a) \in Nat
<1>1. Len(src) \in Nat /\ Eof = Len(src) + 1
  BY SourceType DEF Eof
<1>2. Width(a) \in Nat /\ Width(a) >= 1 /\ SpaceAfter(a) \in Nat
  BY ParserProxyAssumption DEF Width, SpaceAfter
<1>3. Offset[a + 1] = Offset[a] + Width(a) + SpaceAfter(a)
  BY OffsetGrows
<1>4. a \in 0..Eof /\ a + 1 \in 0..Eof /\ b \in 0..Eof /\ a + 1 <= b
  BY <1>1
<1>5. Offset[a] \in Nat /\ Offset[b] \in Nat /\ Offset[a + 1] <= Offset[b]
  BY <1>4, OffsetsInOrder
<1> QED BY <1>2, <1>3, <1>5

(* The characters of the file from a to b.                                 *)
Run(a, b) == [k \in 1..(b - a) |-> Char(a + k)]

(* Its type and its elements.                                              *)
LEMMA RunIs ==
  ASSUME src \in Sources, NEW a \in Nat, NEW b \in Nat, a <= b
  PROVE  /\ Run(a, b) \in Seq(Character) /\ Len(Run(a, b)) = b - a
         /\ \A k \in 1..(b - a) : Run(a, b)[k] = Char(a + k)
<1>1. \A k \in 1..(b - a) : Char(a + k) \in Character
  BY CharIs
<1> QED BY <1>1 DEF Run

(* It is what stands in the file between two offsets.                      *)
LEMMA RunOfText ==
  ASSUME src \in Sources, NEW a \in Nat, NEW b \in Nat, a <= b, b <= Offset[Eof]
  PROVE  SubSeq(Text, a + 1, b) = Run(a, b)
<1> DEFINE T == Text
<1>1. \A i \in (a + 1)..b : T[i] = Char(i) /\ Char(i) \in Character
  BY TextIs, CharIs
<1> HIDE DEF T
<1> DEFINE s == SubSeq(T, a + 1, b)
<1>2. s \in Seq(Character) /\ Len(s) = b - a /\ \A k \in 1..(b - a) : s[k] = Char(a + k)
  <2>1. a + 1 \in Int /\ b \in Int /\ \A i \in (a + 1)..b : T[i] \in Character
    BY <1>1
  <2>2. /\ s \in Seq(Character)
        /\ Len(s) = IF a + 1 <= b THEN b - (a + 1) + 1 ELSE 0
        /\ \A i \in 1..(b - (a + 1) + 1) : s[i] = T[(a + 1) + i - 1]
    BY <2>1, SubSeqProperties
  <2> HIDE DEF s
  <2>3. ASSUME NEW k \in 1..(b - a) PROVE s[k] = Char(a + k)
    <3>1. k \in 1..(b - (a + 1) + 1) /\ (a + 1) + k - 1 = a + k /\ a + k \in (a + 1)..b
      OBVIOUS
    <3>2. s[k] = T[(a + 1) + k - 1]
      BY <2>2, <3>1
    <3> QED BY <1>1, <3>1, <3>2
  <2>4. Len(s) = b - a
    BY <2>2
  <2> QED BY <2>2, <2>3, <2>4
<1> HIDE DEF s
<1>3. s = Run(a, b)
  BY <1>2, RunIs, SeqEqual
<1> QED BY <1>3 DEF s, T
-----------------------------------------------------------------------------
(* f is defined by recursion on 0..n: f[k] is step[<<f[k - 1], k>>].        *)
Iterates(f, n, S, base, step) ==
  /\ f \in [0..n -> S]
  /\ f[0] = base
  /\ \A k \in 1..n : f[k] = step[<<f[k - 1], k>>]

(* There is such a function.                                               *)
LEMMA Iterated ==
  ASSUME NEW n \in Nat, NEW S, NEW base \in S, NEW step \in [S \X (1..n) -> S]
  PROVE  \E f : Iterates(f, n, S, base, step)
<1>1. PICK g \in [1..(n + 1) -> S] : Recurrence(g, n, base, step)
  BY RecursiveFunction
<1> DEFINE f == [k \in 0..n |-> g[k + 1]]
<1>2. f \in [0..n -> S]
  OBVIOUS
<1>3. f[0] = base
  <2>1. 1 \in 1..(n + 1)
    OBVIOUS
  <2>2. g[1] = base
    BY <1>1, <2>1 DEF Recurrence
  <2> QED BY <2>2
<1>4. ASSUME NEW k \in 1..n PROVE f[k] = step[<<f[k - 1], k>>]
  <2>1. k + 1 \in 1..(n + 1) /\ k + 1 # 1 /\ (k + 1) - 1 = k /\ k \in 0..n /\ k - 1 \in 0..n /\ (k - 1) + 1 = k
    OBVIOUS
  <2>2. g[k + 1] = step[<<g[k], k>>]
    BY <1>1, <2>1 DEF Recurrence
  <2>3. f[k] = g[k + 1] /\ f[k - 1] = g[k]
    BY <2>1
  <2> QED BY <2>2, <2>3
<1> HIDE DEF f
<1> QED BY <1>2, <1>3, <1>4 DEF Iterates

(* What is erased: the two characters of a keyword that is still whole.    *)
Erased(text, n) == IsKeyword(text, n) \/ IsKeyword(text, n - 1)

(* The text without what is erased, character by character.                *)
IsKept(kept, text) ==
  /\ kept \in [0..Len(text) -> Seq(Character)]
  /\ kept[0] = <<>>
  /\ \A n \in 1..Len(text) :
       kept[n] = IF Erased(text, n) THEN kept[n - 1] ELSE Append(kept[n - 1], text[n])

(* That is how the text without keywords is made.                          *)
LEMMA EraseSteps ==
  ASSUME NEW text \in Seq(Character)
  PROVE  \E kept : IsKept(kept, text) /\ EraseKeywords(text) = kept[Len(text)]
<1> DEFINE N == Len(text)
           IsErase(f) == f = [n \in 0..N |->
             CASE n = 0 -> <<>>
               [] n > 0 /\ (IsKeyword(text, n) \/ IsKeyword(text, n - 1)) -> f[n - 1]
               [] OTHER -> Append(f[n - 1], text[n])]
           kept == CHOOSE f : IsErase(f)
           S == Seq(Character)
           step == [x \in S \X (1..N) |-> IF Erased(text, x[2]) THEN x[1] ELSE Append(x[1], text[x[2]])]
<1>1. N \in Nat /\ \A n \in 1..N : text[n] \in Character
  OBVIOUS
<1>2. EraseKeywords(text) = kept[N]
  BY Zenon DEF EraseKeywords
<1>3. \E f : Iterates(f, N, S, <<>>, step)
  <2>1. step \in [S \X (1..N) -> S]
    <3>1. ASSUME NEW x \in S \X (1..N)
          PROVE  (IF Erased(text, x[2]) THEN x[1] ELSE Append(x[1], text[x[2]])) \in S
      <4>1. x[1] \in S /\ x[2] \in 1..N /\ text[x[2]] \in Character
        BY <1>1, <3>1
      <4> HIDE DEF N
      <4>2. Append(x[1], text[x[2]]) \in S
        BY <4>1
      <4> QED BY <4>1, <4>2
    <3> HIDE DEF S
    <3> QED BY <3>1
  <2>2. <<>> \in S
    OBVIOUS
  <2> HIDE DEF step, S, N
  <2> QED BY <1>1, <2>1, <2>2, Iterated
<1>4. PICK f \in [0..N -> S] : f[0] = <<>> /\ \A k \in 1..N : f[k] = step[<<f[k - 1], k>>]
  BY <1>3 DEF Iterates
<1> HIDE DEF S
<1>5. \A k \in 1..N : f[k] = IF Erased(text, k) THEN f[k - 1] ELSE Append(f[k - 1], text[k])
  <2> SUFFICES ASSUME NEW k \in 1..N
               PROVE  f[k] = IF Erased(text, k) THEN f[k - 1] ELSE Append(f[k - 1], text[k])
    OBVIOUS
  <2>1. k - 1 \in 0..N /\ f[k - 1] \in S
    BY <1>1
  <2> HIDE DEF N
  <2>2. step[<<f[k - 1], k>>] = IF Erased(text, k) THEN f[k - 1] ELSE Append(f[k - 1], text[k])
    BY <2>1
  <2> QED BY <1>4, <2>2
<1> HIDE DEF step, N
<1>6. IsErase(f)
  <2> DEFINE F(n) == CASE n = 0 -> <<>>
               [] n > 0 /\ (IsKeyword(text, n) \/ IsKeyword(text, n - 1)) -> f[n - 1]
               [] OTHER -> Append(f[n - 1], text[n])
  <2>1. \A n \in 0..N : f[n] = F(n)
    <3> SUFFICES ASSUME NEW n \in 0..N PROVE f[n] = F(n)
      OBVIOUS
    <3>1. CASE n = 0
      BY <1>4, <3>1
    <3>2. CASE n # 0
      <4>1. n \in 1..N /\ n > 0
        BY <1>1, <3>2
      <4> QED BY <1>5, <3>2, <4>1 DEF Erased
    <3> QED BY <3>1, <3>2
  <2> HIDE DEF F
  <2>2. f = [n \in 0..N |-> F(n)]
    BY <1>4, <2>1
  <2> QED BY <2>2 DEF F
<1>7. IsErase(kept)
  <2> HIDE DEF IsErase
  <2> QED BY <1>6
<1>8. kept = f
  <2> DEFINE J == {n \in Nat : n <= N => kept[n] = f[n]}
             F(g, n) == CASE n = 0 -> <<>>
               [] n > 0 /\ (IsKeyword(text, n) \/ IsKeyword(text, n - 1)) -> g[n - 1]
               [] OTHER -> Append(g[n - 1], text[n])
  <2> HIDE DEF kept
  <2>1. /\ DOMAIN kept = 0..N /\ \A n \in 0..N : kept[n] = F(kept, n)
        /\ DOMAIN f = 0..N /\ \A n \in 0..N : f[n] = F(f, n)
        /\ kept = [n \in 0..N |-> kept[n]] /\ f = [n \in 0..N |-> f[n]]
    BY <1>6, <1>7
  <2>2. \A n \in Nat : n = 0 => F(kept, n) = F(f, n)
    OBVIOUS
  <2>3. \A n \in Nat : kept[n - 1] = f[n - 1] => F(kept, n) = F(f, n)
    OBVIOUS
  <2> HIDE DEF F
  <2>4. 0 \in J
    BY <1>1, <2>1, <2>2
  <2>5. ASSUME NEW n \in J PROVE n + 1 \in J
    <3>1. n + 1 \in Nat /\ (n + 1) - 1 = n /\ (n + 1 <= N => n + 1 \in 0..N /\ n <= N)
      BY <1>1
    <3> QED BY <2>1, <2>3, <3>1
  <2>6. J = Nat
    <3>1. J \in SUBSET Nat
      OBVIOUS
    <3> HIDE DEF J
    <3> QED BY <2>4, <2>5, <3>1, InductiveSet
  <2>7. \A n \in 0..N : kept[n] = f[n]
    BY <1>1, <2>6
  <2> QED BY <2>1, <2>7
<1>9. IsKept(f, text)
  BY <1>4, <1>5 DEF IsKept, S, N
<1> QED BY <1>2, <1>8, <1>9 DEF N

(* What the recursion leaves of a text is a text.                          *)
LEMMA EraseType ==
  ASSUME NEW text \in Seq(Character)
  PROVE  EraseKeywords(text) \in Seq(Character)
<1>1. PICK kept : IsKept(kept, text) /\ EraseKeywords(text) = kept[Len(text)]
  BY EraseSteps
<1>2. Len(text) \in 0..Len(text)
  BY LenProperties
<1> QED BY <1>1, <1>2 DEF IsKept

(* Two texts can be erased one by one when no keyword lies across them.    *)
LEMMA EraseConcat ==
  ASSUME NEW a \in Seq(Character), NEW b \in Seq(Character), ~IsKeyword(a \o b, Len(a))
  PROVE  EraseKeywords(a \o b) = EraseKeywords(a) \o EraseKeywords(b)
<1> DEFINE c == a \o b
           A == Len(a)
           B == Len(b)
<1>1. /\ A \in Nat /\ B \in Nat /\ c \in Seq(Character) /\ Len(c) = A + B
      /\ \A i \in 1..A : c[i] = a[i]
      /\ \A i \in 1..B : c[A + i] = b[i]
  <2>1. A \in Nat /\ B \in Nat /\ c \in Seq(Character) /\ Len(c) = A + B
    BY ConcatProperties, LenProperties
  <2>2. \A i \in 1..(A + B) : c[i] = IF i <= A THEN a[i] ELSE b[i - A]
    BY ConcatProperties
  <2> HIDE DEF c, A, B
  <2>3. \A i \in 1..B : A + i \in 1..(A + B) /\ ~(A + i <= A) /\ (A + i) - A = i
    BY <2>1
  <2>4. \A i \in 1..A : i \in 1..(A + B) /\ i <= A
    BY <2>1
  <2> QED BY <2>1, <2>2, <2>3, <2>4
<1>2. ~IsKeyword(c, A) /\ ~IsKeyword(a, A) /\ ~IsKeyword(b, 0)
  <2>1. A \notin 1..(A - 1) /\ 0 \notin 1..(B - 1)
    BY <1>1
  <2> QED BY <2>1 DEF IsKeyword
<1> HIDE DEF c
<1>3. \A n \in 0..(A - 1) : IsKeyword(c, n) <=> IsKeyword(a, n)
  <2> HIDE DEF A, B
  <2> SUFFICES ASSUME NEW n \in 0..(A - 1) PROVE IsKeyword(c, n) <=> IsKeyword(a, n)
    OBVIOUS
  <2>1. (n \in 1..(A + B - 1)) <=> (n \in 1..(A - 1))
    BY <1>1
  <2>2. n \in 1..(A - 1) => c[n] = a[n] /\ c[n + 1] = a[n + 1]
    BY <1>1
  <2>3. Len(c) = A + B /\ Len(a) = A
    BY <1>1 DEF A
  <2>4. CASE n \in 1..(A - 1)
    <3>1. c[n] = a[n] /\ c[n + 1] = a[n + 1]
      BY <2>2, <2>4
    <3>2. n \in 1..(Len(c) - 1) /\ n \in 1..(Len(a) - 1)
      <4>1. Len(a) - 1 = A - 1 /\ Len(c) - 1 = A + B - 1
        BY <1>1, <2>3
      <4> QED BY <2>1, <2>4, <4>1
    <3> QED BY <3>1, <3>2, Zenon DEF IsKeyword
  <2>5. CASE n \notin 1..(A - 1)
    BY <2>1, <2>3, <2>5 DEF IsKeyword
  <2> QED BY <2>4, <2>5
<1>4. \A n \in 1..B : IsKeyword(c, A + n) <=> IsKeyword(b, n)
  <2> HIDE DEF A, B
  <2> SUFFICES ASSUME NEW n \in 1..B PROVE IsKeyword(c, A + n) <=> IsKeyword(b, n)
    OBVIOUS
  <2>1. (A + n \in 1..(A + B - 1)) <=> (n \in 1..(B - 1))
    BY <1>1
  <2>2. n \in 1..(B - 1) => c[A + n] = b[n] /\ c[(A + n) + 1] = b[n + 1]
    <3> SUFFICES ASSUME n \in 1..(B - 1) PROVE c[A + n] = b[n] /\ c[(A + n) + 1] = b[n + 1]
      OBVIOUS
    <3>1. n + 1 \in 1..B /\ A + (n + 1) = (A + n) + 1
      BY <1>1
    <3> QED BY <1>1, <3>1
  <2> QED BY <1>1, <2>1, <2>2 DEF IsKeyword, A, B
<1>5. PICK ka : IsKept(ka, a) /\ EraseKeywords(a) = ka[A]
  BY EraseSteps
<1>6. PICK kb : IsKept(kb, b) /\ EraseKeywords(b) = kb[B]
  BY EraseSteps
<1>7. PICK kc : IsKept(kc, c) /\ EraseKeywords(c) = kc[A + B]
  <2>1. PICK k : IsKept(k, c) /\ EraseKeywords(c) = k[Len(c)]
    BY <1>1, EraseSteps
  <2> QED BY <1>1, <2>1
<1>8. /\ ka[0] = <<>> /\ kb[0] = <<>> /\ kc[0] = <<>>
      /\ ka \in [0..A -> Seq(Character)] /\ kb \in [0..B -> Seq(Character)]
      /\ kc \in [0..(A + B) -> Seq(Character)]
  BY <1>1, <1>5, <1>6, <1>7 DEF IsKept
<1>9. \A n \in 1..A : /\ ka[n] = IF Erased(a, n) THEN ka[n - 1] ELSE Append(ka[n - 1], a[n])
                      /\ Erased(a, n) <=> Erased(c, n)
  <2> SUFFICES ASSUME NEW n \in 1..A
               PROVE  /\ ka[n] = IF Erased(a, n) THEN ka[n - 1] ELSE Append(ka[n - 1], a[n])
                      /\ Erased(a, n) <=> Erased(c, n)
    OBVIOUS
  <2>1. n - 1 \in 0..(A - 1) /\ (n \in 0..(A - 1) \/ n = A)
    BY <1>1
  <2> QED BY <1>2, <1>3, <1>5, <2>1 DEF Erased, IsKept
<1>10. \A n \in 1..B : /\ kb[n] = IF Erased(b, n) THEN kb[n - 1] ELSE Append(kb[n - 1], b[n])
                       /\ Erased(b, n) <=> Erased(c, A + n)
  <2> SUFFICES ASSUME NEW n \in 1..B
               PROVE  /\ kb[n] = IF Erased(b, n) THEN kb[n - 1] ELSE Append(kb[n - 1], b[n])
                      /\ Erased(b, n) <=> Erased(c, A + n)
    OBVIOUS
  <2>1. kb[n] = IF Erased(b, n) THEN kb[n - 1] ELSE Append(kb[n - 1], b[n])
    BY <1>6 DEF IsKept
  <2>2. IsKeyword(c, A + n) <=> IsKeyword(b, n)
    BY <1>4
  <2>3. IsKeyword(c, (A + n) - 1) <=> IsKeyword(b, n - 1)
    <3>1. CASE n = 1
      <4>1. (A + n) - 1 = A /\ n - 1 = 0
        BY <1>1, <3>1
      <4> QED BY <1>2, <4>1
    <3>2. CASE n # 1
      <4>1. n - 1 \in 1..B /\ (A + n) - 1 = A + (n - 1)
        BY <1>1, <3>2
      <4> QED BY <1>4, <4>1
    <3> QED BY <3>1, <3>2
  <2> QED BY <2>1, <2>2, <2>3 DEF Erased
<1>11. \A n \in 1..(A + B) :
         kc[n] = IF Erased(c, n) THEN kc[n - 1] ELSE Append(kc[n - 1], c[n])
  BY <1>1, <1>7 DEF IsKept
<1> HIDE DEF A, B
<1> DEFINE I == {n \in Nat : n <= A => kc[n] = ka[n]}
           J == {n \in Nat : n <= B => kc[A + n] = ka[A] \o kb[n]}
<1>12. A \in I
  <2>1. 0 \in I
    BY <1>8
  <2>2. ASSUME NEW n \in I PROVE n + 1 \in I
    <3> SUFFICES ASSUME n + 1 <= A PROVE kc[n + 1] = ka[n + 1]
      OBVIOUS
    <3>1. n + 1 \in 1..A /\ n + 1 \in 1..(A + B) /\ (n + 1) - 1 = n /\ n <= A
      BY <1>1
    <3>2. kc[n] = ka[n] /\ c[n + 1] = a[n + 1]
      BY <1>1, <3>1
    <3> QED BY <1>9, <1>11, <3>1, <3>2
  <2>3. I = Nat
    <3>1. I \in SUBSET Nat
      OBVIOUS
    <3> HIDE DEF I
    <3> QED BY <2>1, <2>2, <3>1, InductiveSet
  <2> QED BY <1>1, <2>3
<1>13. B \in J
  <2>1. 0 \in J
    <3>1. kc[A] = ka[A] /\ ka[A] \in Seq(Character) /\ A + 0 = A
      BY <1>1, <1>8, <1>12
    <3>2. ka[A] \o <<>> = ka[A]
      BY <3>1, ConcatEmptySeq
    <3> QED BY <1>8, <3>1, <3>2
  <2>2. ASSUME NEW n \in J PROVE n + 1 \in J
    <3> DEFINE P(m) == kc[A + m] = ka[A] \o kb[m]
    <3>0. n \in Nat /\ (n <= B => P(n)) /\ J = {m \in Nat : m <= B => P(m)}
      OBVIOUS
    <3> HIDE DEF J, P
    <3> SUFFICES ASSUME n + 1 <= B PROVE P(n + 1)
      BY <3>0
    <3> USE DEF P
    <3>1. /\ n + 1 \in 1..B /\ A + (n + 1) \in 1..(A + B) /\ (n + 1) - 1 = n /\ n <= B
          /\ (A + (n + 1)) - 1 = A + n /\ n \in 0..B /\ A \in 0..A
      BY <1>1, <3>0
    <3>2. kc[A + n] = ka[A] \o kb[n] /\ c[A + (n + 1)] = b[n + 1]
      BY <1>1, <3>0, <3>1
    <3>3. ka[A] \in Seq(Character) /\ kb[n] \in Seq(Character) /\ b[n + 1] \in Character
      BY <1>8, <3>1, ElementOfSeq DEF B
    <3>4. Append(ka[A] \o kb[n], b[n + 1]) = ka[A] \o Append(kb[n], b[n + 1])
      <4> DEFINE x == ka[A]
                 y == kb[n]
                 e == b[n + 1]
      <4>1. x \in Seq(Character) /\ y \in Seq(Character) /\ e \in Character
        BY <3>3
      <4> HIDE DEF x, y, e
      <4>2. x \o y \in Seq(Character) /\ <<e>> \in Seq(Character)
        BY <4>1, ConcatProperties
      <4>3. Append(x \o y, e) = (x \o y) \o <<e>> /\ Append(y, e) = y \o <<e>>
        BY <4>1, <4>2, AppendIsConcat
      <4>4. (x \o y) \o <<e>> = x \o (y \o <<e>>)
        BY <4>1, <4>2, ConcatAssociative, SMTT(20)
      <4>5. Append(x \o y, e) = x \o Append(y, e)
        BY <4>3, <4>4
      <4> QED BY <4>5 DEF x, y, e
    <3>5. /\ kc[A + (n + 1)] = IF Erased(c, A + (n + 1)) THEN kc[A + n]
                               ELSE Append(kc[A + n], c[A + (n + 1)])
          /\ kb[n + 1] = IF Erased(b, n + 1) THEN kb[n] ELSE Append(kb[n], b[n + 1])
          /\ Erased(b, n + 1) <=> Erased(c, A + (n + 1))
      BY <1>10, <1>11, <3>1
    <3> HIDE DEF J
    <3> QED BY <3>2, <3>4, <3>5
  <2>3. J = Nat
    <3>1. J \in SUBSET Nat
      OBVIOUS
    <3> HIDE DEF J
    <3> QED BY <2>1, <2>2, <3>1, InductiveSet
  <2> QED BY <1>1, <2>3
<1>14. kc[A + B] = ka[A] \o kb[B]
  <2> DEFINE P(m) == kc[A + m] = ka[A] \o kb[m]
  <2>1. B <= B => P(B)
    BY <1>13
  <2> HIDE DEF P
  <2>2. P(B)
    BY <1>1, <2>1
  <2> QED BY <2>2 DEF P
<1> QED BY <1>5, <1>6, <1>7, <1>14 DEF c

(* A text without characters of the file is left as it is.                 *)
LEMMA EraseNothing ==
  ASSUME NEW a \in Seq(Character), \A n \in 1..Len(a) : a[n][1] # "text"
  PROVE  EraseKeywords(a) = a
<1> DEFINE A == Len(a)
<1>1. A \in Nat /\ \A n \in 1..A : a[n] \in Character
  BY LenProperties, ElementOfSeq
<1>2. \A n : ~IsKeyword(a, n)
  <2> SUFFICES ASSUME NEW n, IsKeyword(a, n) PROVE FALSE
    OBVIOUS
  <2>1. n \in 1..(A - 1) /\ \E m : a[n] = Char(m)
    BY DEF IsKeyword
  <2>2. n \in 1..A
    BY <1>1, <2>1
  <2>3. \A m : Char(m)[1] = "text"
    BY DEF Char
  <2> QED BY <2>1, <2>2, <2>3
<1>3. PICK k : IsKept(k, a) /\ EraseKeywords(a) = k[A]
  BY EraseSteps
<1>4. k[0] = <<>> /\ k \in [0..A -> Seq(Character)] /\ \A n \in 1..A : k[n] = Append(k[n - 1], a[n])
  BY <1>2, <1>3 DEF IsKept, Erased
<1> DEFINE I == {n \in Nat : n <= A => Len(k[n]) = n /\ \A i \in 1..n : k[n][i] = a[i]}
<1> HIDE DEF A
<1>5. 0 \in I
  BY <1>4
<1>6. ASSUME NEW n \in I PROVE n + 1 \in I
  <2> SUFFICES ASSUME n + 1 <= A
               PROVE  Len(k[n + 1]) = n + 1 /\ \A i \in 1..(n + 1) : k[n + 1][i] = a[i]
    OBVIOUS
  <2>1. n + 1 \in 1..A /\ (n + 1) - 1 = n /\ n \in 0..A /\ n <= A
    BY <1>1
  <2>2. k[n + 1] = Append(k[n], a[n + 1]) /\ k[n] \in Seq(Character) /\ a[n + 1] \in Character
    BY <1>1, <1>4, <2>1
  <2>3. Len(k[n]) = n /\ \A i \in 1..n : k[n][i] = a[i]
    BY <2>1
  <2>4. Len(k[n + 1]) = n + 1 /\ k[n + 1][n + 1] = a[n + 1]
        /\ \A i \in 1..n : k[n + 1][i] = k[n][i]
    BY <2>2, <2>3, AppendProperties
  <2>5. \A i \in 1..(n + 1) : i \in 1..n \/ i = n + 1
    OBVIOUS
  <2> QED BY <2>3, <2>4, <2>5
<1>7. I = Nat
  <2>1. I \in SUBSET Nat
    OBVIOUS
  <2> HIDE DEF I
  <2> QED BY <1>5, <1>6, <2>1, InductiveSet
<1>8. k[A] \in Seq(Character) /\ Len(k[A]) = A /\ \A i \in 1..A : k[A][i] = a[i]
  <2>1. A \in I /\ A \in 0..A
    <3> HIDE DEF I
    <3> QED BY <1>1, <1>7
  <2>2. Len(k[A]) = A /\ \A i \in 1..A : k[A][i] = a[i]
    BY <2>1
  <2> QED BY <1>4, <2>1, <2>2
<1>9. k[A] = a
  BY <1>8, SeqEqual DEF A
<1> QED BY <1>3, <1>9

(* The characters of keywords.                                             *)
KeywordChars == {Char(Offset[q] + i) : q \in {q \in 1..Len(src) : Kind(q) = "sync"}, i \in {1, 2}}

(* Nothing else is erased, and nothing is made.                            *)
LEMMA EraseKeeps ==
  ASSUME NEW text \in Seq(Character)
  PROVE  /\ ToSet(EraseKeywords(text)) \subseteq ToSet(text)
         /\ ToSet(text) \ KeywordChars \subseteq ToSet(EraseKeywords(text))
<1> DEFINE N == Len(text)
<1>1. N \in Nat /\ (\A n \in 1..N : text[n] \in Character) /\ ToSet(text) = {text[n] : n \in 1..N}
  BY LenProperties, ElementOfSeq DEF ToSet
<1>2. PICK k : IsKept(k, text) /\ EraseKeywords(text) = k[N]
  BY EraseSteps
<1>3. /\ k[0] = <<>> /\ k \in [0..N -> Seq(Character)]
      /\ \A n \in 1..N : k[n] = IF Erased(text, n) THEN k[n - 1] ELSE Append(k[n - 1], text[n])
  BY <1>2 DEF IsKept
<1> HIDE DEF N
<1>4. ASSUME NEW n \in 1..N, Erased(text, n) PROVE text[n] \in KeywordChars
  <2>1. ASSUME NEW m, IsKeyword(text, m)
        PROVE  text[m] \in KeywordChars /\ text[m + 1] \in KeywordChars
    <3>1. PICK q \in 1..Len(src) : /\ Kind(q) = "sync" /\ text[m] = Char(Offset[q] + 1)
                                   /\ text[m + 1] = Char(Offset[q] + 2)
      BY <2>1, Zenon DEF IsKeyword
    <3> QED BY <3>1 DEF KeywordChars
  <2>2. (n - 1) + 1 = n
    BY <1>1
  <2> QED BY <1>4, <2>1, <2>2 DEF Erased
<1> DEFINE T(n) == {text[i] : i \in 1..n}
           I == {n \in Nat : n <= N => ToSet(k[n]) \subseteq T(n) /\ T(n) \ KeywordChars \subseteq ToSet(k[n])}
<1>5. 0 \in I
  <2>1. ToSet(k[0]) = {} /\ T(0) = {}
    BY <1>3 DEF ToSet
  <2> QED BY <2>1
<1>6. ASSUME NEW n \in I PROVE n + 1 \in I
  <2> DEFINE P(m) == ToSet(k[m]) \subseteq T(m) /\ T(m) \ KeywordChars \subseteq ToSet(k[m])
  <2>0. n \in Nat /\ (n <= N => P(n)) /\ I = {m \in Nat : m <= N => P(m)}
    OBVIOUS
  <2> HIDE DEF I
  <2> SUFFICES ASSUME n + 1 <= N PROVE P(n + 1)
    BY <2>0
  <2>1. n + 1 \in 1..N /\ (n + 1) - 1 = n /\ n \in 0..N /\ n <= N
    BY <1>1, <2>0
  <2>2. T(n + 1) = T(n) \cup {text[n + 1]}
    <3>1. \A i : i \in 1..(n + 1) <=> (i \in 1..n \/ i = n + 1)
      BY <2>0
    <3> QED BY <3>1
  <2>3. /\ k[n + 1] = IF Erased(text, n + 1) THEN k[n] ELSE Append(k[n], text[n + 1])
        /\ k[n] \in Seq(Character) /\ text[n + 1] \in Character
    BY <1>1, <1>3, <2>1
  <2>4. ToSet(Append(k[n], text[n + 1])) = ToSet(k[n]) \cup {text[n + 1]}
    BY <2>3, AppendSet
  <2>5. Erased(text, n + 1) => text[n + 1] \in KeywordChars
    BY <1>4, <2>1
  <2>6. P(n)
    BY <2>0, <2>1
  <2> HIDE DEF T
  <2> QED BY <2>2, <2>3, <2>4, <2>5, <2>6
<1>7. I = Nat
  <2>1. I \in SUBSET Nat
    OBVIOUS
  <2> HIDE DEF I
  <2> QED BY <1>5, <1>6, <2>1, InductiveSet
<1>8. N \in I
  <2> HIDE DEF I
  <2> QED BY <1>1, <1>7
<1>9. ToSet(text) = T(N)
  BY <1>1
<1> HIDE DEF T
<1> QED BY <1>1, <1>2, <1>8, <1>9 DEF N

(* No keyword lies across the ends of a part of the file.                  *)
Whole(a, b) ==
  \A q \in 1..Len(src) : Kind(q) = "sync" =>
    (Offset[q] + 1 \in (a + 1)..b <=> Offset[q] + 2 \in (a + 1)..b)

(* Such a part loses its keywords and nothing else.                        *)
LEMMA EraseRun ==
  ASSUME src \in Sources, NEW a \in Nat, NEW b \in Nat, a <= b, Whole(a, b)
  PROVE  IsCode(EraseKeywords(Run(a, b)), a, b)
<1> DEFINE text == Run(a, b)
           N == b - a
           Gone(n) == \E q \in 1..Len(src) : Kind(q) = "sync" /\ (a + n) - Offset[q] \in {1, 2}
<1>1. /\ N \in Nat /\ text \in Seq(Character) /\ Len(text) = N
      /\ \A n \in 1..N : text[n] = Char(a + n)
  BY RunIs
<1>2. \A q \in 1..Len(src) : Offset[q] \in Nat
  BY OffsetGrows
<1> HIDE DEF text
<1>3. ASSUME NEW n \in 1..N PROVE Erased(text, n) <=> Gone(n)
  <2>1. \A m : IsKeyword(text, m) <=>
          /\ m \in 1..(N - 1)
          /\ \E q \in 1..Len(src) : Kind(q) = "sync" /\ a + m = Offset[q] + 1
    <3> SUFFICES ASSUME NEW m \in 1..(N - 1)
                 PROVE  IsKeyword(text, m) <=>
                          \E q \in 1..Len(src) : Kind(q) = "sync" /\ a + m = Offset[q] + 1
      BY <1>1 DEF IsKeyword
    <3>1. /\ m \in 1..N /\ m + 1 \in 1..N /\ a + m \in Nat /\ a + (m + 1) \in Nat
          /\ a + (m + 1) = (a + m) + 1
      BY <1>1
    <3>2. text[m] = Char(a + m) /\ text[m + 1] = Char(a + (m + 1))
      BY <1>1, <3>1
    <3>3. ASSUME NEW q \in 1..Len(src)
          PROVE  (text[m] = Char(Offset[q] + 1) /\ text[m + 1] = Char(Offset[q] + 2))
                   <=> a + m = Offset[q] + 1
      <4>1. Offset[q] + 1 \in Nat /\ Offset[q] + 2 \in Nat /\ Offset[q] \in Nat
        BY <1>2
      <4>2. /\ text[m] = Char(Offset[q] + 1) <=> a + m = Offset[q] + 1
            /\ text[m + 1] = Char(Offset[q] + 2) <=> a + (m + 1) = Offset[q] + 2
        <5>1. Char(a + m) = Char(Offset[q] + 1) <=> a + m = Offset[q] + 1
          BY <3>1, <4>1, CharIs
        <5>2. Char(a + (m + 1)) = Char(Offset[q] + 2) <=> a + (m + 1) = Offset[q] + 2
          BY <3>1, <4>1, CharIs
        <5> QED BY <3>2, <5>1, <5>2
      <4> QED BY <3>1, <4>1, <4>2, SMTT(20)
    <3> QED BY <1>1, <3>3 DEF IsKeyword
  <2>2. Erased(text, n) <=> IsKeyword(text, n) \/ IsKeyword(text, n - 1)
    BY DEF Erased
  <2>3. ASSUME Erased(text, n) PROVE Gone(n)
    <3>1. CASE IsKeyword(text, n)
      <4>1. PICK q \in 1..Len(src) : Kind(q) = "sync" /\ a + n = Offset[q] + 1
        BY <2>1, <3>1
      <4>2. (a + n) - Offset[q] = 1
        BY <1>2, <4>1
      <4> QED BY <4>1, <4>2
    <3>2. CASE IsKeyword(text, n - 1)
      <4>1. PICK q \in 1..Len(src) : Kind(q) = "sync" /\ a + (n - 1) = Offset[q] + 1
        BY <2>1, <3>2
      <4>2. (a + n) - Offset[q] = 2
        BY <1>1, <1>2, <4>1
      <4> QED BY <4>1, <4>2
    <3> QED BY <2>2, <2>3, <3>1, <3>2
  <2>4. ASSUME NEW q \in 1..Len(src), Kind(q) = "sync", (a + n) - Offset[q] \in {1, 2}
        PROVE  Erased(text, n)
    <3>1. Offset[q] \in Nat /\ a + n \in (a + 1)..b
      BY <1>1, <1>2
    <3>2. (Offset[q] + 1 \in (a + 1)..b) <=> (Offset[q] + 2 \in (a + 1)..b)
      BY <2>4 DEF Whole
    <3>3. CASE (a + n) - Offset[q] = 1
      <4>1. a + n = Offset[q] + 1
        BY <1>1, <3>1, <3>3
      <4>2. Offset[q] + 2 <= b
        BY <3>1, <3>2, <4>1
      <4>3. n \in 1..(N - 1)
        BY <1>1, <3>1, <4>1, <4>2
      <4> QED BY <2>1, <2>2, <2>4, <4>1, <4>3
    <3>4. CASE (a + n) - Offset[q] = 2
      <4>1. a + (n - 1) = Offset[q] + 1 /\ n - 1 \in 1..(N - 1)
        BY <1>1, <3>1, <3>2, <3>4, SMTT(20)
      <4> QED BY <2>1, <2>2, <2>4, <4>1
    <3> QED BY <2>4, <3>3, <3>4
  <2> QED BY <2>3, <2>4
<1>4. PICK k : IsKept(k, text) /\ EraseKeywords(text) = k[N]
  BY <1>1, EraseSteps
<1>5. /\ k[0] = <<>> /\ k \in [0..N -> Seq(Character)]
      /\ \A n \in 1..N : k[n] = IF Gone(n) THEN k[n - 1] ELSE Append(k[n - 1], Char(a + n))
  <2>1. /\ k[0] = <<>> /\ k \in [0..N -> Seq(Character)]
        /\ \A n \in 1..N : k[n] = IF Erased(text, n) THEN k[n - 1] ELSE Append(k[n - 1], text[n])
    BY <1>1, <1>4 DEF IsKept
  <2> HIDE DEF N, Gone
  <2>2. \A n \in 1..N : (Erased(text, n) <=> Gone(n)) /\ text[n] = Char(a + n)
    BY <1>1, <1>3
  <2> QED BY <2>1, <2>2
<1> HIDE DEF N, Gone
<1> DEFINE T(n) == {Char(a + i) : i \in {i \in 1..n : ~Gone(i)}}
           Sorted(s) == \A i, j \in DOMAIN s : i < j => s[i][2] < s[j][2]
           P(n) == ToSet(k[n]) = T(n) /\ Sorted(k[n])
           I == {n \in Nat : n <= N => P(n)}
<1>6. 0 \in I
  <2>1. ToSet(k[0]) = {} /\ T(0) = {} /\ Sorted(k[0])
    BY <1>5 DEF ToSet
  <2> QED BY <2>1
<1>7. ASSUME NEW n \in I PROVE n + 1 \in I
  <2>0. n \in Nat /\ (n <= N => P(n)) /\ I = {m \in Nat : m <= N => P(m)}
    OBVIOUS
  <2> HIDE DEF I, P
  <2> SUFFICES ASSUME n + 1 <= N PROVE P(n + 1)
    BY <2>0
  <2>1. n + 1 \in 1..N /\ (n + 1) - 1 = n /\ n \in 0..N /\ n <= N
    BY <1>1, <2>0
  <2>2. /\ k[n + 1] = IF Gone(n + 1) THEN k[n] ELSE Append(k[n], Char(a + (n + 1)))
        /\ k[n] \in Seq(Character) /\ P(n)
    BY <1>5, <2>0, <2>1
  <2>3. T(n + 1) = IF Gone(n + 1) THEN T(n) ELSE T(n) \cup {Char(a + (n + 1))}
    <3>1. \A i : i \in 1..(n + 1) <=> (i \in 1..n \/ i = n + 1)
      BY <2>0
    <3> QED BY <3>1
  <2>4. CASE Gone(n + 1)
    <3>1. k[n + 1] = k[n] /\ T(n + 1) = T(n)
      BY <2>2, <2>3, <2>4
    <3> QED BY <2>2, <3>1 DEF P
  <2>5. CASE ~Gone(n + 1)
    <3> DEFINE s == k[n]
               e == Char(a + (n + 1))
               t == Append(s, e)
    <3>1. s \in Seq(Character) /\ e \in Character /\ k[n + 1] = t /\ e[2] = a + (n + 1)
      BY <2>0, <2>2, <2>5, CharIs
    <3>2. T(n + 1) = T(n) \cup {e}
      BY <2>3, <2>5
    <3>3. ToSet(s) = T(n) /\ Sorted(s)
      BY <2>2 DEF P
    <3>4. \A c \in T(n) : c[2] < a + (n + 1)
      <4> SUFFICES ASSUME NEW i \in 1..n PROVE Char(a + i)[2] < a + (n + 1)
        OBVIOUS
      <4>1. a + i \in Nat /\ a + i < a + (n + 1)
        BY <2>0
      <4> QED BY <4>1, CharIs
    <3> HIDE DEF s, e, T
    <3>5. ToSet(t) = T(n + 1)
      BY <3>1, <3>2, <3>3, AppendSet
    <3>6. Sorted(t)
      <4> SUFFICES ASSUME NEW i \in DOMAIN t, NEW j \in DOMAIN t, i < j PROVE t[i][2] < t[j][2]
        OBVIOUS
      <4> DEFINE L == Len(s)
      <4>1. /\ L \in Nat /\ DOMAIN t = 1..(L + 1) /\ t[L + 1] = e /\ DOMAIN s = 1..L
            /\ \A m \in 1..L : t[m] = s[m]
        BY <3>1, AppendProperties, LenProperties
      <4> HIDE DEF t, L
      <4>2. i \in 1..L /\ t[i] = s[i]
        BY <4>1
      <4>3. CASE j \in 1..L
        BY <3>3, <4>1, <4>2, <4>3
      <4>4. CASE j = L + 1
        <5>1. s[i] \in ToSet(s)
          BY <4>1, <4>2 DEF ToSet
        <5> QED BY <3>1, <3>3, <3>4, <4>1, <4>2, <4>4, <5>1
      <4> QED BY <4>1, <4>3, <4>4
    <3> QED BY <3>1, <3>5, <3>6 DEF P
  <2> QED BY <2>4, <2>5
<1>8. I = Nat
  <2>1. I \in SUBSET Nat
    OBVIOUS
  <2> HIDE DEF I
  <2> QED BY <1>6, <1>7, <2>1, InductiveSet
<1>9. N \in I
  <2> HIDE DEF I
  <2> QED BY <1>1, <1>8
<1>10. P(N)
  BY <1>1, <1>9
<1>11. T(N) = {Char(n) : n \in {n \in (a + 1)..b :
         ~ \E q \in 1..Len(src) : Kind(q) = "sync" /\ n - Offset[q] \in {1, 2}}}
  <2> DEFINE G(n) == \E q \in 1..Len(src) : Kind(q) = "sync" /\ n - Offset[q] \in {1, 2}
  <2>1. \A i : Gone(i) <=> G(a + i)
    BY DEF Gone
  <2> HIDE DEF G
  <2>2. \A i \in 1..N : a + i \in (a + 1)..b
    BY DEF N
  <2>3. \A n \in (a + 1)..b : n - a \in 1..N /\ a + (n - a) = n
    BY DEF N
  <2>4. T(N) = {Char(n) : n \in {n \in (a + 1)..b : ~G(n)}}
    BY <2>1, <2>2, <2>3
  <2> QED BY <2>4 DEF G
<1> QED BY <1>4, <1>10, <1>11 DEF IsCode, text

-----------------------------------------------------------------------------
(* The elements of two sequences put together.                             *)
LEMMA ConcatSet ==
  ASSUME NEW S, NEW s \in Seq(S), NEW t \in Seq(S)
  PROVE  ToSet(s \o t) = ToSet(s) \cup ToSet(t)
<1> DEFINE u == s \o t
           M == Len(s)
           N == Len(t)
<1>1. /\ M \in Nat /\ N \in Nat /\ Len(u) = M + N /\ u \in Seq(S)
      /\ \A i \in 1..(M + N) : u[i] = IF i <= M THEN s[i] ELSE t[i - M]
  BY ConcatProperties, LenProperties
<1>2. ToSet(s) = {s[i] : i \in 1..M} /\ ToSet(t) = {t[i] : i \in 1..N} /\ ToSet(u) = {u[i] : i \in 1..(M + N)}
  BY <1>1, LenProperties DEF ToSet
<1> HIDE DEF u, M, N
<1>3. \A i \in 1..M : i \in 1..(M + N) /\ u[i] = s[i]
  BY <1>1
<1>4. \A i \in 1..N : M + i \in 1..(M + N) /\ u[M + i] = t[i]
  <2> SUFFICES ASSUME NEW i \in 1..N PROVE M + i \in 1..(M + N) /\ u[M + i] = t[i]
    OBVIOUS
  <2>1. M + i \in 1..(M + N) /\ ~(M + i <= M) /\ (M + i) - M = i
    BY <1>1
  <2> QED BY <1>1, <2>1
<1>5. \A i \in 1..(M + N) : i \in 1..M \/ \E j \in 1..N : i = M + j
  <2> SUFFICES ASSUME NEW i \in 1..(M + N), i \notin 1..M PROVE \E j \in 1..N : i = M + j
    OBVIOUS
  <2>1. i - M \in 1..N /\ i = M + (i - M)
    BY <1>1
  <2> QED BY <2>1
<1>6. ToSet(u) = ToSet(s) \cup ToSet(t)
  <2>1. \A x \in ToSet(s) : x \in ToSet(u)
    BY <1>2, <1>3
  <2>2. \A x \in ToSet(t) : x \in ToSet(u)
    BY <1>2, <1>4
  <2>3. ASSUME NEW i \in 1..(M + N) PROVE u[i] \in ToSet(s) \cup ToSet(t)
    <3>1. CASE i \in 1..M
      BY <1>2, <1>3, <3>1
    <3>2. CASE \E j \in 1..N : i = M + j
      BY <1>2, <1>4, <3>2
    <3> QED BY <1>5, <3>1, <3>2
  <2>4. \A x \in ToSet(u) : x \in ToSet(s) \cup ToSet(t)
    BY <1>2, <2>3
  <2> QED BY <2>1, <2>2, <2>4
<1> QED BY <1>6 DEF u

(* What a text is split into where another one is put.                     *)
LEMMA SpliceIs ==
  ASSUME NEW text \in Seq(Character), NEW string \in Seq(Character), NEW o \in 0..Len(text)
  PROVE  LET left == SubSeq(text, 1, o)
             right == SubSeq(text, o + 1, Len(text))
         IN  /\ left \in Seq(Character) /\ Len(left) = o
             /\ right \in Seq(Character) /\ Len(right) = Len(text) - o
             /\ \A i \in 1..o : left[i] = text[i]
             /\ \A i \in 1..(Len(text) - o) : right[i] = text[o + i]
             /\ left \o right = text
             /\ Splice(text, o, string) = left \o string \o right
             /\ Splice(text, o, string) \in Seq(Character)
             /\ Len(Splice(text, o, string)) = Len(text) + Len(string)
             /\ ToSet(Splice(text, o, string)) = ToSet(text) \cup ToSet(string)
<1> DEFINE N == Len(text)
           left == SubSeq(text, 1, o)
           right == SubSeq(text, o + 1, N)
<1>1. N \in Nat /\ o \in Nat /\ o <= N /\ Len(string) \in Nat /\ \A i \in 1..N : text[i] \in Character
  BY LenProperties, ElementOfSeq
<1>2. left \in Seq(Character) /\ Len(left) = o /\ \A i \in 1..o : left[i] = text[i]
  <2>1. \A i \in 1..o : text[i] \in Character
    BY <1>1
  <2>2. /\ left \in Seq(Character) /\ Len(left) = IF 1 <= o THEN o - 1 + 1 ELSE 0
        /\ \A i \in 1..(o - 1 + 1) : left[i] = text[1 + i - 1]
    BY <2>1, SubSeqProperties
  <2> HIDE DEF left
  <2>3. \A i \in 1..o : i \in 1..(o - 1 + 1) /\ 1 + i - 1 = i
    BY <1>1
  <2> QED BY <1>1, <2>2, <2>3
<1>3. right \in Seq(Character) /\ Len(right) = N - o /\ \A i \in 1..(N - o) : right[i] = text[o + i]
  <2> HIDE DEF N
  <2>1. \A i \in (o + 1)..N : text[i] \in Character
    BY <1>1
  <2>2. o + 1 \in Int /\ N \in Int
    BY <1>1
  <2>3. /\ right \in Seq(Character) /\ Len(right) = IF o + 1 <= N THEN N - (o + 1) + 1 ELSE 0
        /\ \A i \in 1..(N - (o + 1) + 1) : right[i] = text[(o + 1) + i - 1]
    BY <2>1, <2>2, SubSeqProperties, SMTT(20)
  <2> HIDE DEF right
  <2>4. \A i \in 1..(N - o) : i \in 1..(N - (o + 1) + 1) /\ (o + 1) + i - 1 = o + i
    BY <1>1
  <2> QED BY <1>1, <2>3, <2>4
<1> HIDE DEF left, right
<1>4. left \o right = text
  <2>1. left \o right \in Seq(Character) /\ Len(left \o right) = N
        /\ \A i \in 1..N : (left \o right)[i] = IF i <= o THEN left[i] ELSE right[i - o]
    <3>1. Len(left) + Len(right) = N
      BY <1>1, <1>2, <1>3
    <3> QED BY <1>2, <1>3, <3>1, ConcatProperties
  <2>2. \A i \in 1..N : (left \o right)[i] = text[i]
    <3> SUFFICES ASSUME NEW i \in 1..N PROVE (left \o right)[i] = text[i]
      OBVIOUS
    <3>1. CASE i <= o
      BY <1>1, <1>2, <2>1, <3>1
    <3>2. CASE ~(i <= o)
      <4>1. i - o \in 1..(N - o) /\ o + (i - o) = i
        BY <1>1, <3>2
      <4> QED BY <1>3, <2>1, <3>2, <4>1
    <3> QED BY <3>1, <3>2
  <2> QED BY <2>1, <2>2, SeqEqual
<1> DEFINE s == left \o string
<1>5. s \in Seq(Character) /\ Len(s) = o + Len(string) /\ ToSet(s) = ToSet(left) \cup ToSet(string)
  <2>1. left \in Seq(Character) /\ Len(left) = o
    BY <1>2
  <2>2. s \in Seq(Character) /\ Len(s) = Len(left) + Len(string)
    BY <2>1, ConcatProperties
  <2>3. ToSet(s) = ToSet(left) \cup ToSet(string)
    BY <2>1, ConcatSet
  <2> QED BY <2>1, <2>2, <2>3
<1>6. Splice(text, o, string) = s \o right
  BY DEF Splice, left, right
<1>7. ToSet(text) = ToSet(left) \cup ToSet(right)
  <2>1. left \in Seq(Character) /\ right \in Seq(Character)
    BY <1>2, <1>3
  <2>2. ToSet(left \o right) = ToSet(left) \cup ToSet(right)
    BY <2>1, ConcatSet
  <2> QED BY <1>4, <2>2
<1> HIDE DEF s
<1>8. s \o right \in Seq(Character) /\ Len(s \o right) = Len(s) + Len(right)
      /\ ToSet(s \o right) = ToSet(s) \cup ToSet(right)
  <2>1. s \in Seq(Character) /\ right \in Seq(Character)
    BY <1>3, <1>5
  <2>2. ToSet(s \o right) = ToSet(s) \cup ToSet(right)
    BY <2>1, ConcatSet
  <2>3. s \o right \in Seq(Character) /\ Len(s \o right) = Len(s) + Len(right)
    BY <2>1, ConcatProperties
  <2> QED BY <2>2, <2>3
<1>9. Len(s \o right) = N + Len(string)
  BY <1>1, <1>3, <1>5, <1>8
<1>10. ToSet(s \o right) = ToSet(text) \cup ToSet(string)
  BY <1>5, <1>7, <1>8
<1> QED BY <1>2, <1>3, <1>4, <1>6, <1>8, <1>9, <1>10 DEF left, right, s, N

(* What a text gains where another one is put.                             *)
LEMMA SpliceAdds ==
  ASSUME NEW text \in Seq(Character), NEW string \in Seq(Character), NEW o \in 0..Len(text)
  PROVE  /\ Splice(text, o, string) \in Seq(Character)
         /\ Len(Splice(text, o, string)) = Len(text) + Len(string)
         /\ ToSet(Splice(text, o, string)) = ToSet(text) \cup ToSet(string)
BY SpliceIs

(* The lock and unlock texts have no characters of the file.               *)
LEMMA LocksAre ==
  /\ Lock \in Seq(Character) /\ Len(Lock) = 4 /\ Unlock \in Seq(Character) /\ Len(Unlock) = 5
  /\ \A n \in 1..4 : Lock[n] = <<"lock", 0, n>>
  /\ \A n \in 1..5 : Unlock[n] = <<"unlock", 0, n>>
  /\ ToSet(Lock) \cap KeywordChars = {} /\ ToSet(Unlock) \cap KeywordChars = {}
<1>1. \A n \in 1..4 : Lock[n] = <<"lock", 0, n>>
  BY DEF Lock
<1>2. \A n \in 1..5 : Unlock[n] = <<"unlock", 0, n>>
  BY DEF Unlock
<1>3. Lock \in Seq(Character) /\ Len(Lock) = 4
  <2>1. \A n \in 1..4 : <<"lock", 0, n>> \in Character
    BY DEF Character
  <2> QED BY <2>1 DEF Lock
<1>4. Unlock \in Seq(Character) /\ Len(Unlock) = 5
  <2>1. \A n \in 1..5 : <<"unlock", 0, n>> \in Character
    BY DEF Character
  <2> QED BY <2>1 DEF Unlock
<1>5. \A c \in KeywordChars : c[1] = "text"
  BY DEF KeywordChars, Char
<1>6. ToSet(Lock) = {Lock[n] : n \in 1..4} /\ ToSet(Unlock) = {Unlock[n] : n \in 1..5}
  BY <1>3, <1>4, LenProperties DEF ToSet
<1>7. (\A c \in ToSet(Lock) : c[1] # "text") /\ (\A c \in ToSet(Unlock) : c[1] # "text")
  BY <1>1, <1>2, <1>6
<1> QED BY <1>1, <1>2, <1>3, <1>4, <1>5, <1>7

(* The text of a thread function in the making.                            *)
User == [text : Seq(Character), thrown : BOOLEAN]

(* A turn of the loop inside the text adds the locks and loses keywords.   *)
LEMMA LockBlockAdds ==
  ASSUME src \in Sources, NEW u \in User, ~u.thrown, NEW from \in Nat, NEW block,
         Offset[block.begin] \in Nat, Offset[block.end] \in Nat,
         from <= Offset[block.begin], Offset[block.begin] <= Offset[block.end],
         Offset[block.end] - from + 1 <= Len(u.text)
  PROVE  LET new == LockBlock(u, from, block) IN
         /\ new \in User /\ ~new.thrown
         /\ new.text = EraseKeywords(Splice(Splice(u.text, Offset[block.begin] - from, Lock),
                                            Offset[block.end] - from + 1 + 4, Unlock))
         /\ (ToSet(u.text) \ KeywordChars) \cup ToSet(Lock) \cup ToSet(Unlock) \subseteq ToSet(new.text)
<1> DEFINE text == u.text
           begin == Offset[block.begin] - from
           end == Offset[block.end] - from + 1
           first == Splice(text, begin, Lock)
           second == Splice(first, end + 4, Unlock)
           new == LockBlock(u, from, block)
<1>1. /\ text \in Seq(Character) /\ u.thrown = FALSE /\ Len(text) \in Nat
      /\ u = [text |-> text, thrown |-> FALSE]
  BY LenProperties DEF User
<1>2. begin \in 0..Len(text) /\ end \in 0..Len(text) /\ end + 4 \in 0..(Len(text) + 4)
  <2> DEFINE a == Offset[block.begin]
             c == Offset[block.end]
             N == Len(text)
  <2>1. a \in Nat /\ c \in Nat /\ from <= a /\ a <= c /\ c - from + 1 <= N /\ N \in Nat
    BY <1>1
  <2>2. begin = a - from /\ end = c - from + 1
    OBVIOUS
  <2> HIDE DEF begin, end, a, c, N
  <2>3. begin \in 0..N /\ end \in 0..N /\ end + 4 \in 0..(N + 4)
    BY <2>1, <2>2
  <2> QED BY <2>3 DEF N
<1>3. LockBlock(u, from, block) = [text |-> EraseKeywords(second), thrown |-> FALSE]
  <2>1. Len(Lock) = 4 /\ ~(begin > Len(text)) /\ ~(end > Len(text))
    <3> HIDE DEF begin, end, text
    <3>1. Len(Lock) = 4
      BY LocksAre
    <3>2. ~(begin > Len(text)) /\ ~(end > Len(text))
      BY <1>1, <1>2
    <3> QED BY <3>1, <3>2
  <2>2. LockBlock(u, from, block) =
          [u EXCEPT !.text = EraseKeywords(Splice(Splice(u.text, begin, Lock), end + Len(Lock), Unlock))]
    BY <1>1, <2>1 DEF LockBlock
  <2> HIDE DEF begin, end
  <2> QED BY <1>1, <2>1, <2>2
<1> HIDE DEF begin, end, text
<1>4. first \in Seq(Character) /\ Len(first) = Len(text) + 4 /\ ToSet(first) = ToSet(text) \cup ToSet(Lock)
  <2>1. Lock \in Seq(Character) /\ Len(Lock) = 4
    BY LocksAre
  <2>2. /\ Splice(text, begin, Lock) \in Seq(Character)
        /\ Len(Splice(text, begin, Lock)) = Len(text) + Len(Lock)
        /\ ToSet(Splice(text, begin, Lock)) = ToSet(text) \cup ToSet(Lock)
    BY <1>1, <1>2, <2>1, SpliceAdds
  <2> QED BY <2>1, <2>2
<1> HIDE DEF first
<1>5. second \in Seq(Character) /\ ToSet(second) = ToSet(first) \cup ToSet(Unlock)
  BY <1>2, <1>4, LocksAre, SpliceAdds
<1> HIDE DEF second
<1>6. EraseKeywords(second) \in Seq(Character) /\ ToSet(second) \ KeywordChars \subseteq ToSet(EraseKeywords(second))
  BY <1>5, EraseType, EraseKeeps
<1>7. new \in User /\ ~new.thrown /\ new.text = EraseKeywords(second)
  BY <1>3, <1>6 DEF User
<1>8. (ToSet(text) \ KeywordChars) \cup ToSet(Lock) \cup ToSet(Unlock) \subseteq ToSet(new.text)
  BY <1>4, <1>5, <1>6, <1>7, LocksAre
<1> HIDE DEF new
<1> QED BY <1>7, <1>8 DEF second, first, begin, end, text, new
-----------------------------------------------------------------------------
(* A sequence has no more elements than places.                            *)
LEMMA FewElements ==
  ASSUME NEW S, NEW s \in Seq(S)
  PROVE  IsFiniteSet(ToSet(s)) /\ Cardinality(ToSet(s)) <= Len(s)
<1> DEFINE n == Len(s)
           f == [i \in 1..n |-> s[i]]
<1>1. n \in Nat /\ ToSet(s) = {s[i] : i \in 1..n}
  BY LenProperties DEF ToSet
<1> HIDE DEF n
<1>2. f \in Surjection(1..n, ToSet(s))
  BY <1>1 DEF Surjection
<1>3. IsFiniteSet(1..n) /\ Cardinality(1..n) = n
  <2>1. IsFiniteSet(1..n) /\ Cardinality(1..n) = IF 1 > n THEN 0 ELSE n - 1 + 1
    BY <1>1, FS_Interval
  <2> QED BY <1>1, <2>1
<1> HIDE DEF f
<1>4. IsFiniteSet(ToSet(s)) /\ Cardinality(ToSet(s)) <= n
  BY <1>2, <1>3, FS_Surjection
<1> QED BY <1>4 DEF n

(* Sets with a one-to-one function between them.                           *)
LEMMA SameCardinality ==
  ASSUME NEW S, NEW T, IsFiniteSet(S), NEW f \in [S -> T],
         \A t \in T : \E s \in S : f[s] = t,
         \A s, t \in S : f[s] = f[t] => s = t
  PROVE  IsFiniteSet(T) /\ Cardinality(T) = Cardinality(S)
<1>1. f \in Surjection(S, T) /\ f \in Injection(S, T)
  BY DEF Surjection, Injection, IsInjective
<1>2. ExistsBijection(S, T)
  BY <1>1 DEF Bijection, ExistsBijection
<1> QED BY <1>2, FS_Bijection

(* The characters of a part of the file, as a set.                         *)
Chars(a, b) == {Char(n) : n \in (a + 1)..b}

(* It has as many elements as there are places.                            *)
LEMMA CharsIs ==
  ASSUME src \in Sources, NEW a \in Nat, NEW b \in Nat, a <= b
  PROVE  /\ IsFiniteSet(Chars(a, b)) /\ Cardinality(Chars(a, b)) = b - a
         /\ ToSet(Run(a, b)) = Chars(a, b)
<1> DEFINE f == [n \in (a + 1)..b |-> Char(n)]
<1>1. f \in [(a + 1)..b -> Chars(a, b)] /\ \A c \in Chars(a, b) : \E n \in (a + 1)..b : f[n] = c
  BY DEF Chars
<1>3. \A m, n \in (a + 1)..b : f[m] = f[n] => m = n
  <2>1. \A n \in (a + 1)..b : n \in Nat /\ f[n] = Char(n)
    OBVIOUS
  <2> HIDE DEF f
  <2> QED BY <2>1, CharIs
<1>2. IsFiniteSet((a + 1)..b) /\ Cardinality((a + 1)..b) = b - a
  <2>1. a + 1 \in Int /\ b \in Int
    OBVIOUS
  <2>2. /\ IsFiniteSet((a + 1)..b)
        /\ Cardinality((a + 1)..b) = IF a + 1 > b THEN 0 ELSE b - (a + 1) + 1
    BY <2>1, FS_Interval
  <2> QED BY <2>2
<1> HIDE DEF f
<1>4. IsFiniteSet(Chars(a, b)) /\ Cardinality(Chars(a, b)) = b - a
  BY <1>1, <1>2, <1>3, SameCardinality
<1>5. ToSet(Run(a, b)) = Chars(a, b)
  <2> DEFINE s == Run(a, b)
             N == b - a
  <2>1. N \in Nat /\ Len(s) = N /\ s \in Seq(Character) /\ \A k \in 1..N : s[k] = Char(a + k)
    BY RunIs
  <2>2. ToSet(s) = {s[k] : k \in 1..N}
    BY <2>1, LenProperties DEF ToSet
  <2>3. \A k \in 1..N : a + k \in (a + 1)..b
    OBVIOUS
  <2>4. \A n \in (a + 1)..b : n - a \in 1..N /\ a + (n - a) = n
    OBVIOUS
  <2> HIDE DEF s, N
  <2>5. \A c : c \in ToSet(s) => c \in Chars(a, b)
    BY <2>1, <2>2, <2>3 DEF Chars
  <2>6. ASSUME NEW n \in (a + 1)..b PROVE Char(n) \in ToSet(s)
    <3>1. n - a \in 1..N /\ s[n - a] = Char(n)
      BY <2>1, <2>4
    <3> QED BY <2>2, <3>1
  <2> QED BY <2>5, <2>6 DEF s, Chars
<1> QED BY <1>4, <1>5

(* The characters of the lock and unlock texts.                            *)
LockChars == ToSet(Lock) \cup ToSet(Unlock)

(* There are nine, none of which is a character of the file.               *)
LEMMA LockCharsAre ==
  /\ IsFiniteSet(LockChars) /\ Cardinality(LockChars) = 9
  /\ \A c \in LockChars : c[1] # "text"
<1> DEFINE f == [n \in 1..9 |-> IF n <= 4 THEN <<"lock", 0, n>> ELSE <<"unlock", 0, n - 4>>]
<1>1. ToSet(Lock) = {<<"lock", 0, n>> : n \in 1..4}
  <2>1. ToSet(Lock) = {Lock[n] : n \in 1..4}
    BY LocksAre, LenProperties DEF ToSet
  <2>2. \A n \in 1..4 : Lock[n] = <<"lock", 0, n>>
    BY LocksAre
  <2> QED BY <2>1, <2>2, Zenon
<1>2. ToSet(Unlock) = {<<"unlock", 0, n>> : n \in 1..5}
  <2>1. ToSet(Unlock) = {Unlock[n] : n \in 1..5}
    BY LocksAre, LenProperties DEF ToSet
  <2>2. \A n \in 1..5 : Unlock[n] = <<"unlock", 0, n>>
    BY LocksAre
  <2> QED BY <2>1, <2>2, Zenon
<1>3. \A c \in LockChars : c[1] # "text"
  BY <1>1, <1>2 DEF LockChars
<1>4. /\ f \in [1..9 -> LockChars]
      /\ \A c \in LockChars : \E n \in 1..9 : f[n] = c
      /\ \A m, n \in 1..9 : f[m] = f[n] => m = n
  <2>1. f \in [1..9 -> LockChars]
    <3>1. ASSUME NEW n \in 1..9 PROVE f[n] \in LockChars
      <4>1. n <= 4 => n \in 1..4
        OBVIOUS
      <4>2. ~(n <= 4) => n - 4 \in 1..5
        OBVIOUS
      <4> QED BY <1>1, <1>2, <4>1, <4>2 DEF LockChars
    <3> QED BY <3>1
  <2>2. \A c \in LockChars : \E n \in 1..9 : f[n] = c
    <3>1. \A m \in 1..4 : m \in 1..9 /\ f[m] = <<"lock", 0, m>>
      OBVIOUS
    <3>2. ASSUME NEW m \in 1..5 PROVE m + 4 \in 1..9 /\ f[m + 4] = <<"unlock", 0, m>>
      <4>1. m + 4 \in 1..9 /\ ~(m + 4 <= 4) /\ (m + 4) - 4 = m
        OBVIOUS
      <4> QED BY <4>1
    <3> HIDE DEF f
    <3> QED BY <1>1, <1>2, <3>1, <3>2 DEF LockChars
  <2>3. ASSUME NEW m \in 1..9, NEW n \in 1..9, f[m] = f[n] PROVE m = n
    <3>1. f[m] = IF m <= 4 THEN <<"lock", 0, m>> ELSE <<"unlock", 0, m - 4>>
      OBVIOUS
    <3>2. f[n] = IF n <= 4 THEN <<"lock", 0, n>> ELSE <<"unlock", 0, n - 4>>
      OBVIOUS
    <3> HIDE DEF f
    <3>3. f[m][3] = (IF m <= 4 THEN m ELSE m - 4) /\ f[m][1] = IF m <= 4 THEN "lock" ELSE "unlock"
      BY <3>1
    <3>4. f[n][3] = (IF n <= 4 THEN n ELSE n - 4) /\ f[n][1] = IF n <= 4 THEN "lock" ELSE "unlock"
      BY <3>2
    <3>5. (m <= 4) <=> (n <= 4)
      BY <2>3, <3>3, <3>4
    <3> QED BY <2>3, <3>3, <3>4, <3>5
  <2> HIDE DEF f
  <2> QED BY <2>1, <2>2, <2>3
<1>5. IsFiniteSet(1..9) /\ Cardinality(1..9) = 9
  <2>0. 1 \in Int /\ 9 \in Int
    OBVIOUS
  <2>1. IsFiniteSet(1..9) /\ Cardinality(1..9) = IF 1 > 9 THEN 0 ELSE 9 - 1 + 1
    BY <2>0, FS_Interval
  <2> QED BY <2>1
<1> HIDE DEF f
<1>7. IsFiniteSet(LockChars) /\ Cardinality(LockChars) = 9
  BY <1>4, <1>5, SameCardinality
<1> QED BY <1>3, <1>7

(* A part of the file between two tokens has two characters of a keyword   *)
(* for each one in it.                                                     *)
LEMMA FewKeywords ==
  ASSUME src \in Sources, NEW a \in 1..Len(src), NEW b \in 1..Len(src), a < b
  PROVE  LET K == Chars(Offset[a], Offset[b]) \cap KeywordChars IN
         /\ IsFiniteSet(K) /\ Cardinality(K) \in Nat
         /\ Cardinality(K) <= 2 * Braces("sync", a, b)
<1> DEFINE K == Chars(Offset[a], Offset[b]) \cap KeywordChars
           Q == {q \in a..b : Kind(q) = "sync"}
           T == {Char(Offset[x[1]] + x[2]) : x \in Q \X {1, 2}}
           f == [x \in Q \X {1, 2} |-> Char(Offset[x[1]] + x[2])]
<1>1. Len(src) \in Nat /\ Eof = Len(src) + 1 /\ a \in Nat /\ b \in Nat
  BY SourceType DEF Eof
<1>2. IsFiniteSet(Q) /\ Cardinality(Q) = Braces("sync", a, b) /\ Braces("sync", a, b) \in Nat
  <2>1. IsFiniteSet(a..b)
    BY <1>1, FS_Interval
  <2>2. IsFiniteSet(Q)
    BY <2>1, FS_Subset
  <2>3. Cardinality(Q) = Braces("sync", a, b)
    BY DEF Braces
  <2> QED BY <2>2, <2>3, FS_CardinalityType
<1>3. IsFiniteSet(Q \X {1, 2}) /\ Cardinality(Q \X {1, 2}) = 2 * Cardinality(Q)
  <2>1. {1, 2} = 1..2 /\ 1 \in Int /\ 2 \in Int
    OBVIOUS
  <2>2. IsFiniteSet(1..2) /\ Cardinality(1..2) = IF 1 > 2 THEN 0 ELSE 2 - 1 + 1
    BY <2>1, FS_Interval
  <2>3. IsFiniteSet({1, 2}) /\ Cardinality({1, 2}) = 2
    BY <2>1, <2>2
  <2> HIDE DEF Q
  <2>4. IsFiniteSet(Q \X {1, 2}) /\ Cardinality(Q \X {1, 2}) = Cardinality(Q) * Cardinality({1, 2})
    BY <1>2, <2>3, FS_Product
  <2> QED BY <1>2, <2>3, <2>4
<1>4. IsFiniteSet(T) /\ Cardinality(T) <= Cardinality(Q \X {1, 2})
  <2>1. f \in Surjection(Q \X {1, 2}, T)
    BY DEF Surjection
  <2> HIDE DEF f, T
  <2> QED BY <1>3, <2>1, FS_Surjection
<1>5. K \subseteq T
  <2> SUFFICES ASSUME NEW c \in K PROVE c \in T
    OBVIOUS
  <2>1. PICK n \in (Offset[a] + 1)..Offset[b] : c = Char(n)
    BY DEF Chars
  <2>2. PICK q \in 1..Len(src), i \in {1, 2} : Kind(q) = "sync" /\ c = Char(Offset[q] + i)
    BY DEF KeywordChars
  <2>3. /\ Offset[a] \in Nat /\ Offset[b] \in Nat /\ Offset[q] \in Nat /\ q \in Nat
    <3>1. a \in 0..Eof /\ b \in 0..Eof /\ q \in 0..Eof /\ q \in Nat
      BY <1>1
    <3> QED BY <3>1, OffsetsInOrder
  <2>4. n = Offset[q] + i
    <3> DEFINE o == Offset[q]
    <3>1. n \in Nat /\ o + i \in Nat
      BY <2>3
    <3>2. Char(n) = Char(o + i)
      BY <2>1, <2>2
    <3> HIDE DEF o
    <3>3. n = o + i
      BY <3>1, <3>2, CharIs
    <3> QED BY <3>3 DEF o
  <2>5. ~(q < a)
    <3> SUFFICES ASSUME q < a PROVE FALSE
      OBVIOUS
    <3>1. Offset[q] + Width(q) + SpaceAfter(q) <= Offset[a] /\ SpaceAfter(q) \in Nat
      <4>1. a \in 1..Eof
        BY <1>1
      <4> QED BY <4>1, TokensApart
    <3>2. Width(q) = 2
      BY <2>2 DEF Width
    <3> DEFINE o == Offset[q]
               x == Offset[a]
               z == SpaceAfter(q)
    <3>3. /\ o + 2 + z <= x /\ z \in Nat /\ o \in Nat /\ x \in Nat
          /\ n = o + i /\ n \in (x + 1)..Offset[b] /\ Offset[b] \in Nat
      BY <2>3, <2>4, <3>1, <3>2
    <3> HIDE DEF o, x, z
    <3>4. x + 1 <= o + i
      BY <3>3
    <3>5. i <= 2 /\ i \in Nat
      OBVIOUS
    <3> QED BY <3>3, <3>4, <3>5
  <2>6. ~(b < q)
    <3> SUFFICES ASSUME b < q PROVE FALSE
      OBVIOUS
    <3>1. b \in 0..Eof /\ q \in 0..Eof /\ b <= q
      BY <1>1
    <3>2. Offset[b] <= Offset[q]
      BY <3>1, OffsetsInOrder
    <3> QED BY <2>3, <2>4, <3>2
  <2>7. q \in Q
    BY <1>1, <2>2, <2>3, <2>5, <2>6
  <2>8. <<q, i>> \in Q \X {1, 2} /\ <<q, i>>[1] = q /\ <<q, i>>[2] = i
    BY <2>7
  <2> HIDE DEF Q, K
  <2> QED BY <2>2, <2>8
<1>6. IsFiniteSet(K) /\ Cardinality(K) <= Cardinality(T)
  <2> HIDE DEF K, T
  <2> QED BY <1>4, <1>5, FS_Subset
<1>7. Cardinality(K) \in Nat /\ Cardinality(T) \in Nat /\ Cardinality(Q \X {1, 2}) \in Nat
  <2> HIDE DEF K, T, Q
  <2> QED BY <1>3, <1>4, <1>6, FS_CardinalityType
<1> HIDE DEF K, T, Q
<1>8. Cardinality(K) <= 2 * Braces("sync", a, b)
  BY <1>2, <1>3, <1>4, <1>6, <1>7
<1> QED BY <1>6, <1>7, <1>8 DEF K

(* A text which has the locks of a block and nothing lost but keywords is  *)
(* as long as it was, unless there are too many keywords.                  *)
LEMMA RoomForLocks ==
  ASSUME src \in Sources, NEW a \in 1..Len(src), NEW b \in 1..Len(src), a < b,
         2 * Braces("sync", a, b) <= 9, NEW text \in Seq(Character),
         (Chars(Offset[a], Offset[b]) \ KeywordChars) \cup LockChars \subseteq ToSet(text)
  PROVE  Offset[b] - Offset[a] <= Len(text)
<1> DEFINE C == Chars(Offset[a], Offset[b])
           K == C \cap KeywordChars
           T == ToSet(text)
<1>1. Offset[a] \in Nat /\ Offset[b] \in Nat /\ Offset[a] <= Offset[b]
  <2>1. a \in 0..Eof /\ b \in 0..Eof /\ a <= b
    BY SourceType DEF Eof
  <2> QED BY <2>1, OffsetsInOrder
<1>2. IsFiniteSet(C) /\ Cardinality(C) = Offset[b] - Offset[a] /\ Cardinality(C) \in Nat
  <2> DEFINE A == Offset[a]
             B == Offset[b]
  <2>1. A \in Nat /\ B \in Nat /\ A <= B
    BY <1>1
  <2> HIDE DEF A, B
  <2>2. IsFiniteSet(Chars(A, B)) /\ Cardinality(Chars(A, B)) = B - A
    BY <2>1, CharsIs
  <2>3. B - A \in Nat
    BY <2>1
  <2> QED BY <2>2, <2>3 DEF A, B
<1>3. IsFiniteSet(K) /\ Cardinality(K) \in Nat /\ Cardinality(K) <= 9
  <2>1. /\ IsFiniteSet(K) /\ Cardinality(K) \in Nat
        /\ Cardinality(K) <= 2 * Braces("sync", a, b)
    BY FewKeywords
  <2>2. Braces("sync", a, b) \in Nat
    BY BracesSteps
  <2> HIDE DEF K
  <2> QED BY <2>1, <2>2
<1>4. IsFiniteSet(T) /\ Cardinality(T) <= Len(text) /\ Cardinality(T) \in Nat /\ Len(text) \in Nat
  BY FewElements, FS_CardinalityType, LenProperties
<1>5. IsFiniteSet(C \cup LockChars) /\ Cardinality(C \cup LockChars) = Cardinality(C) + 9
  <2>1. C \cap LockChars = {}
    <3>1. \A c \in C : c[1] = "text"
      BY DEF Chars, Char
    <3> QED BY <3>1, LockCharsAre
  <2>2. Cardinality(C \cap LockChars) = 0
    BY <2>1, FS_EmptySet
  <2> HIDE DEF C
  <2>3. /\ IsFiniteSet(C \cup LockChars)
        /\ Cardinality(C \cup LockChars) = Cardinality(C) + Cardinality(LockChars) - Cardinality(C \cap LockChars)
    BY <1>2, LockCharsAre, FS_Union
  <2> QED BY <1>2, <2>2, <2>3, LockCharsAre
<1>6. IsFiniteSet(T \cup K) /\ Cardinality(T \cup K) <= Cardinality(T) + Cardinality(K) /\ Cardinality(T \cup K) \in Nat
  <2> HIDE DEF T, K
  <2>1. /\ IsFiniteSet(T \cup K)
        /\ Cardinality(T \cup K) = Cardinality(T) + Cardinality(K) - Cardinality(T \cap K)
    BY <1>3, <1>4, FS_Union
  <2>2. Cardinality(T \cap K) \in Nat
    BY <1>3, <1>4, FS_Intersection, FS_CardinalityType
  <2>3. Cardinality(T \cup K) \in Nat
    BY <2>1, FS_CardinalityType
  <2> QED BY <1>3, <1>4, <2>1, <2>2, <2>3
<1>7. C \cup LockChars \subseteq T \cup K
  OBVIOUS
<1>8. Cardinality(C \cup LockChars) <= Cardinality(T \cup K)
  <2> HIDE DEF C, T, K
  <2> QED BY <1>6, <1>7, FS_Subset
<1> HIDE DEF C, T, K
<1> QED BY <1>1, <1>2, <1>3, <1>4, <1>5, <1>6, <1>8

-----------------------------------------------------------------------------
(* A closed particle as the parser leaves it.                              *)
Closed(p) ==
  /\ p \in ParticleSet
  /\ p.begin \in 1..Len(src) /\ p.end \in 1..Len(src) /\ p.begin < p.end
  /\ Kind(p.begin) = "lb" /\ Kind(p.end) = "rb"
  /\ \A b \in BlocksOf(p) : /\ b.begin \in 1..Len(src) /\ b.end \in 1..Len(src)
                            /\ p.begin < b.begin /\ b.begin <= b.end /\ b.end <= p.end
                            /\ Kind(b.end) \in {"semi", "rb"}

(* Its user block, before the locks.                                       *)
LEMMA UserTextIs ==
  ASSUME src \in Sources, NEW p, Closed(p)
  PROVE  LET from == Offset[p.begin]
             to   == Offset[p.end]
         IN  /\ from \in Nat /\ to \in Nat /\ from <= to /\ UserText(p) = Run(from, to)
             /\ UserText(p) \in Seq(Character) /\ Len(UserText(p)) = to - from
             /\ ToSet(UserText(p)) = Chars(from, to)
<1> DEFINE from == Offset[p.begin]
           to == Offset[p.end]
<1>1. from \in Nat /\ to \in Nat /\ from <= to /\ to <= Offset[Eof] /\ Offset[Eof] \in Nat
  <2>1. p.begin \in 0..Eof /\ p.end \in 0..Eof /\ Eof \in 0..Eof /\ p.begin <= p.end /\ p.end <= Eof
    BY SourceType DEF Eof, Closed
  <2> QED BY <2>1, OffsetsInOrder
<1> HIDE DEF from, to
<1>2. SubSeq(Text, from + 1, to) = Run(from, to)
  BY <1>1, RunOfText
<1>3. UserText(p) = Run(from, to)
  BY <1>2 DEF UserText, from, to
<1>4. Run(from, to) \in Seq(Character) /\ Len(Run(from, to)) = to - from
  BY <1>1, RunIs
<1>5. ToSet(Run(from, to)) = Chars(from, to)
  BY <1>1, CharsIs
<1> QED BY <1>1, <1>3, <1>4, <1>5 DEF from, to

(* Where the locks of a block go, and that there is room for them.         *)
LEMMA BlockIs ==
  ASSUME src \in Sources, NEW p, Closed(p), NEW b \in BlocksOf(p)
  PROVE  /\ Offset[p.begin] \in Nat /\ Offset[b.begin] \in Nat /\ Offset[b.end] \in Nat
         /\ Offset[p.begin] < Offset[b.begin] /\ Offset[b.begin] <= Offset[b.end]
         /\ Offset[p.end] \in Nat
         /\ b.end # p.end => Offset[b.end] + 1 <= Offset[p.end]
<1>1. /\ p.begin \in 1..Len(src) /\ p.end \in 1..Eof
      /\ b.begin \in 1..Eof /\ b.end \in 1..Len(src) /\ Len(src) \in Nat
      /\ p.begin < b.begin /\ b.begin <= b.end /\ b.end <= p.end
  BY SourceType DEF Eof, Closed
<1>2. Offset[p.begin] \in Nat /\ Offset[b.begin] \in Nat /\ Offset[p.begin] < Offset[b.begin]
  BY <1>1, TokensApart, SMTT(20)
<1>3. b.begin \in 0..Eof /\ b.end \in 0..Eof /\ p.end \in 0..Eof
  BY <1>1 DEF Eof
<1>4. Offset[b.begin] <= Offset[b.end] /\ Offset[b.end] \in Nat /\ Offset[p.end] \in Nat
  BY <1>1, <1>3, OffsetsInOrder
<1>5. ASSUME b.end # p.end PROVE Offset[b.end] + 1 <= Offset[p.end]
  <2>1. b.end < p.end
    BY <1>1, <1>5
  <2>2. Offset[b.end] + Width(b.end) + SpaceAfter(b.end) <= Offset[p.end] /\ Width(b.end) \in Nat /\ Width(b.end) >= 1 /\ SpaceAfter(b.end) \in Nat
    BY <1>1, <2>1, TokensApart
  <2> QED BY <1>4, <2>2
<1> QED BY <1>2, <1>4, <1>5

(* The loop over the blocks of a particle, none of which ends with it,     *)
(* does not throw, when the text that is left stays long enough.           *)
LEMMA LocksFit ==
  ASSUME src \in Sources, NEW p, Closed(p), Len(p.dimensions) = 1,
         \A b \in BlocksOf(p) : b.end # p.end,
         Len(p.blocks) > 1 => 2 * Braces("sync", p.begin, p.end) <= 9
  PROVE  UserBlock(p) \in User /\ ~UserBlock(p).thrown
<1> DEFINE n == Len(p.blocks)
           from == Offset[p.begin]
           to == Offset[p.end]
<1>1. n \in Nat /\ \A k \in 1..n : p.blocks[k] \in BlocksOf(p)
  <2>1. p.blocks \in Seq(Block)
    BY DEF Closed, ParticleSet
  <2> QED BY <2>1, LenProperties DEF BlocksOf, ToSet
<1>2. PICK user : /\ UserBlock(p) = user[n]
                  /\ user[0] = [text |-> UserText(p), thrown |-> FALSE]
                  /\ \A k \in 1..n : user[k] = LockBlock(user[k - 1], from, p.blocks[k])
  BY <1>1, UserBlockSteps
<1>3. /\ from \in Nat /\ to \in Nat /\ from <= to
      /\ UserText(p) \in Seq(Character) /\ Len(UserText(p)) = to - from
      /\ ToSet(UserText(p)) = Chars(from, to)
  BY UserTextIs
<1> DEFINE Kept == Chars(from, to) \ KeywordChars
           P(k) == /\ user[k] \in User /\ ~user[k].thrown
                   /\ Kept \subseteq ToSet(user[k].text)
                   /\ k >= 1 => LockChars \subseteq ToSet(user[k].text)
                   /\ k < n => to - from <= Len(user[k].text)
           I == {k \in Nat : k <= n => P(k)}
<1>4. P(0)
  BY <1>2, <1>3 DEF User
<1>5. ASSUME NEW k \in Nat, k + 1 <= n, P(k) PROVE P(k + 1)
  <2> DEFINE u == user[k]
             block == p.blocks[k + 1]
             new == user[k + 1]
  <2>1. k + 1 \in 1..n /\ (k + 1) - 1 = k /\ k < n
    BY <1>1, <1>5
  <2>2. new = LockBlock(u, from, block) /\ block \in BlocksOf(p) /\ block.end # p.end
    BY <1>1, <1>2, <2>1
  <2>3. u \in User /\ ~u.thrown /\ to - from <= Len(u.text) /\ Kept \subseteq ToSet(u.text) /\ Len(u.text) \in Nat
    BY <1>5, <2>1, LenProperties DEF User
  <2>4. /\ Offset[block.begin] \in Nat /\ Offset[block.end] \in Nat
        /\ from <= Offset[block.begin] /\ Offset[block.begin] <= Offset[block.end]
        /\ Offset[block.end] + 1 <= to
    <3> HIDE DEF block
    <3> QED BY <2>2, BlockIs
  <2>5. Offset[block.end] - from + 1 <= Len(u.text)
    <3> DEFINE e == Offset[block.end]
    <3>1. e \in Nat /\ e + 1 <= to
      BY <2>4
    <3> HIDE DEF e, from, to, u
    <3>2. e - from + 1 <= Len(u.text)
      BY <1>3, <2>3, <3>1
    <3> QED BY <3>2 DEF e
  <2> HIDE DEF u, block, new, from, to, n, Kept
  <2>6. /\ new \in User /\ ~new.thrown
        /\ (ToSet(u.text) \ KeywordChars) \cup ToSet(Lock) \cup ToSet(Unlock) \subseteq ToSet(new.text)
    BY <1>3, <2>2, <2>3, <2>4, <2>5, LockBlockAdds
  <2>7. Kept \subseteq ToSet(new.text) /\ LockChars \subseteq ToSet(new.text)
    BY <2>3, <2>6 DEF Kept, LockChars
  <2>8. ASSUME k + 1 < n PROVE to - from <= Len(new.text)
    <3>1. 2 * Braces("sync", p.begin, p.end) <= 9
      BY <1>1, <2>8 DEF n
    <3>2. p.begin \in 1..Len(src) /\ p.end \in 1..Len(src) /\ p.begin < p.end
      BY DEF Closed
    <3>3. new.text \in Seq(Character)
      BY <2>6 DEF User
    <3> QED BY <2>7, <3>1, <3>2, <3>3, RoomForLocks DEF Kept, from, to
  <2> QED BY <2>6, <2>7, <2>8 DEF new
<1> HIDE DEF P, n
<1>6. I = Nat
  <2>1. 0 \in I
    BY <1>4
  <2>2. ASSUME NEW k \in I PROVE k + 1 \in I
    BY <1>1, <1>5
  <2>3. I \in SUBSET Nat
    OBVIOUS
  <2> HIDE DEF I
  <2> QED BY <2>1, <2>2, <2>3, InductiveSet
<1>7. P(n)
  <2>1. n \in I
    <3> HIDE DEF I
    <3> QED BY <1>1, <1>6
  <2> QED BY <1>1, <2>1
<1> QED BY <1>2, <1>7 DEF P, n
-----------------------------------------------------------------------------
(* The elements of two texts put together.                                 *)
LEMMA ConcatAt ==
  ASSUME NEW S, NEW s \in Seq(S), NEW t \in Seq(S)
  PROVE  /\ s \o t \in Seq(S) /\ Len(s \o t) = Len(s) + Len(t)
         /\ Len(s) \in Nat /\ Len(t) \in Nat
         /\ \A k \in 1..Len(s) : (s \o t)[k] = s[k]
         /\ \A k \in 1..Len(t) : (s \o t)[Len(s) + k] = t[k]
<1> DEFINE u == s \o t
           M == Len(s)
           N == Len(t)
<1>1. /\ M \in Nat /\ N \in Nat /\ Len(u) = M + N /\ u \in Seq(S)
      /\ \A i \in 1..(M + N) : u[i] = IF i <= M THEN s[i] ELSE t[i - M]
  BY ConcatProperties, LenProperties
<1> HIDE DEF u, M, N
<1>2. \A i \in 1..M : i \in 1..(M + N) /\ u[i] = s[i]
  BY <1>1
<1>3. \A i \in 1..N : u[M + i] = t[i]
  <2> SUFFICES ASSUME NEW i \in 1..N PROVE u[M + i] = t[i]
    OBVIOUS
  <2>1. M + i \in 1..(M + N) /\ ~(M + i <= M) /\ (M + i) - M = i
    BY <1>1
  <2> QED BY <1>1, <2>1
<1> QED BY <1>1, <1>2, <1>3 DEF u, M, N

(* A part of a text, found by what stands there.                           *)
LEMMA PartIs ==
  ASSUME NEW S, NEW w \in Seq(S), NEW t \in Seq(S), NEW n \in Nat,
         n + Len(t) <= Len(w), \A k \in 1..Len(t) : w[n + k] = t[k]
  PROVE  SubSeq(w, n + 1, n + Len(t)) = t
<1> DEFINE N == Len(t)
           s == SubSeq(w, n + 1, n + N)
<1>1. N \in Nat /\ Len(w) \in Nat /\ \A i \in 1..Len(w) : w[i] \in S
  BY LenProperties, ElementOfSeq
<1> HIDE DEF N
<1>2. n + 1 \in Int /\ n + N \in Int /\ \A i \in (n + 1)..(n + N) : w[i] \in S
  BY <1>1 DEF N
<1>3. /\ s \in Seq(S) /\ Len(s) = IF n + 1 <= n + N THEN (n + N) - (n + 1) + 1 ELSE 0
      /\ \A i \in 1..((n + N) - (n + 1) + 1) : s[i] = w[(n + 1) + i - 1]
  BY <1>2, SubSeqProperties
<1> HIDE DEF s
<1>4. Len(s) = N
  BY <1>1, <1>3
<1>5. \A i \in 1..N : i \in 1..((n + N) - (n + 1) + 1) /\ (n + 1) + i - 1 = n + i
  BY <1>1
<1>6. \A i \in 1..N : s[i] = t[i]
  BY <1>3, <1>5 DEF N
<1>7. s = t
  BY <1>3, <1>4, <1>6, SeqEqual DEF N
<1> QED BY <1>7 DEF s, N

(* A text is put between two others.                                       *)
LEMMA SpliceConcat ==
  ASSUME NEW s \in Seq(Character), NEW t \in Seq(Character), NEW x \in Seq(Character)
  PROVE  Splice(s \o t, Len(s), x) = s \o x \o t
<1> DEFINE w == s \o t
           M == Len(s)
           N == Len(t)
<1>1. /\ w \in Seq(Character) /\ Len(w) = M + N /\ M \in Nat /\ N \in Nat
      /\ \A k \in 1..M : w[k] = s[k]
      /\ \A k \in 1..N : w[M + k] = t[k]
  BY ConcatAt
<1> HIDE DEF w
<1>2. SubSeq(w, 0 + 1, 0 + M) = s
  <2>1. 0 + M <= Len(w) /\ \A k \in 1..M : w[0 + k] = s[k]
    BY <1>1
  <2> QED BY <2>1, PartIs
<1>3. SubSeq(w, M + 1, M + N) = t
  BY <1>1, PartIs, SMTT(20)
<1>4. 0 + 1 = 1 /\ 0 + M = M /\ M + N = Len(w)
  BY <1>1
<1>5. SubSeq(w, 1, M) = s /\ SubSeq(w, M + 1, Len(w)) = t
  BY <1>2, <1>3, <1>4
<1> QED BY <1>5 DEF Splice, w

(* Two parts of the file that follow each other.                           *)
LEMMA RunConcat ==
  ASSUME src \in Sources, NEW a \in Nat, NEW b \in Nat, NEW c \in Nat, a <= b, b <= c
  PROVE  Run(a, b) \o Run(b, c) = Run(a, c)
<1> DEFINE s == Run(a, b)
           t == Run(b, c)
           u == Run(a, c)
<1>0. a <= c
  OBVIOUS
<1>1. /\ s \in Seq(Character) /\ Len(s) = b - a /\ \A k \in 1..(b - a) : s[k] = Char(a + k)
      /\ t \in Seq(Character) /\ Len(t) = c - b /\ \A k \in 1..(c - b) : t[k] = Char(b + k)
      /\ u \in Seq(Character) /\ Len(u) = c - a /\ \A k \in 1..(c - a) : u[k] = Char(a + k)
  <2>1. s \in Seq(Character) /\ Len(s) = b - a /\ \A k \in 1..(b - a) : s[k] = Char(a + k)
    BY RunIs
  <2>2. t \in Seq(Character) /\ Len(t) = c - b /\ \A k \in 1..(c - b) : t[k] = Char(b + k)
    BY RunIs
  <2>3. u \in Seq(Character) /\ Len(u) = c - a /\ \A k \in 1..(c - a) : u[k] = Char(a + k)
    BY <1>0, RunIs
  <2> QED BY <2>1, <2>2, <2>3
<1> HIDE DEF s, t, u
<1>2. /\ s \o t \in Seq(Character) /\ Len(s \o t) = (b - a) + (c - b)
      /\ \A k \in 1..((b - a) + (c - b)) : (s \o t)[k] = IF k <= b - a THEN s[k] ELSE t[k - (b - a)]
  <2>1. s \in Seq(Character) /\ t \in Seq(Character) /\ Len(s) = b - a /\ Len(t) = c - b
    BY <1>1
  <2>2. /\ s \o t \in Seq(Character) /\ Len(s \o t) = Len(s) + Len(t)
        /\ \A k \in 1..(Len(s) + Len(t)) : (s \o t)[k] = IF k <= Len(s) THEN s[k] ELSE t[k - Len(s)]
    BY <2>1, ConcatProperties
  <2> QED BY <2>1, <2>2
<1>3. (b - a) + (c - b) = c - a
  OBVIOUS
<1>4. \A k \in 1..(c - a) : (s \o t)[k] = u[k]
  <2> SUFFICES ASSUME NEW k \in 1..(c - a) PROVE (s \o t)[k] = Char(a + k)
    BY <1>1
  <2>1. CASE k <= b - a
    BY <1>1, <1>2, <1>3, <2>1, SMTT(20)
  <2>2. CASE ~(k <= b - a)
    <3>1. k - (b - a) \in 1..(c - b) /\ b + (k - (b - a)) = a + k
      BY <2>2
    <3> QED BY <1>1, <1>2, <1>3, <2>2, <3>1
  <2> QED BY <2>1, <2>2
<1>5. s \o t = u
  BY <1>1, <1>2, <1>3, <1>4, SeqEqual
<1> QED BY <1>5 DEF s, t, u

(* No keyword lies across an edge.                                         *)
Edge(n) ==
  \A q \in 1..Len(src) : Kind(q) = "sync" => Offset[q] + 2 <= n \/ n <= Offset[q]

(* The beginning of an item is an edge, and so is the end of a short one.  *)
LEMMA EdgeIs ==
  ASSUME src \in Sources
  PROVE  /\ \A x \in 1..Eof : Edge(Offset[x])
         /\ \A x \in 1..Len(src) : Kind(x) # "sync" => Edge(Offset[x] + 1)
<1>1. Len(src) \in Nat /\ Eof = Len(src) + 1
  BY SourceType DEF Eof
<1>2. ASSUME NEW x \in 1..Eof, NEW q \in 1..Len(src), Kind(q) = "sync"
      PROVE  /\ Offset[q] \in Nat /\ Offset[x] \in Nat
             /\ Offset[q] + 2 <= Offset[x] \/ (x <= q /\ Offset[x] <= Offset[q])
  <2>1. x \in Nat /\ q \in Nat /\ x \in 0..Eof /\ q \in 0..Eof
    BY <1>1
  <2>2. Offset[q] \in Nat /\ Offset[x] \in Nat
    BY <2>1, OffsetsInOrder
  <2>3. CASE q < x
    <3>1. Offset[q] + Width(q) + SpaceAfter(q) <= Offset[x] /\ SpaceAfter(q) \in Nat
      BY <2>3, TokensApart
    <3>2. Width(q) = 2
      BY <1>2 DEF Width
    <3> QED BY <2>2, <3>1, <3>2
  <2>4. CASE ~(q < x)
    <3>1. x <= q
      BY <2>1, <2>4
    <3> QED BY <2>1, <2>2, <3>1, OffsetsInOrder
  <2> QED BY <2>3, <2>4
<1>3. ASSUME NEW x \in 1..Len(src), Kind(x) # "sync" PROVE Edge(Offset[x] + 1)
  <2> SUFFICES ASSUME NEW q \in 1..Len(src), Kind(q) = "sync"
               PROVE  Offset[q] + 2 <= Offset[x] + 1 \/ Offset[x] + 1 <= Offset[q]
    BY DEF Edge
  <2>1. x \in 1..Eof
    BY <1>1
  <2>2. /\ Offset[q] \in Nat /\ Offset[x] \in Nat
        /\ Offset[q] + 2 <= Offset[x] \/ (x <= q /\ Offset[x] <= Offset[q])
    BY <1>2, <2>1
  <2>3. CASE x <= q
    <3>1. x < q /\ q \in 1..Eof
      BY <1>1, <1>3, <2>3
    <3>2. Offset[x] + Width(x) + SpaceAfter(x) <= Offset[q] /\ Width(x) \in Nat /\ Width(x) >= 1 /\ SpaceAfter(x) \in Nat
      BY <3>1, TokensApart
    <3> QED BY <2>2, <3>2
  <2> QED BY <2>2, <2>3
<1> QED BY <1>2, <1>3 DEF Edge

(* A part of the file between two edges has its keywords whole.            *)
LEMMA EdgesWhole ==
  ASSUME src \in Sources, NEW a \in Nat, NEW b \in Nat, Edge(a), Edge(b)
  PROVE  Whole(a, b)
<1> SUFFICES ASSUME NEW q \in 1..Len(src), Kind(q) = "sync"
             PROVE  Offset[q] + 1 \in (a + 1)..b <=> Offset[q] + 2 \in (a + 1)..b
  BY DEF Whole
<1>1. Offset[q] \in Nat
  <2>1. q \in 0..Eof
    BY SourceType DEF Eof
  <2> QED BY <2>1, OffsetsInOrder
<1>2. (Offset[q] + 2 <= a \/ a <= Offset[q]) /\ (Offset[q] + 2 <= b \/ b <= Offset[q])
  BY DEF Edge
<1> QED BY <1>1, <1>2

(* The characters that a text loses next to a lock or unlock text, which   *)
(* is no part of a keyword, are those it loses alone.                      *)
LEMMA EraseAround ==
  ASSUME NEW a \in Seq(Character), NEW x \in Seq(Character), NEW b \in Seq(Character),
         Len(x) >= 1, \A n \in 1..Len(x) : x[n][1] # "text"
  PROVE  EraseKeywords(a \o x \o b) = EraseKeywords(a) \o x \o EraseKeywords(b)
<1> DEFINE M == Len(a)
           N == Len(x)
           c == a \o x
<1>1. /\ c \in Seq(Character) /\ Len(c) = M + N /\ M \in Nat /\ N \in Nat /\ N >= 1
      /\ \A k \in 1..M : c[k] = a[k]
      /\ \A k \in 1..N : c[M + k] = x[k]
  BY ConcatAt
<1>2. /\ c \o b \in Seq(Character) /\ Len(c \o b) = Len(c) + Len(b) /\ Len(b) \in Nat
      /\ \A k \in 1..Len(c) : (c \o b)[k] = c[k]
  BY <1>1, ConcatAt
<1>3. EraseKeywords(x) = x
  BY EraseNothing
<1>4. \A t, n : IsKeyword(t, n) => t[n][1] = "text" /\ t[n + 1][1] = "text"
  BY DEF IsKeyword, Char
<1> HIDE DEF c, M, N
<1>5. ~IsKeyword(c, M)
  <2>1. 1 \in 1..N /\ c[M + 1] = x[1] /\ x[1][1] # "text"
    BY <1>1 DEF N
  <2> QED BY <1>4, <2>1
<1>6. ~IsKeyword(c \o b, Len(c))
  <2>1. N \in 1..N /\ c[M + N] = x[N] /\ x[N][1] # "text"
    BY <1>1 DEF N
  <2>2. Len(c) \in 1..Len(c) /\ (c \o b)[Len(c)] = c[Len(c)]
    BY <1>1, <1>2
  <2>3. (c \o b)[Len(c)] = x[N]
    BY <1>1, <2>1, <2>2
  <2>4. ASSUME IsKeyword(c \o b, Len(c)) PROVE FALSE
    <3>1. (c \o b)[Len(c)][1] = "text"
      BY <1>4, <2>4, Zenon
    <3> QED BY <2>1, <2>3, <3>1
  <2> QED BY <2>4
<1>7. EraseKeywords(c) = EraseKeywords(a) \o EraseKeywords(x)
  BY <1>5, EraseConcat DEF c, M
<1>8. EraseKeywords(c \o b) = EraseKeywords(c) \o EraseKeywords(b)
  BY <1>1, <1>6, EraseConcat
<1> QED BY <1>3, <1>7, <1>8 DEF c

(* What the thread function of a particle with one block consists of.      *)
LEMMA OneBlockIs ==
  ASSUME src \in Sources, NEW p, Closed(p), Len(p.dimensions) = 1, Len(p.blocks) = 1,
         p.blocks[1].end # p.end
  PROVE  LET b    == p.blocks[1]
             from == Offset[p.begin]
             mid  == Offset[b.begin]
             end  == Offset[b.end] + 1
             to   == Offset[p.end]
         IN  /\ UserBlock(p).text = EraseKeywords(Run(from, mid)) \o Lock \o
                  EraseKeywords(Run(mid, end)) \o Unlock \o EraseKeywords(Run(end, to))
             /\ IsCode(EraseKeywords(Run(from, mid)), from, mid)
             /\ IsCode(EraseKeywords(Run(mid, end)), mid, end)
             /\ IsCode(EraseKeywords(Run(end, to)), end, to)
             /\ EraseKeywords(Run(from, mid)) \in Seq(Character)
             /\ EraseKeywords(Run(mid, end)) \in Seq(Character)
             /\ EraseKeywords(Run(end, to)) \in Seq(Character)
<1> DEFINE b == p.blocks[1]
           from == Offset[p.begin]
           mid == Offset[b.begin]
           last == Offset[b.end]
           end == Offset[b.end] + 1
           to == Offset[p.end]
<1>1. b \in BlocksOf(p)
  <2>1. p.blocks \in Seq(Block) /\ 1 \in 1..Len(p.blocks)
    BY DEF Closed, ParticleSet
  <2> QED BY <2>1, LenProperties DEF BlocksOf, ToSet
<1>2. /\ from \in Nat /\ mid \in Nat /\ last \in Nat /\ to \in Nat
      /\ from < mid /\ mid <= last /\ last + 1 <= to
  BY <1>1, BlockIs
<1>3. end = last + 1
  OBVIOUS
<1>4. Edge(from) /\ Edge(mid) /\ Edge(end) /\ Edge(to)
  <2>1. /\ p.begin \in 1..Eof /\ b.begin \in 1..Eof /\ b.end \in 1..Len(src) /\ p.end \in 1..Eof
        /\ Kind(b.end) # "sync"
    BY <1>1, SourceType DEF Closed, Eof
  <2> QED BY <2>1, EdgeIs
<1> DEFINE n == Len(p.blocks)
<1>5. PICK user : /\ UserBlock(p) = user[n]
                  /\ user[0] = [text |-> UserText(p), thrown |-> FALSE]
                  /\ \A k \in 1..n : user[k] = LockBlock(user[k - 1], from, p.blocks[k])
  <2>1. n \in Nat
    OBVIOUS
  <2> QED BY <2>1, UserBlockSteps
<1>6. /\ UserText(p) = Run(from, to) /\ UserText(p) \in Seq(Character)
      /\ Len(UserText(p)) = to - from
  BY UserTextIs
<1> DEFINE u == [text |-> Run(from, to), thrown |-> FALSE]
<1>7. UserBlock(p) = LockBlock(u, from, b)
  <2>1. 1 \in 1..n /\ 1 - 1 = 0 /\ n = 1
    OBVIOUS
  <2>2. user[1] = LockBlock(user[0], from, p.blocks[1])
    BY <1>5, <2>1
  <2> HIDE DEF n
  <2> QED BY <1>5, <1>6, <2>1, <2>2
<1> DEFINE first == Splice(Run(from, to), mid - from, Lock)
           second == Splice(first, last - from + 1 + 4, Unlock)
<1>8. UserBlock(p).text = EraseKeywords(second)
  <2>1. u \in User /\ ~u.thrown /\ u.text = Run(from, to)
    BY <1>6 DEF User
  <2>2. last - from + 1 <= Len(u.text)
    <3> HIDE DEF from, to, last, mid, u
    <3> QED BY <1>2, <1>6, <2>1
  <2>3. LockBlock(u, from, b).text = EraseKeywords(Splice(Splice(u.text, mid - from, Lock), last - from + 1 + 4, Unlock))
    <3>1. /\ from \in Nat /\ Offset[b.begin] \in Nat /\ Offset[b.end] \in Nat
          /\ from <= Offset[b.begin] /\ Offset[b.begin] <= Offset[b.end]
          /\ Offset[b.end] - from + 1 <= Len(u.text)
      BY <1>2, <2>2
    <3> HIDE DEF u, from, b
    <3> QED BY <2>1, <3>1, LockBlockAdds DEF u
  <2> QED BY <1>7, <2>1, <2>3
<1> DEFINE A == Run(from, mid)
           B == Run(mid, end)
           C == Run(end, to)
<1> HIDE DEF from, mid, end, to, b, last, u
<1>9. /\ A \in Seq(Character) /\ Len(A) = mid - from
      /\ B \in Seq(Character) /\ Len(B) = end - mid
      /\ C \in Seq(Character) /\ Len(C) = to - end
  <2>1. from <= mid /\ mid <= end /\ end <= to /\ end \in Nat
    BY <1>2, <1>3
  <2>2. A \in Seq(Character) /\ Len(A) = mid - from
    BY <1>2, <2>1, RunIs
  <2>3. B \in Seq(Character) /\ Len(B) = end - mid
    BY <1>2, <2>1, RunIs
  <2>4. C \in Seq(Character) /\ Len(C) = to - end
    BY <1>2, <2>1, RunIs
  <2> QED BY <2>2, <2>3, <2>4
<1>10. Run(from, to) = A \o Run(mid, to) /\ Run(mid, to) = B \o C
  <2>1. from <= mid /\ mid <= end /\ end <= to /\ end \in Nat /\ mid <= to
    BY <1>2, <1>3
  <2>2. Run(from, to) = A \o Run(mid, to)
    BY <1>2, <2>1, RunConcat
  <2>3. Run(mid, to) = B \o C
    BY <1>2, <2>1, RunConcat
  <2> QED BY <2>2, <2>3
<1> HIDE DEF A, B, C
<1>11. B \o C \in Seq(Character) /\ Lock \in Seq(Character) /\ Len(Lock) = 4
       /\ Unlock \in Seq(Character) /\ Len(Unlock) = 5
  BY <1>9, LocksAre, ConcatProperties
<1>12. first = A \o Lock \o (B \o C)
  <2>1. Splice(A \o (B \o C), Len(A), Lock) = A \o Lock \o (B \o C)
    BY <1>9, <1>11, SpliceConcat
  <2> QED BY <1>9, <1>10, <2>1
<1> DEFINE D == A \o Lock \o B
<1>13. A \o Lock \in Seq(Character) /\ Len(A \o Lock) = mid - from + 4
  <2>1. A \in Seq(Character) /\ Lock \in Seq(Character)
    BY <1>9, <1>11
  <2>2. A \o Lock \in Seq(Character) /\ Len(A \o Lock) = Len(A) + Len(Lock)
    BY <2>1, ConcatProperties
  <2> QED BY <1>9, <1>11, <2>2
<1>14. D \in Seq(Character) /\ Len(D) = (mid - from + 4) + (end - mid) /\ first = D \o C
  <2>1. D \in Seq(Character) /\ Len(D) = Len(A \o Lock) + Len(B)
    BY <1>9, <1>13, ConcatProperties
  <2>2. (A \o Lock) \o (B \o C) = ((A \o Lock) \o B) \o C
    <3>1. A \o Lock \in Seq(Character) /\ B \in Seq(Character) /\ C \in Seq(Character)
      BY <1>9, <1>13
    <3> QED BY <3>1, ConcatAssociative, SMTT(20)
  <2> QED BY <1>9, <1>12, <1>13, <2>1, <2>2
<1>15. Len(D) = last - from + 1 + 4
  BY <1>2, <1>3, <1>14
<1> HIDE DEF D, first
<1>16. second = D \o Unlock \o C
  <2>1. Splice(D \o C, Len(D), Unlock) = D \o Unlock \o C
    BY <1>9, <1>11, <1>14, SpliceConcat
  <2> QED BY <1>14, <1>15, <2>1
<1> HIDE DEF second
<1>17. EraseKeywords(second) = EraseKeywords(D) \o Unlock \o EraseKeywords(C)
  <2>1. Len(Unlock) >= 1 /\ \A m \in 1..Len(Unlock) : Unlock[m][1] # "text"
    BY LocksAre
  <2>2. D \in Seq(Character) /\ Unlock \in Seq(Character) /\ C \in Seq(Character)
    BY <1>9, <1>11, <1>14
  <2>3. EraseKeywords(D \o Unlock \o C) = EraseKeywords(D) \o Unlock \o EraseKeywords(C)
    BY <2>1, <2>2, EraseAround
  <2> QED BY <1>16, <2>3
<1>18. EraseKeywords(D) = EraseKeywords(A) \o Lock \o EraseKeywords(B)
  <2>1. Len(Lock) >= 1 /\ \A m \in 1..Len(Lock) : Lock[m][1] # "text"
    BY LocksAre
  <2>2. A \in Seq(Character) /\ Lock \in Seq(Character) /\ B \in Seq(Character)
    BY <1>9, <1>11
  <2>3. EraseKeywords(A \o Lock \o B) = EraseKeywords(A) \o Lock \o EraseKeywords(B)
    BY <2>1, <2>2, EraseAround
  <2> QED BY <2>3 DEF D
<1>19. IsCode(EraseKeywords(A), from, mid) /\ IsCode(EraseKeywords(B), mid, end) /\ IsCode(EraseKeywords(C), end, to)
  <2>1. from <= mid /\ mid <= end /\ end <= to /\ end \in Nat
    BY <1>2, <1>3
  <2>2. Whole(from, mid) /\ Whole(mid, end) /\ Whole(end, to)
    BY <1>2, <1>4, <2>1, EdgesWhole
  <2>3. IsCode(EraseKeywords(A), from, mid)
    BY <1>2, <2>1, <2>2, EraseRun DEF A
  <2>4. IsCode(EraseKeywords(B), mid, end)
    BY <1>2, <2>1, <2>2, EraseRun DEF B
  <2>5. IsCode(EraseKeywords(C), end, to)
    BY <1>2, <2>1, <2>2, EraseRun DEF C
  <2> QED BY <2>3, <2>4, <2>5
<1>20. /\ EraseKeywords(A) \in Seq(Character) /\ EraseKeywords(B) \in Seq(Character)
       /\ EraseKeywords(C) \in Seq(Character)
  BY <1>9, EraseType
<1> QED BY <1>8, <1>17, <1>18, <1>19, <1>20 DEF A, B, C, from, mid, end, to, b
-----------------------------------------------------------------------------
(* A particle in a scope is closed.                                        *)
LEMMA OwnIsClosed ==
  ASSUME TypeInv, SpansInOrder, NEW f \in Functions, NEW n \in Own(f)
  PROVE  n \in 1..Len(particles) /\ Closed(particles[n]) /\ particles[n] \in AllParticles
<1> DEFINE p == particles[n]
<1>1. particles \in Seq(ParticleSet) /\ src \in Sources /\ n \in 1..Len(particles) /\ InScope(f, p)
  BY DEF TypeInv, IsTyped, Own
<1>2. p \in ParticleSet /\ p \in AllParticles
  BY <1>1, SeqFacts DEF AllParticles, ToSet
<1>3. p.begin \in Nat /\ p.end \in Nat /\ p.blocks \in Seq(Block)
  BY <1>2 DEF ParticleSet
<1>4. p.begin \in 1..Len(src) /\ p.end \in 1..Len(src)
  BY <1>1, <1>3, WithinFile DEF InScope
<1>5. PICK r : Spans(p, r)
  BY <1>1 DEF SpansInOrder
<1> HIDE DEF p
<1>6. p.begin < p.end /\ Kind(p.begin) = "lb" /\ Kind(p.end) = "rb"
  BY <1>4, <1>5 DEF Spans
<1>7. ASSUME NEW b \in BlocksOf(p)
      PROVE  /\ b.begin \in 1..Len(src) /\ b.end \in 1..Len(src)
             /\ p.begin < b.begin /\ b.begin <= b.end /\ b.end <= p.end
             /\ Kind(b.end) \in {"semi", "rb"}
  <2>1. b \in Block
    BY <1>3, ElementOfSeq, LenProperties DEF BlocksOf, ToSet
  <2>2. b.begin \in Nat /\ b.end \in Nat
    BY <2>1 DEF Block
  <2>3. /\ p.begin < b.begin /\ b.begin <= b.end /\ b.end <= p.end
        /\ Kind(b.end) \in {"semi", "rb", "eof"}
    BY <1>4, <1>5, <1>7 DEF Spans
  <2>4. Len(src) \in Nat
    BY <1>1, SourceType
  <2>5. b.begin \in 1..Len(src) /\ b.end \in 1..Len(src)
    BY <1>4, <2>2, <2>3, <2>4
  <2>6. Kind(b.end) # "eof"
    BY <1>1, <2>4, <2>5, EofKind DEF Eof, Positions
  <2> QED BY <2>3, <2>5, <2>6
<1> QED BY <1>1, <1>2, <1>4, <1>6, <1>7 DEF Closed, p

(* For files with any particles that do not nest, any widths, spaces and   *)
(* order of the scopes: the constructor gives up only for a particle which *)
(* ends with a braced block, for one with several blocks and many uses, or *)
(* by an assertion about a particle without a block. So every other file   *)
(* is rewritten: the offsets in the user block, which the locks of earlier *)
(* blocks and the erased keywords shift, stay inside of the text.          *)
THEOREM AbortsAreExplained ==
  ASSUME MaxDepth = 1
  PROVE  ProxySpec => []AbortsOnBracedBlocks
<1> DEFINE Inv == TypeInv /\ AtMostOneFrame /\ SpansInOrder /\ ProxyInv
<1>1. ProxyInit => Inv
  BY SpansInit, TypeInvInit, TokensInit, ProxyInvInit DEF ProxyInit
<1>2. Inv /\ [ProxyNext]_allVars => Inv'
  <2>1. NoNesting
    BY DEF NoNesting
  <2> QED BY <2>1, ProxyStep, TypeInvStep, OneFrameStep, SpansStep, ProxyInvStep
<1>3. Inv => AbortsOnBracedBlocks
  <2> SUFFICES ASSUME Inv, phase = "aborted",
                      \A p \in HavingBodies :
                        /\ ~(/\ Len(p.blocks) > 1
                             /\ 2 * Braces("sync", p.begin, p.end) > Len(Lock) + Len(Unlock))
                        /\ \A b \in BlocksOf(p) : b.end # p.end
               PROVE  TRUE \in Asserts /\ \E p \in AllParticles : 0 \in {p.begin, p.end}
    BY DEF AbortsOnBracedBlocks
  <2>1. src \in Sources /\ GivenUp
    BY DEF ProxyInv, TypeInv, IsTyped
  <2> SUFFICES ASSUME NEW f \in DOMAIN scopes, NEW n \in Own(f), UserBlock(particles[n]).thrown
               PROVE  FALSE
    BY <2>1 DEF GivenUp
  <2> DEFINE p == particles[n]
  <2>2. f \in Functions /\ VariablesOf(f) # {}
    <3>1. f \in Scoped(Declarations)
      BY DEF ProxyInv, Scoped
    <3> QED BY <2>1, <3>1, ScopedIs
  <2>3. n \in 1..Len(particles) /\ Closed(p) /\ p \in AllParticles /\ InScope(f, p)
    BY <2>2, OwnIsClosed DEF Own
  <2>4. Len(p.dimensions) = 1
    <3> SUFFICES ASSUME Len(p.dimensions) # 1 PROVE FALSE
      OBVIOUS
    <3> HIDE DEF p
    <3>1. UserBlock(p) = [text |-> <<>>, thrown |-> FALSE]
      BY Zenon DEF UserBlock
    <3> QED BY <3>1 DEF p
  <2>5. p \in HavingBodies
    BY <2>2, <2>3, <2>4 DEF HavingBodies, Owners, InScope
  <2>6. \A b \in BlocksOf(p) : b.end # p.end
    BY <2>5
  <2>7. Len(p.blocks) > 1 => 2 * Braces("sync", p.begin, p.end) <= 9
    <3>1. Len(p.blocks) > 1 => ~(2 * Braces("sync", p.begin, p.end) > Len(Lock) + Len(Unlock))
      BY <2>5
    <3>2. Len(Lock) + Len(Unlock) = 9
      BY LocksAre
    <3>3. Braces("sync", p.begin, p.end) \in Nat
      BY <2>1, <2>3, BracesSteps DEF Closed
    <3> HIDE DEF p
    <3> QED BY <3>1, <3>2, <3>3
  <2>8. ~UserBlock(p).thrown
    <3> HIDE DEF p
    <3> QED BY <2>1, <2>3, <2>4, <2>6, <2>7, LocksFit
  <2> QED BY <2>8
<1> QED BY <1>1, <1>2, <1>3, PTL DEF ProxySpec

(* Where the pieces of such a text are found again.                        *)
Locked(a, b, c) == a \o Lock \o b \o Unlock \o c

(* Each piece is found where those before it end.                          *)
LEMMA PiecesAre ==
  ASSUME NEW a \in Seq(Character), NEW b \in Seq(Character), NEW c \in Seq(Character)
  PROVE  LET t == Locked(a, b, c)
             i == Len(a)
             j == Len(a) + 4 + Len(b)
         IN  /\ i \in 0..Len(t) /\ j \in 0..Len(t)
             /\ SubSeq(t, 1, i) = a /\ SubSeq(t, i + 5, j) = b
             /\ SubSeq(t, j + 6, Len(t)) = c
<1> DEFINE A == Len(a)
           B == Len(b)
           C == Len(c)
           t == Locked(a, b, c)
           d == a \o Lock
           e == d \o b
           g == e \o Unlock
<1>1. /\ Lock \in Seq(Character) /\ Unlock \in Seq(Character) /\ Len(Lock) = 4 /\ Len(Unlock) = 5
      /\ A \in Nat /\ B \in Nat /\ C \in Nat
  BY LocksAre, LenProperties
<1>2. /\ d \in Seq(Character) /\ Len(d) = A + 4
      /\ \A k \in 1..A : d[k] = a[k]
  <2>1. /\ d \in Seq(Character) /\ Len(d) = Len(a) + Len(Lock)
        /\ \A k \in 1..Len(a) : d[k] = a[k]
    <3>1. a \in Seq(Character) /\ Lock \in Seq(Character)
      BY <1>1
    <3> QED BY <3>1, ConcatAt
  <2> QED BY <1>1, <2>1
<1> HIDE DEF d
<1>3. /\ e \in Seq(Character) /\ Len(e) = A + 4 + B
      /\ \A k \in 1..(A + 4) : e[k] = d[k]
      /\ \A k \in 1..B : e[A + 4 + k] = b[k]
  <2>1. /\ e \in Seq(Character) /\ Len(e) = Len(d) + Len(b)
        /\ \A k \in 1..Len(d) : e[k] = d[k]
        /\ \A k \in 1..Len(b) : e[Len(d) + k] = b[k]
    <3>1. d \in Seq(Character) /\ b \in Seq(Character)
      BY <1>2
    <3> QED BY <3>1, ConcatAt
  <2> QED BY <1>1, <1>2, <2>1
<1> HIDE DEF e
<1>4. /\ g \in Seq(Character) /\ Len(g) = A + 4 + B + 5
      /\ \A k \in 1..(A + 4 + B) : g[k] = e[k]
  <2>1. /\ g \in Seq(Character) /\ Len(g) = Len(e) + Len(Unlock)
        /\ \A k \in 1..Len(e) : g[k] = e[k]
    <3>1. e \in Seq(Character) /\ Unlock \in Seq(Character)
      BY <1>1, <1>3
    <3> QED BY <3>1, ConcatAt
  <2> QED BY <1>1, <1>3, <2>1
<1> HIDE DEF g
<1>5. /\ t \in Seq(Character) /\ Len(t) = A + 4 + B + 5 + C
      /\ \A k \in 1..(A + 4 + B + 5) : t[k] = g[k]
      /\ \A k \in 1..C : t[A + 4 + B + 5 + k] = c[k]
  <2>1. t = g \o c
    BY DEF Locked, g, e, d
  <2>2. /\ g \o c \in Seq(Character) /\ Len(g \o c) = Len(g) + Len(c)
        /\ \A k \in 1..Len(g) : (g \o c)[k] = g[k]
        /\ \A k \in 1..Len(c) : (g \o c)[Len(g) + k] = c[k]
    <3>1. g \in Seq(Character) /\ c \in Seq(Character)
      BY <1>4
    <3> QED BY <3>1, ConcatAt
  <2> QED BY <1>4, <2>1, <2>2
<1> HIDE DEF A, B, C, t
<1>6. SubSeq(t, 0 + 1, 0 + A) = a
  <2>1. 0 + A <= Len(t)
    BY <1>1, <1>5
  <2>2. \A k \in 1..A : t[0 + k] = a[k]
    <3> SUFFICES ASSUME NEW k \in 1..A PROVE t[0 + k] = a[k]
      OBVIOUS
    <3>1. 0 + k = k /\ k \in 1..(A + 4) /\ k \in 1..(A + 4 + B) /\ k \in 1..(A + 4 + B + 5)
      BY <1>1
    <3> QED BY <1>2, <1>3, <1>4, <1>5, <3>1
  <2> QED BY <1>5, <2>1, <2>2, PartIs DEF A
<1>7. SubSeq(t, (A + 4) + 1, (A + 4) + B) = b
  <2>1. (A + 4) + B <= Len(t) /\ A + 4 \in Nat
    BY <1>1, <1>5
  <2>2. \A k \in 1..B : t[(A + 4) + k] = b[k]
    <3> SUFFICES ASSUME NEW k \in 1..B PROVE t[(A + 4) + k] = b[k]
      OBVIOUS
    <3>1. (A + 4) + k \in 1..(A + 4 + B) /\ (A + 4) + k \in 1..(A + 4 + B + 5)
      BY <1>1
    <3> QED BY <1>3, <1>4, <1>5, <3>1
  <2> QED BY <1>5, <2>1, <2>2, PartIs DEF B
<1>8. SubSeq(t, (A + 4 + B + 5) + 1, (A + 4 + B + 5) + C) = c
  <2>1. (A + 4 + B + 5) + C <= Len(t) /\ A + 4 + B + 5 \in Nat
    BY <1>1, <1>5
  <2> QED BY <1>5, <2>1, PartIs DEF C
<1>9. /\ A \in 0..Len(t) /\ A + 4 + B \in 0..Len(t)
      /\ 0 + 1 = 1 /\ 0 + A = A /\ (A + 4) + 1 = A + 5
      /\ (A + 4 + B + 5) + 1 = (A + 4 + B) + 6 /\ (A + 4 + B + 5) + C = Len(t)
  BY <1>1, <1>5
<1> QED BY <1>6, <1>7, <1>8, <1>9 DEF A, B, t

Bracketed(u, from, mid, end, to) ==
  \E i, j \in 0..Len(u) :
    /\ u = SubSeq(u, 1, i) \o Lock \o SubSeq(u, i + 5, j)
             \o Unlock \o SubSeq(u, j + 6, Len(u))
    /\ IsCode(SubSeq(u, 1, i), from, mid)
    /\ IsCode(SubSeq(u, i + 5, j), mid, end)
    /\ IsCode(SubSeq(u, j + 6, Len(u)), end, to)

(* So the text has the form that the property asks for.                    *)
LEMMA LockedIs ==
  ASSUME NEW a \in Seq(Character), NEW b \in Seq(Character), NEW c \in Seq(Character),
         NEW from, NEW mid, NEW end, NEW to,
         IsCode(a, from, mid), IsCode(b, mid, end), IsCode(c, end, to)
  PROVE  Bracketed(Locked(a, b, c), from, mid, end, to)
<1> DEFINE i == Len(a)
           j == Len(a) + 4 + Len(b)
           u == Locked(a, b, c)
<1>1. SubSeq(u, 1, i) = a
  BY PiecesAre
<1>2. SubSeq(u, i + 5, j) = b
  BY PiecesAre
<1>3. SubSeq(u, j + 6, Len(u)) = c
  BY PiecesAre
<1>4. i \in 0..Len(u) /\ j \in 0..Len(u)
  BY PiecesAre
<1>5. u = a \o Lock \o b \o Unlock \o c
  BY DEF Locked
<1> HIDE DEF i, j, u
<1>6. u = SubSeq(u, 1, i) \o Lock \o SubSeq(u, i + 5, j) \o Unlock \o SubSeq(u, j + 6, Len(u))
  BY <1>1, <1>2, <1>3, <1>5
<1> QED BY <1>1, <1>2, <1>3, <1>4, <1>6 DEF Bracketed, u

(* For files with any particles that do not nest, any widths and spaces,   *)
(* and the scopes in any order: in the thread function of a particle with  *)
(* one synchronized block, nothing is lost but the keywords, a lock stands *)
(* right before the block and an unlock right behind it.                   *)
THEOREM LocksAreRight ==
  ASSUME MaxDepth = 1
  PROVE  ProxySpec => []LocksBracketTheBlock
<1> DEFINE Inv == TypeInv /\ AtMostOneFrame /\ SpansInOrder /\ ProxyInv /\ Registered
<1>1. ProxyInit => Inv
  BY SpansInit, TypeInvInit, TokensInit, ProxyInvInit, RegisteredInit DEF ProxyInit
<1>2. Inv /\ [ProxyNext]_allVars => Inv'
  <2>1. NoNesting
    BY DEF NoNesting
  <2> QED BY <2>1, ProxyStep, TypeInvStep, OneFrameStep, SpansStep, ProxyInvStep, RegisteredStep
<1>3. Inv => LocksBracketTheBlock
  <2> SUFFICES ASSUME Inv, NEW f \in DOMAIN threads, NEW t \in ThreadsOf(f)
               PROVE  LET p == CHOOSE p \in AllParticles : p.id = t.id
                          b == p.blocks[1]
                      IN  Len(p.blocks) = 1 /\ Len(p.dimensions) = 1 =>
                            \E i, j \in 0..Len(t.user) :
                              /\ t.user = SubSeq(t.user, 1, i) \o Lock \o SubSeq(t.user, i + 5, j)
                                            \o Unlock \o SubSeq(t.user, j + 6, Len(t.user))
                              /\ IsCode(SubSeq(t.user, 1, i), Offset[p.begin], Offset[b.begin])
                              /\ IsCode(SubSeq(t.user, i + 5, j), Offset[b.begin], Offset[b.end] + 1)
                              /\ IsCode(SubSeq(t.user, j + 6, Len(t.user)), Offset[b.end] + 1, Offset[p.end])
    BY DEF LocksBracketTheBlock
  <2> DEFINE p == CHOOSE p \in AllParticles : p.id = t.id
             b == p.blocks[1]
             from == Offset[p.begin]
             mid == Offset[b.begin]
             end == Offset[b.end] + 1
             to == Offset[p.end]
             A == EraseKeywords(Run(from, mid))
             B == EraseKeywords(Run(mid, end))
             C == EraseKeywords(Run(end, to))
  <2>1. src \in Sources
    BY DEF TypeInv, IsTyped
  <2>2. f \in Functions
    <3>1. f \in Scoped(Declarations)
      BY DEF ProxyInv, Scoped
    <3> QED BY <2>1, <3>1, ScopedIs
  <2>3. PICK n \in Own(f) : t = threads[f][n]
    BY DEF ThreadsOf, ProxyInv, GetsThreads
  <2>4. /\ t.id = particles[n].id /\ t.user = UserBlock(particles[n]).text
        /\ ~UserBlock(particles[n]).thrown
    BY <2>3 DEF ProxyInv, GetsThreads
  <2>5. n \in 1..Len(particles) /\ Closed(particles[n]) /\ particles[n] \in AllParticles
    BY <2>2, OwnIsClosed
  <2>6. p = particles[n]
    <3>1. p \in AllParticles /\ p.id = particles[n].id
      BY <2>4, <2>5
    <3> HIDE DEF p
    <3>2. PICK m \in 1..Len(particles) : p = particles[m]
      BY <3>1 DEF AllParticles, ToSet, TypeInv, IsTyped
    <3> QED BY <2>5, <3>1, <3>2 DEF Registered
  <2> HIDE DEF p
  <2> SUFFICES ASSUME Len(p.blocks) = 1, Len(p.dimensions) = 1
               PROVE  \E i, j \in 0..Len(t.user) :
                              /\ t.user = SubSeq(t.user, 1, i) \o Lock \o SubSeq(t.user, i + 5, j)
                                            \o Unlock \o SubSeq(t.user, j + 6, Len(t.user))
                              /\ IsCode(SubSeq(t.user, 1, i), from, mid)
                              /\ IsCode(SubSeq(t.user, i + 5, j), mid, end)
                              /\ IsCode(SubSeq(t.user, j + 6, Len(t.user)), end, to)
    BY DEF p
  <2>7. b.end # p.end
    <3>1. p \in ParticleSet /\ p.begin <= p.end /\ p.begin \in Nat /\ p.end \in Nat /\ InScope(f, p)
      BY <2>3, <2>5, <2>6 DEF Closed, Own, ParticleSet
    <3>2. p.blocks # <<>>
      <4> SUFFICES ASSUME p.blocks = <<>> PROVE FALSE
        OBVIOUS
      <4>1. Len(<<>>) = 0
        BY EmptySeq
      <4> QED BY <4>1
    <3> QED BY <2>1, <2>2, <2>4, <2>6, <3>1, <3>2, RoomOfUnthrown
  <2>8. /\ t.user = A \o Lock \o B \o Unlock \o C
        /\ IsCode(A, from, mid) /\ IsCode(B, mid, end) /\ IsCode(C, end, to)
        /\ A \in Seq(Character) /\ B \in Seq(Character) /\ C \in Seq(Character)
    BY <2>1, <2>4, <2>5, <2>6, <2>7, OneBlockIs
  <2> HIDE DEF A, B, C, from, mid, end, to
  <2>9. t.user = Locked(A, B, C)
    BY <2>8 DEF Locked
  <2>10. Bracketed(Locked(A, B, C), from, mid, end, to)
    <3>1. /\ IsCode(A, from, mid) /\ IsCode(B, mid, end) /\ IsCode(C, end, to)
          /\ A \in Seq(Character) /\ B \in Seq(Character) /\ C \in Seq(Character)
      BY <2>8
    <3> QED BY <3>1, LockedIs
  <2> QED BY <2>9, <2>10 DEF Bracketed
<1> QED BY <1>1, <1>2, <1>3, PTL DEF ProxySpec
=============================================================================
