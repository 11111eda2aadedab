----------------------------- MODULE ParserProxy ----------------------------
(***************************************************************************)
(* ParserProxy::ParserProxy (src/CXX-Preprocessor/src/ClangProxy.cpp): a   *)
(* file is parsed, with the lookahead of module PragmaHandler, its shared  *)
(* variables are collected into one scope per function, particles are      *)
(* given to the scopes around them, and each scope is rewritten.           *)
(*                                                                         *)
(* Further kinds of items: "fn" begins a function, whose body is the next  *)
(* item; "shared" is __shared, which begins a declaration up to the `;',   *)
(* with a "comma" between its variables; "wide" is a long token; "glued"   *)
(* is a token with no white space before it.  Functions have bodies that   *)
(* close: what clang makes of other files is not modelled.                 *)
(*                                                                         *)
(* A character is a triple: <<"text", n, 1>> is the nth character of the   *)
(* file, any other triple is a character of a text that is inserted, with  *)
(* its place in that text.                                                 *)
(***************************************************************************)
EXTENDS PragmaHandler, RewriteBuffer

CONSTANTS Indent,   \* the spaces that begin a line
          Asserts   \* the builds: whether assertions are compiled in

ASSUME ParserProxyAssumption == Indent \in Nat /\ Asserts \subseteq BOOLEAN

VARIABLES
  phase,     \* "parse", "visit", "rewrite", "printed", "aborted", "undefined"
  visited,   \* the declarations that have been visited
  scopes,    \* scopeMap: for a function, its shared variables, and where in
             \* _particles its particles are
  buffer,    \* the RewriteBuffer of the file
  threads    \* for a function that has been rewritten, its thread functions

proxyVars == <<phase, visited, scopes, buffer, threads>>
allVars   == <<vars, proxyVars>>
-----------------------------------------------------------------------------
(* The text of the file.                                                   *)

(* The width of a token; of lock and unlock texts in the same proportion   *)
(* to the keyword __synchronized as in the code.                           *)
Width(q) == CASE Kind(q) = "wide" -> 5 [] Kind(q) = "sync" -> 2 [] OTHER -> 1

Lock   == [i \in 1..4 |-> <<"lock", 0, i>>]
Unlock == [i \in 1..5 |-> <<"unlock", 0, i>>]

SpaceAfter(q) ==
  IF Kind(q) \in {"pragma", "define"} THEN 1 + Indent
  ELSE IF Kind(q + 1) \in {"semi", "comma", "glued"} THEN 0
  ELSE IF Kind(q) \in {"lb", "rb", "semi"} THEN 1 + Indent ELSE 1

(* What stands before each item and before the end of the file.            *)
Offset[q \in 0..Eof] ==
  IF q <= 1 THEN 0 ELSE Offset[q - 1] + Width(q - 1) + SpaceAfter(q - 1)

Char(n) == <<"text", n, 1>>

Text == [n \in 1..Offset[Eof] |-> Char(n)]

(* Lexer::MeasureTokenLength, which may begin inside a token.              *)
TokenLength(offset) ==
  LET last == Max({q \in 1..Len(src) : Offset[q] <= offset})
  IN  Max({0, Offset[last] + Width(last) - offset})

(* What the parser makes of the file.                                      *)

Functions == {f \in 1..Len(src) : Kind(f) = "fn"}

FunctionEnd(f) == Matching(f + 1, 0)

(* The variables declared at q all begin at q and end before a `,' or `;'. *)
DeclaredAt(q) ==
  LET semi == Least({s \in q..Len(src) : Kind(s) = "semi"}, Eof) IN
  {[begin |-> q, end |-> e] :
     e \in {e \in q..(semi - 1) : Kind(e + 1) \in {"comma", "semi"}}}

Declarations == UNION {DeclaredAt(q) : q \in {q \in 1..Len(src) :
                                               Kind(q) = "shared"}}

Within(f, q) == f < q /\ q < FunctionEnd(f)

(* getParentFunctionOrMethod: the innermost function, or 0.                *)
Container(q) == Max({f \in Functions : Within(f, q)} \cup {0})
-----------------------------------------------------------------------------
ProxyInit ==
  /\ Init
  /\ phase = "parse"
  /\ visited = {}
  /\ scopes = <<>>
  /\ buffer = Fresh(Text)
  /\ threads = <<>>

(* ParseAST                                                                *)
Parse == phase = "parse" /\ Step /\ UNCHANGED proxyVars

EndParse ==
  /\ phase = "parse"
  /\ ParserDone
  /\ phase' = "visit"
  /\ UNCHANGED <<vars, visited, scopes, buffer, threads>>

(* The variables of the scope of function f.                               *)
VariablesAt(f) == IF f \in DOMAIN scopes THEN scopes[f].vars ELSE <<>>

(* The declarations are visited in the order of the file; a variable       *)
(* outside of every function is skipped with a message.                    *)
VisitVarDecl ==
  /\ phase = "visit"
  /\ \E d \in Declarations \ visited :
       /\ \A e \in Declarations \ visited : d.end <= e.end
       /\ visited' = visited \cup {d}
       /\ LET f == Container(d.begin) IN
          IF f = 0 THEN UNCHANGED scopes
          ELSE scopes' = [g \in DOMAIN scopes \cup {f} |->
                 IF g # f THEN scopes[g]
                 ELSE [vars |-> Append(VariablesAt(f), d), particles |-> {}]]
  /\ UNCHANGED <<vars, phase, buffer, threads>>

(* Operators named Mut... are plausible bugs of the definition that follows *)
(* them; no specification uses them.                                       *)

(* The end of the scope is not looked at.                                  *)
MutInScope(f, p) == f < p.begin /\ f < p.end

(* SourceRangeEx::contains; an invalid location is before every other.     *)
InScope(f, p) == Within(f, p.begin) /\ Within(f, p.end)

(* A particle of another function is taken for an invalid one.             *)
MutAssertFails(f, p) == ~Within(f, p.begin) \/ p.end = 0

(* isBeforeInTranslationUnit asserts that its locations are valid.         *)
AssertFails(f, p) == p.begin = 0 \/ (Within(f, p.begin) /\ p.end = 0)

Assign ==
  /\ phase = "visit"
  /\ visited = Declarations
  /\ LET fails == \E f \in DOMAIN scopes, p \in AllParticles : AssertFails(f, p)
     IN  \/ /\ TRUE \in Asserts /\ fails
            /\ phase' = "aborted"
            /\ UNCHANGED scopes
         \/ /\ FALSE \in Asserts \/ ~fails
            /\ phase' = "rewrite"
            /\ scopes' = [f \in DOMAIN scopes |->
                 [scopes[f] EXCEPT
                    !.particles = {n \in DOMAIN particles :
                                     InScope(f, particles[n])}]]
  /\ UNCHANGED <<vars, visited, buffer, threads>>
-----------------------------------------------------------------------------
(* The text of a thread function.                                          *)

(* userBlock.replace of every "__synchronized" that is still whole.        *)
IsKeyword(text, n) ==
  /\ n \in 1..(Len(text) - 1)
  /\ \E q \in 1..Len(src) : /\ Kind(q) = "sync"
                            /\ text[n] = Char(Offset[q] + 1)
                            /\ text[n + 1] = Char(Offset[q] + 2)

EraseKeywords(text) ==
  LET kept[n \in 0..Len(text)] ==
        CASE n = 0 -> <<>>
          [] n > 0 /\ (IsKeyword(text, n) \/ IsKeyword(text, n - 1)) -> kept[n - 1]
          [] OTHER -> Append(kept[n - 1], text[n])
  IN  kept[Len(text)]

(* The lock text is not taken into account where unlock is inserted.       *)
MutLockBlock(user, from, block) ==
  LET begin == Offset[block.begin] - from
      end   == Offset[block.end] - from + 1
  IN  IF user.thrown \/ begin > Len(user.text) \/ end > Len(user.text)
      THEN [user EXCEPT !.thrown = TRUE]
      ELSE [user EXCEPT !.text =
              EraseKeywords(Splice(Splice(@, begin, Lock), end, Unlock))]

(* One turn of the loop over the synchronized blocks of a particle that    *)
(* begins at offset from; insert throws out_of_range beyond the end.       *)
LockBlock(user, from, block) ==
  LET begin == Offset[block.begin] - from
      end   == Offset[block.end] - from + 1
  IN  IF user.thrown \/ begin > Len(user.text) \/ end > Len(user.text)
      THEN [user EXCEPT !.thrown = TRUE]
      ELSE [user EXCEPT !.text =
              EraseKeywords(Splice(Splice(@, begin, Lock),
                                   end + Len(Lock), Unlock))]

(* The user block goes up to, not including, the closing brace.            *)
UserText(p) == SubSeq(Text, Offset[p.begin] + 1, Offset[p.end])

(* Only the loop of a particle with one dimension has a body.              *)
UserBlock(p) ==
  LET user[n \in 0..Len(p.blocks)] ==
        IF n = 0 THEN [text |-> UserText(p), thrown |-> FALSE]
        ELSE LockBlock(user[n - 1], Offset[p.begin], p.blocks[n])
  IN  IF Len(p.dimensions) # 1 THEN [text |-> <<>>, thrown |-> FALSE]
      ELSE user[Len(p.blocks)]
-----------------------------------------------------------------------------
(* The rewriting of a scope.                                               *)

(* Long enough to show whether a later edit cuts it.                       *)
Inserted(kind, x) == <<<<kind, x, 1>>, <<kind, x, 2>>>>

(* The end of a variable is moved on by 2 so as to erase the `;'.          *)
EndOf(v) == Offset[v.end] + 2

(* The range goes up to the second token after the variable.               *)
MutRemoveVariable(b, v) ==
  RemoveRange(b, Offset[v.begin], Offset[v.end + 2], Width(v.end + 2))

RemoveVariable(b, v) ==
  RemoveRange(b, Offset[v.begin], EndOf(v), TokenLength(EndOf(v)))

(* The closing brace is not removed.                                       *)
MutReplaceParticle(b, p) ==
  InsertTextAfter(RemoveRange(b, Offset[p.begin], Offset[p.end], 0),
                  Offset[p.end], Inserted("set", p.id))

ReplaceParticle(b, p) ==
  InsertTextAfter(
    RemoveRange(b, Offset[p.begin], Offset[p.end], TokenLength(Offset[p.end])),
    Offset[p.end], Inserted("set", p.id))

(* The allocation and the #define lines go after the last variable.        *)
Allocate(b, f, s) ==
  InsertTextAfter(b, EndOf(Last(s.vars)), Inserted("alloc", f))

(* The #undef lines go behind the closing brace.                           *)
MutUndefine(b, f) ==
  InsertTextAfter(b, Offset[FunctionEnd(f)] + 1, Inserted("undef", f))

(* The #undef lines go before the closing brace.                           *)
Undefine(b, f) ==
  InsertTextBefore(b, Offset[FunctionEnd(f)], Inserted("undef", f))

(* The variables of a scope are removed one by one.                        *)
Cleared(b, s) ==
  LET text[n \in 0..Len(s.vars)] ==
        IF n = 0 THEN b ELSE RemoveVariable(text[n - 1], s.vars[n])
  IN  text[Len(s.vars)]

(* Then the particles, in the order of _particles.                         *)
Replaced(b, s) ==
  LET text[n \in 0..Len(particles)] ==
        IF n = 0 THEN b
        ELSE IF n \in s.particles THEN ReplaceParticle(text[n - 1], particles[n])
        ELSE text[n - 1]
  IN  text[Len(particles)]

(* The type of the shared struct and the thread functions go before the    *)
(* function.                                                               *)
Rewritten(b, f, s) ==
  InsertTextBefore(Undefine(Replaced(Allocate(Cleared(b, s), f, s), s), f),
                   Offset[f], Inserted("threads", f))

(* The map is ordered by addresses, so scopes come in any order.  What     *)
(* insert throws is not caught; an invalid removal is undefined.           *)
RewriteScope(f) ==
  /\ phase = "rewrite"
  /\ f \in DOMAIN scopes \ DOMAIN threads
  /\ LET own  == scopes[f].particles
         user == [n \in own |-> UserBlock(particles[n])]
         new  == Rewritten(buffer, f, scopes[f])
     IN  CASE new.invalid -> phase' = "undefined" /\ UNCHANGED <<buffer, threads>>
           [] ~new.invalid /\ (\E n \in own : user[n].thrown) ->
                phase' = "aborted" /\ UNCHANGED <<buffer, threads>>
           [] OTHER ->
                /\ buffer' = new
                /\ threads' = [g \in DOMAIN threads \cup {f} |->
                     IF g # f THEN threads[g]
                     ELSE [n \in own |-> [id   |-> particles[n].id,
                                          user |-> user[n].text]]]
                /\ UNCHANGED phase
  /\ UNCHANGED <<vars, visited, scopes>>

PrintFile ==
  /\ phase = "rewrite"
  /\ DOMAIN threads = DOMAIN scopes
  /\ phase' = "printed"
  /\ UNCHANGED <<vars, visited, scopes, buffer, threads>>

ProxyFinished ==
  /\ phase \in {"printed", "aborted", "undefined"} \/ TooDeep \/ PastEof
  /\ UNCHANGED allVars

ProxyNext == \/ Parse \/ EndParse \/ VisitVarDecl \/ Assign \/ PrintFile
             \/ \E f \in Functions : RewriteScope(f)
             \/ ProxyFinished

(* The lookahead runs on; what follows the parser is a sequence of loops   *)
(* over finite lists, which needs no fairness to be shown never stuck.     *)
ProxySpec == ProxyInit /\ [][ProxyNext]_allVars /\ WF_allVars(Parse)
-----------------------------------------------------------------------------
(* What is printed, told from the file.                                    *)

Printed == phase = "printed"
Output  == buffer.text

(* Where characters of a text are printed, and how such sets are ordered.  *)
Places(kind, x) == {k \in DOMAIN Output : Output[k][1] = kind /\ Output[k][2] = x}

Precedes(S, T) == S # {} /\ T # {} /\ \A j \in S, k \in T : j < k

VariablesOf(f) == {d \in Declarations : Container(d.begin) = f}

(* The thread functions of the particles of function f.                    *)
ThreadsOf(f) == {threads[f][n] : n \in DOMAIN threads[f]}

(* The functions with shared variables around a closed particle.           *)
Owners(p) == {f \in Functions : /\ VariablesOf(f) # {}
                                /\ Within(f, p.begin) /\ Within(f, p.end)}

(* The particles whose block becomes the body of a thread function.        *)
HavingBodies == {p \in AllParticles : Owners(p) # {} /\ Len(p.dimensions) = 1}

(* No particle is inside two functions with shared variables, or around    *)
(* the beginning or the end of one; a declaration is not interrupted, has  *)
(* white space after its variables, ends with a token of one character and *)
(* a `;'.                                                                  *)
Plain ==
  /\ \A p \in AllParticles : \A f, g \in Owners(p) : f = g
  /\ \A p \in AllParticles : Owners(p) # {} =>
       \A f \in Functions : VariablesOf(f) # {} =>
         {f, FunctionEnd(f)} \cap (p.begin..p.end) = {}
  /\ \A d \in Declarations :
       /\ \A q \in (d.begin + 1)..d.end :
            Kind(q) \notin {"shared", "fn", "lb", "rb", "sync", "pragma", "define"}
       /\ \E q \in (d.end + 1)..Len(src) : Kind(q) = "semi"
       /\ Kind(d.end + 2) \notin {"semi", "comma", "glued"}
       /\ Kind(d.end + 1) = "semi" => Kind(d.end) # "wide"

(* The characters of the particles and declarations that are rewritten.    *)
Moved ==
  (UNION {(Offset[p.begin] + 1)..(Offset[p.end] + Width(p.end)) :
            p \in {p \in AllParticles : Owners(p) # {}}}) \cup
  (UNION {(Offset[d.begin] + 1)..(Offset[d.end + 1] + Width(d.end + 1)) :
            d \in {d \in Declarations : Container(d.begin) # 0}})

(* In whatever order the scopes are rewritten, the functions that get a    *)
(* thread of a particle are exactly those around it with shared variables. *)
ParticlesGetThreads ==
  Printed => \A p \in AllParticles :
    {f \in DOMAIN threads : \E t \in ThreadsOf(f) : t.id = p.id} = Owners(p)

(* A particle in a function with shared variables is replaced by exactly   *)
(* one set call, which is whole, and none of its characters is left; any   *)
(* other particle gets no call.                                            *)
ParticlesAreMoved ==
  Printed /\ Plain =>
    \A p \in AllParticles :
      IF Owners(p) = {} THEN Places("set", p.id) = {}
      ELSE /\ \E j, k \in DOMAIN Output :
                /\ j < k /\ Places("set", p.id) = {j, k}
                /\ Output[j][3] = 1 /\ Output[k][3] = 2
           /\ \A n \in (Offset[p.begin] + 1)..(Offset[p.end] + 1) :
                Places("text", n) = {}

(* Nothing else is lost or moved: the characters that are printed are      *)
(* those outside of the particles and declarations that are rewritten,     *)
(* white space included, each once and in order; and nothing is removed    *)
(* that is no longer there.                                                *)
RestIsKept ==
  /\ phase = "undefined" => ~Plain
  /\ Printed /\ Plain =>
       LET text == {k \in DOMAIN Output : Output[k][1] = "text"} IN
       /\ {Output[k][2] : k \in text} = DOMAIN Text \ Moved
       /\ \A j, k \in text : j < k => Output[j][2] < Output[k][2]

(* The thread functions come before their function and, when its variables *)
(* are declared before its particles, the struct is allocated before any   *)
(* particle is set and the names of the variables are defined until the    *)
(* function ends.                                                          *)
TextsInOrder ==
  Printed /\ Plain =>
    \A f \in DOMAIN scopes :
      LET own == {p \in AllParticles : f \in Owners(p)} IN
      (\A d \in VariablesOf(f), p \in own : d.end < p.begin) =>
        \A p \in own :
          LET texts == <<Places("threads", f), Places("text", Offset[f] + 1),
                         Places("alloc", f), Places("set", p.id),
                         Places("undef", f), Places("text", Offset[FunctionEnd(f)] + 1)>>
          IN  \A n \in 1..5 : Precedes(texts[n], texts[n + 1])

(* The characters of the file from one offset to another, keywords left    *)
(* out, are what s consists of, in order.                                  *)
IsCode(s, from, to) ==
  /\ ToSet(s) = {Char(n) : n \in {n \in (from + 1)..to :
       ~ \E q \in 1..Len(src) : Kind(q) = "sync" /\ n - Offset[q] \in {1, 2}}}
  /\ \A j, k \in DOMAIN s : j < k => s[j][2] < s[k][2]

(* In the thread function of a particle with one synchronized block, a     *)
(* lock stands right before the block and an unlock right after it; the    *)
(* keyword is gone and the rest of the particle is there, up to its        *)
(* closing brace.                                                          *)
LocksBracketTheBlock ==
  \A f \in DOMAIN threads : \A t \in ThreadsOf(f) :
    LET p == CHOOSE p \in AllParticles : p.id = t.id
        b == p.blocks[1]
    IN  Len(p.blocks) = 1 /\ Len(p.dimensions) = 1 =>
          \E i, j \in 0..Len(t.user) :
            /\ t.user = SubSeq(t.user, 1, i) \o Lock \o SubSeq(t.user, i + 5, j)
                          \o Unlock \o SubSeq(t.user, j + 6, Len(t.user))
            /\ IsCode(SubSeq(t.user, 1, i), Offset[p.begin], Offset[b.begin])
            /\ IsCode(SubSeq(t.user, i + 5, j), Offset[b.begin], Offset[b.end] + 1)
            /\ IsCode(SubSeq(t.user, j + 6, Len(t.user)), Offset[b.end] + 1, Offset[p.end])

(* The rewriting of a file is given up only for a particle that ends with  *)
(* a synchronized block in braces; for one with several blocks and so many *)
(* uses that erasing the keywords makes its text shorter than the locks of *)
(* a block make it longer; or, in a build with assertions, for one without *)
(* a block.                                                                *)
AbortsOnBracedBlocks ==
  LET Shrinks(p) == Len(p.blocks) > 1 /\
        2 * Braces("sync", p.begin, p.end) > Len(Lock) + Len(Unlock)
  IN  phase = "aborted" =>
        \/ \E p \in HavingBodies : Shrinks(p) \/ \E b \in BlocksOf(p) : b.end = p.end
        \/ TRUE \in Asserts /\ \E p \in AllParticles : 0 \in {p.begin, p.end}
-----------------------------------------------------------------------------
(* What the repository says of the program and the code does not do.       *)

(* The allocation of the shared struct is a statement of its own           *)
(* (test/particle.c): what stands before it is the end of a statement.     *)
AllocationStandsAlone ==
  Printed =>
    \A f \in DOMAIN scopes : \A k \in Places("alloc", f) :
      LET before == {q \in 1..Len(src) :
                       \E j \in 1..(k - 1) : Output[j] = Char(Offset[q] + 1)}
      IN  before # {} => Kind(Max(before)) \in {"lb", "rb", "semi"}

(* The block of a particle is closed in its thread function, as the user's *)
(* block is inside the for loop of test/particle.c: without its brace, the *)
(* one that is to close the endless loop closes the for loop.              *)
UserBlockIsClosed ==
  \A f \in DOMAIN threads : \A t \in ThreadsOf(f) :
    \A p \in AllParticles :
      p.id = t.id /\ Len(p.dimensions) = 1 => Char(Offset[p.end] + 1) \in ToSet(t.user)
=============================================================================
