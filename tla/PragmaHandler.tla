--------------------------- MODULE PragmaHandler ----------------------------
(***************************************************************************)
(* KnorbaAgentPragmaHandler (src/CXX-Preprocessor/src/ClangProxy.cpp) and  *)
(* the part of clang's preprocessor it is called from: how the tokens of a *)
(* file reach the parser while "#pragma knorba particle" looks ahead for   *)
(* the block that follows it and for the synchronized blocks inside, and   *)
(* then rewinds with Backtrack.                                            *)
(*                                                                         *)
(* A source is a sequence of items with a kind: the tokens "lb" "rb"       *)
(* "semi" and others, "sync" (a use of __synchronized), "define" (the      *)
(* definition of that macro) and "pragma" (a line with a header, read as   *)
(* in module PragmaHeader).  A token is the position of its item;          *)
(* Len(src) + 1 is the end of the file.                                    *)
(***************************************************************************)
EXTENDS Integers, Sequences, SequencesExt, FiniteSets, PragmaHeader

CONSTANTS Sources,   \* the files
          MaxDepth   \* bound on lookaheads inside one another

(* The end of the file is not an item and "eod" not in a header.           *)
Item == [kind : STRING \ {"eof"}, header : Seq(Kinds \ {"eod"})]

ASSUME PragmaHandlerAssumption ==
  /\ MaxDepth \in Nat \ {0}
  /\ Sources \subseteq Seq(Item)

VARIABLES
  src,        \* the file
  raw,        \* the next item that the file's lexer reads
  cache,      \* CachedTokens
  cpos,       \* CachedLexPos
  frames,     \* the active calls of HandlePragma, the innermost last
  known,      \* _syncMacroIdentifierInfo # 0
  inSync,     \* _isInsideSyncBlock
  counter,    \* PragmaParticle::_counter
  particles,  \* _particles
  seen,       \* the tokens given to the parser (observer)
  ignored,    \* the uses reported as nested blocks (observer)
  outside     \* the uses expanded where no particle's block is scanned (observer)

vars == <<src, raw, cache, cpos, frames, known, inSync, counter, particles,
          seen, ignored, outside>>

Eof == Len(src) + 1

Kind(t) == IF t >= Eof THEN "eof" ELSE src[t].kind

HeaderOf(line) == src[line].header

InHandler == frames # <<>>
Top       == frames[Len(frames)]
Outer     == SubSeq(frames, 1, Len(frames) - 1)

Init ==
  /\ src \in Sources
  /\ raw = 1
  /\ cache = <<>>
  /\ cpos = 0
  /\ frames = <<>>
  /\ known = FALSE
  /\ inSync = FALSE
  /\ counter = 1
  /\ particles = <<>>
  /\ seen = <<>>
  /\ ignored = {}
  /\ outside = {}
-----------------------------------------------------------------------------
(* Operators named Mut... are plausible bugs of the definition that follows *)
(* them; no specification uses them.                                       *)

(* The loops of HandlePragma and lexSynchronizedBlock, one token at a      *)
(* time.  A frame is in mode "open" until it has its first token, in       *)
(* "scan" in the loop that counts braces, in "braced" or "line" inside     *)
(* lexSynchronizedBlock, and "done" when the loop is left.                 *)

(* The PragmaParticle of a line, its locations 0 until they are set, and   *)
(* the locals of its scan, which backtracks to a position of the cache.    *)
Frame(line, mark) ==
  [line |-> line, id |-> counter, dimensions |-> Dimensions(HeaderOf(line)),
   begin |-> 0, end |-> 0, blocks |-> <<>>,
   mark |-> mark, mode |-> "open", braces |-> 0, inner |-> 0, start |-> 0]

(* The cache is taken to be empty when a lookahead begins.                 *)
MutNewFrame(line) == Frame(line, 0)

(* A call of HandlePragma past its header: EnableBacktrackAtThisPos.       *)
NewFrame(line) == Frame(line, cpos)

(* What is left of a call when it returns: its PragmaParticle.             *)
Particle(f) == [line |-> f.line, id |-> f.id, dimensions |-> f.dimensions,
                begin |-> f.begin, end |-> f.end, blocks |-> f.blocks]

Brace(t) == CASE Kind(t) = "lb" -> 1 [] Kind(t) = "rb" -> -1 [] OTHER -> 0

(* The loop stops only at a brace.                                         *)
MutLeave(f, t) ==
  IF f.braces = 0
  THEN [f EXCEPT !.mode = "done", !.end = IF Kind(t) = "rb" THEN t ELSE @]
  ELSE [f EXCEPT !.mode = "scan"]

(* The loop stops at brace count 0 or at the end of the file; setEnd only  *)
(* when it stopped at a brace.                                             *)
Leave(f, t) ==
  IF f.braces = 0 \/ Kind(t) = "eof"
  THEN [f EXCEPT !.mode = "done", !.end = IF Kind(t) = "rb" THEN t ELSE @]
  ELSE [f EXCEPT !.mode = "scan"]

(* The opening brace of a block inside the particle is not counted.        *)
MutCount(f, t) ==
  Leave([f EXCEPT !.braces = IF Kind(t) = "lb" THEN @ ELSE @ + Brace(t)], t)

Count(f, t) == Leave([f EXCEPT !.braces = @ + Brace(t)], t)

(* The block ends at t; back in HandlePragma t is also counted as a brace. *)
EndBlock(f, t) ==
  Count([f EXCEPT !.blocks = Append(@, [begin |-> f.start, end |-> t])], t)

(* The opening brace of the particle is not counted.                       *)
MutOpen(f, t) ==
  IF Kind(t) = "lb"
  THEN [f EXCEPT !.mode = "scan", !.begin = t]
  ELSE Leave(f, t)

Open(f, t) ==
  IF Kind(t) = "lb"
  THEN [f EXCEPT !.mode = "scan", !.braces = 1, !.begin = t]
  ELSE Leave(f, t)

(* lexSynchronizedBlock(t): a braced block or one that ends at `;'.        *)
BeginBlock(f, t) ==
  LET g == [f EXCEPT !.start = t] IN
  CASE Kind(t) = "lb"            -> [g EXCEPT !.mode = "braced", !.inner = 1]
    [] Kind(t) \in {"semi", "eof"} -> EndBlock(g, t)
    [] OTHER                     -> [g EXCEPT !.mode = "line"]

Braced(f, t) ==
  LET n == f.inner + Brace(t) IN
  IF n = 0 \/ Kind(t) = "eof" THEN EndBlock(f, t) ELSE [f EXCEPT !.inner = n]

Line(f, t) == IF Kind(t) \in {"semi", "eof"} THEN EndBlock(f, t) ELSE f

Feed(f, t) ==
  CASE f.mode = "open"             -> Open(f, t)
    [] f.mode = "scan" /\ inSync   -> BeginBlock(f, t)
    [] f.mode = "scan" /\ ~inSync  -> Count(f, t)
    [] f.mode = "braced"           -> Braced(f, t)
    [] f.mode = "line"             -> Line(f, t)

(* The flag is left set when the block has been read.                      *)
MutFlag(f, t) == inSync

(* _isInsideSyncBlock after frame f has been fed t: cleared when           *)
(* lexSynchronizedBlock returns.                                           *)
Flag(f, t) == inSync /\ Len(Feed(f, t).blocks) = Len(f.blocks)

(* Whoever called Lex gets token t: the parser, or the last of fs.         *)
Deliver(fs, t) ==
  IF fs = <<>>
  THEN frames' = fs /\ seen' = Append(seen, t) /\ UNCHANGED inSync
  ELSE LET f == fs[Len(fs)] IN
       /\ frames' = [fs EXCEPT ![Len(fs)] = Feed(f, t)]
       /\ inSync' = Flag(f, t)
       /\ UNCHANGED seen
-----------------------------------------------------------------------------
(* Preprocessor::Lex.                                                      *)

ParserDone == seen # <<>> /\ seen[Len(seen)] = Eof

Lexing == ~ParserDone /\ (InHandler => Top.mode # "done")

(* CachingLex: a token that has been lexed before, without callbacks.      *)
LexCached ==
  /\ Lexing
  /\ cpos < Len(cache)
  /\ cpos' = cpos + 1
  /\ Deliver(frames, cache[cpos + 1])
  /\ UNCHANGED <<src, raw, cache, known, counter, particles, ignored, outside>>

FromFile == Lexing /\ cpos = Len(cache)

(* A token of the file: cached while a backtrack is enabled; otherwise the *)
(* cache, which has been consumed, is cleared.                             *)
LexToken ==
  /\ FromFile
  /\ raw <= Eof
  /\ Kind(raw) \notin {"define", "pragma"}
  /\ ~(Kind(raw) = "sync" /\ known)
  /\ raw' = raw + 1
  /\ IF InHandler THEN cache' = Append(cache, raw) /\ cpos' = cpos + 1
                  ELSE cache' = <<>> /\ cpos' = 0
  /\ Deliver(frames, raw)
  /\ UNCHANGED <<src, known, counter, particles, ignored, outside>>

(* MacroDefined                                                            *)
LexDefine ==
  /\ FromFile
  /\ Kind(raw) = "define"
  /\ raw' = raw + 1
  /\ known' = TRUE
  /\ UNCHANGED <<src, cache, cpos, frames, inSync, counter, particles, seen,
                 ignored, outside>>

(* MacroExpands; the macro is empty, so no token is delivered.             *)
LexSync ==
  /\ FromFile
  /\ Kind(raw) = "sync"
  /\ known
  /\ raw' = raw + 1
  /\ inSync' = TRUE
  /\ ignored' = IF inSync THEN ignored \cup {raw} ELSE ignored
  /\ outside' = IF InHandler /\ Top.mode # "open" THEN outside
                ELSE outside \cup {raw}
  /\ UNCHANGED <<src, cache, cpos, frames, known, counter, particles, seen>>

(* HandlePragma returns from its header; what it has created is leaked.    *)
LexBadPragma ==
  /\ FromFile
  /\ Kind(raw) = "pragma"
  /\ ~Accepted(HeaderOf(raw))
  /\ raw' = raw + 1
  /\ counter' = NextNumber(HeaderOf(raw), counter)
  /\ UNCHANGED <<src, cache, cpos, frames, known, inSync, particles, seen,
                 ignored, outside>>

LexPragma ==
  /\ FromFile
  /\ Kind(raw) = "pragma"
  /\ Accepted(HeaderOf(raw))
  /\ Len(frames) < MaxDepth
  /\ raw' = raw + 1
  /\ frames' = Append(frames, NewFrame(raw))
  /\ counter' = NextNumber(HeaderOf(raw), counter)
  /\ UNCHANGED <<src, cache, cpos, known, inSync, particles, seen, ignored,
                 outside>>

(* Preprocessor::Backtrack                                                 *)
Backtrack(f) == f.mark

(* The end of HandlePragma: the particle is inserted, Backtrack, and the   *)
(* lexer that met the pragma lexes again for its caller, from the cache.   *)
(* A caller with a backtrack of its own caches that token once more.       *)
FinishPragma ==
  /\ InHandler
  /\ Top.mode = "done"
  /\ particles' = Append(particles, Particle(Top))
  /\ LET mark == Backtrack(Top)
         t    == cache[mark + 1]
     IN  /\ Deliver(Outer, t)
         /\ CASE Outer # <<>> -> cache' = Append(cache, t) /\ cpos' = mark + 2
              [] Outer = <<>> /\ mark + 1 < Len(cache) ->
                   cache' = cache /\ cpos' = mark + 1
              [] OTHER -> cache' = <<>> /\ cpos' = 0
  /\ UNCHANGED <<src, raw, known, counter, ignored, outside>>

(* The model goes no further: a lookahead deeper than MaxDepth, or a Lex   *)
(* past the end of the file, which only a nested lookahead can ask for.    *)
TooDeep == /\ FromFile
           /\ Kind(raw) = "pragma"
           /\ Accepted(HeaderOf(raw))
           /\ Len(frames) = MaxDepth
PastEof == FromFile /\ raw > Eof

Finished == (ParserDone \/ TooDeep \/ PastEof) /\ UNCHANGED vars

Step == \/ LexCached \/ LexToken \/ LexDefine \/ LexSync \/ LexBadPragma
        \/ LexPragma \/ FinishPragma

Next == Step \/ Finished

Spec == Init /\ [][Next]_vars /\ WF_vars(Step)
-----------------------------------------------------------------------------
(* What the file says, without the lexer.                                  *)

Positions == 1..Eof

Least(S, none) ==
  IF S = {} THEN none ELSE CHOOSE n \in S : \A m \in S : n <= m

(* A use of __synchronized is a macro once the macro is defined.           *)
IsUse(q) == Kind(q) = "sync" /\ \E d \in 1..(q - 1) : Kind(d) = "define"

IsToken(q) == /\ Kind(q) \notin {"define", "pragma"}
              /\ ~IsUse(q)

NextToken(q) == Least({t \in (q + 1)..Eof : IsToken(t)}, 0)

Braces(k, first, last) == Cardinality({q \in first..last : Kind(q) = k})

(* The brace that closes the one at b, or none.                            *)
Matching(b, none) ==
  Least({e \in b..Len(src) : /\ Kind(e) = "rb"
                             /\ Braces("lb", b, e) = Braces("rb", b, e)}, none)

(* Where a synchronized block that begins at b should end.                 *)
BlockEnd(b) ==
  IF Kind(b) = "lb" THEN Matching(b, Eof)
  ELSE Least({q \in b..Len(src) : Kind(q) = "semi"}, Eof)

BlocksOf(p) == ToSet(p.blocks)

AllParticles == ToSet(particles)

AllBlocks == UNION {BlocksOf(p) : p \in AllParticles}
-----------------------------------------------------------------------------
TypeOK ==
  /\ raw \in 1..(Eof + 1)
  /\ \A n \in 1..Len(cache) : cache[n] \in Positions
  /\ cpos \in 0..Len(cache)
  /\ \A n \in 1..Len(frames) :
       /\ frames[n].mark \in 0..cpos
       /\ frames[n].mode \in {"open", "scan", "braced", "line", "done"}
       /\ frames[n].braces \in Nat
  /\ inSync \in BOOLEAN /\ known \in BOOLEAN
  /\ ignored \cup outside \subseteq Positions

(* The lookahead of the pragma handler does not disturb the parser: each   *)
(* token that it gets is the one that follows the token before it in the   *)
(* file, whatever was cached, replayed and cleared before.                 *)
ParserSeesSource ==
  \A n \in 1..Len(seen) : seen[n] = NextToken(IF n = 1 THEN 0 ELSE seen[n - 1])

(* The range of a particle that begins at a brace ends at the brace that   *)
(* closes it, as long as its synchronized blocks contain no braces.        *)
ParticleEndsAtItsBrace ==
  \A p \in AllParticles :
    /\ p.begin # 0
    /\ \A b \in BlocksOf(p) : \A q \in b.begin..b.end : Brace(q) = 0
    => p.end = Matching(p.begin, 0)

(* In a file that uses __synchronized only inside particles, each use      *)
(* becomes exactly one block, from the token after it to the brace that    *)
(* closes it or to the `;', except the uses inside another block, and only *)
(* those, which are reported and ignored.                                  *)
UsesAreBlocks ==
  ~InHandler /\ outside = {} =>
    LET uses == {q \in 1..(raw - 1) : IsUse(q)} IN
    /\ {b.begin : b \in AllBlocks} = {NextToken(q) : q \in uses \ ignored}
    /\ \A b \in AllBlocks : b.end = BlockEnd(b.begin)
    /\ \A q \in ignored : \E u \in uses \ ignored :
         u < q /\ q < BlockEnd(NextToken(u))

(* A header is accepted when it is one of the grammar, and the particle    *)
(* then has its dimensions in the order they are written.                  *)
AcceptsTheGrammar ==
  ~InHandler =>
    /\ {p.line : p \in AllParticles} =
         {q \in 1..(raw - 1) : Kind(q) = "pragma" /\ Grammatical(HeaderOf(q))}
    /\ \A p \in AllParticles : p.dimensions = Names(HeaderOf(p.line))

(* No two particles share the name of a thread function, whatever headers  *)
(* in error stand between them.                                            *)
ThreadNamesDiffer ==
  \A m, n \in 1..Len(particles) : m # n => particles[m].id # particles[n].id

(* Every lookahead comes to an end and the parser reaches the end of the   *)
(* file, unless the file nests particles deeper than the bound.            *)
EveryFileIsParsed == <>(ParserDone \/ TooDeep)
-----------------------------------------------------------------------------
(* What the repository says of the program and the code does not do.       *)

(* The particle is the block that follows the pragma (test/particle.c).    *)
ParticleIsTheBlock ==
  \A p \in AllParticles : p.begin # 0 => p.end = Matching(p.begin, 0)

(* A use that is reported as a nested synchronized block is inside one.    *)
IgnoredIsNested ==
  ~InHandler =>
    \A q \in ignored : \E b \in AllBlocks :
      NextToken(q) \in b.begin..b.end
=============================================================================
