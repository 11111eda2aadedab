# Knorba: TLA+ specifications

Knorba lets a C++ programmer mark a block of a function with
`#pragma knorba particle grid(n)`. A preprocessor built on clang
(`CXX-Preprocessor`) turns the block into a thread function that runs the block
for every index of a grid, and a one-header runtime (`C-Lib`) fires the grid:
it cuts the indices into one range per CPU and starts one thread per range. A
block after `__synchronized` inside a particle is to be run under a mutex.
`Common` is a library of C++ utilities; nothing else in the repository uses it.

These modules model the runtime, the code that the preprocessor generates, the
preprocessor from the tokens of a file to the file it prints, and the logger, as
the source has them. TLC checks them
on small instances; TLAPS proves every safety property that a passing run checks, of the
runtime, the preprocessor and the logger, for every value of the constants; for
some properties of the preprocessor, about files whose particles do not nest (section 5).

Paths below are relative to `src/`.

## 1. Inventory

### Grid runtime: firing (`C-Lib/include/knorba.h`, 114-165)

- State: locals of `__k_fireParticlesInGrid` (`i`, `offset`, one malloc'ed
  `params` per thread), and the `shared` struct that all `params` point to.
- Operations: prepare a range, `pthread_create`, return; in each thread the
  generated loops. `__k_GridParticleParams_delete` stands behind an endless loop in the
  only code that calls it.
- Interaction: called by `fireParticlesInGrid`; the threads run text that
  `ClangProxy.cpp` (405-415) generates. Nothing joins the threads.
- Hard: threads run while the loop still prepares the others; unsigned
  arithmetic at `offset - 1`; a failed `pthread_create` is ignored.
- Right when: the ranges partition the grid and are balanced; every index runs
  once per pass whatever the interleaving; a failed creation costs only its own
  range.

### Grid runtime: global state (`knorba.h`, 76-105, 168-187)

- State: `__k_system_global` (numCpus, activeParticle, activeParticleArgs) and
  the initialisation flag.
- Operations: `__k_system_init`, `__k_system_setActiveParticle`,
  `fireParticlesInGrid`.
- Interaction: any thread of the user's program may call them, a particle too.
- Hard: no lock anywhere; the flag is tested and set in several steps, the
  particle and its args are two stores, and the particle is tested and then read
  again.
- Right when: nobody divides by an unset numCpus; a set is not undone by another
  caller's initialisation; a fired pair is one that was set.

### Generated code: synchronized updates (`CXX-Preprocessor/src/ClangProxy.cpp`, 405-445)

- State at run time: the shared variable and the mutex of each thread.
- Hard: the mutex is a local of the thread function; the user's block may be left by a
  jump past the unlock.
- Right when: no update is lost; no thread waits forever, at least not for another one.

### Preprocessor: pragma handler and lookahead (`ClangProxy.cpp`, 54-240)

- State: `_syncMacroIdentifierInfo`, `_isInsideSyncBlock`, `_particles`, and
  clang's token cache, its position and its stack of backtrack positions.
- Operations: `MacroDefined`, `MacroExpands`, `HandlePragma`,
  `lexSynchronizedBlock`.
- Interaction: clang's lexer calls the handler in the middle of `Lex`; the
  handler calls `Lex` again, which may expand macros (a callback that sets the
  flag) or meet another pragma (a nested call of the handler); `Backtrack`
  rewinds; the parser then reads the tokens from the cache.
- Hard: re-entrance, flags set by a callback and read after it, a cache filled
  and cleared by different callers.
- Right when: the parser sees every token once, in order; the range of a
  particle and of a block end at the brace that closes them; the scan ends.

### Preprocessor: pragma header (`ClangProxy.cpp`, 85-141; `PragmaParticle.cpp`)

- State: the static counter of particles, the dimensions collected so far.
- Right when: exactly the headers of the grammar are accepted; no two thread
  functions share a name although a header in error may use up a number.

### Preprocessor: scopes and shared variables (`ClangProxy.h`, `ParticleScope.h`, `SharedVariable.h`, `SourceRangeEx.cpp`)

- State: the map from functions to scopes; the variables and the particles of each
  scope.
- Operations: `KnorbaASTVisitor::VisitVarDecl`, which finds the function around a
  `__shared` declaration and creates its scope; the loop that gives particles to
  scopes.
- Interaction: clang's parser builds the AST first; particles come from the pragma
  handler.
- Hard: a scope exists only for a function with a shared variable, so a particle
  elsewhere is dropped without a message; ranges that nest; ranges whose ends were
  never set reach a comparison that asserts.
- Right when: each particle of a function with shared variables is given to the
  scope of that function, and no other.

### Preprocessor: rewriting and code generation (`ClangProxy.cpp`, 328-469)

- State: clang's `RewriteBuffer` (the edited text and the deltas that map original
  offsets into it); the text of a particle.
- Operations: remove the declarations, insert the allocation and the `#define`s,
  replace each particle by a set call, insert the `#undef`s and the thread functions;
  in a thread function, insert lock and unlock texts around synchronized blocks.
- Hard: edits at offsets that earlier edits removed; offsets of lock texts computed
  from a text that earlier insertions changed; the order of the scopes is that of
  addresses; lengths corrected by constants (`+ 2` for the `;`, one less for the
  closing brace).
- Right when: particles are moved into their threads, everything else stays as it
  was, texts that depend on one another come in that order, and each lock text stands
  right before its block and each unlock text right after it.

### Preprocessor: driver (`Preprocessor.cpp`, `ClangDriver.h`, `ast-test.cpp`)

Command line and construction of the clang objects, in a fixed order.

### Common: logger (`Logger.*`, `Streamer.cpp`) and timer (`Timer.*`)

- State: a vector of channels, each with a level, a mute flag and a stream; the open
  message streams, which refer to the vector; a clock base.
- Operations: `log`, `operator<<` of parts and of the end of line, `setLevel`,
  `setSilent`, `addChannel`, `removeAllChannels`; `start` and printing of a timer.
- Hard: each part of a message is a loop over a vector that nothing locks; filters
  are read again for every part; channels are deleted while messages are open; the
  clock base of an unnamed timer is uninitialised, and 0 is a reading of the clock as well
  as the mark of a timer that is not started.
- Right when: a message reaches each channel whole and in order or not at all; a
  removed channel is not written to; a timer is reported as started when it was.

### Common: object pool and smart pointers (`ObjectPool.cpp`, `Ptr.h`, `ManagedPointer.*`, `ManagedObject.cpp`)

Reference counts and a set of live objects. In no build target, and does not compile.

### Common: object dump builder (`ObjectDumpBuilder.*`)

A protocol of calls guarded by a state variable. In no build target.

### Common: value types and exceptions

Wrappers without behaviour of their own.

## 2. What is modelled, and where

| Module | Models | Checked by |
| --- | --- | --- |
| `Grid` | abstract: what a fired grid promises | the target of a refinement |
| `GridFire` | one call of `__k_fireParticlesInGrid` and the threads it starts | `MCGridFire*.cfg` |
| `GridFireProofs` | the theorems about `GridFire` | TLAPS |
| `GridSystem` | the lazy initialisation, set and fire, one load or store per step | `MCGridSystem.cfg` |
| `GridSystemProofs` | the theorems about `GridSystem` | TLAPS |
| `ParticleSync` | the generated lock, update, unlock of several threads | `MCParticleSync*.cfg` |
| `ParticleSyncProofs` | the bounds of the shared sum | TLAPS |
| `PragmaHeader` | the test of the header's tokens and the numbering, as functions | through `PragmaHandler` |
| `PragmaHandler` | the lookahead of the pragma handler on clang's caching lexer; extends `PragmaHeader` | `MCPragmaHandler*.cfg` and through `ParserProxy` |
| `PragmaHandlerProofs` | the automaton accepts the grammar; types, registered particles, the parser's tokens | TLAPS |
| `PragmaBlocksProofs` | the ends of particles, the synchronized blocks | TLAPS |
| `RewriteBuffer` | clang's rewrite buffer, as functions | through `ParserProxy` |
| `ParserProxy` | a whole run of the preprocessor on a file: parse with the lookahead, collect scopes, assign, rewrite, print; extends `PragmaHandler` and `RewriteBuffer` | `MCParserProxy*.cfg` |
| `ParserProxyProofs` | the handler inside the whole run, the scopes' threads and the text of the thread functions: the places of the locks, the aborts | TLAPS |
| `RewriteProofs` | the rewritten file: what is removed, replaced and put in, and where; extends `ParserProxyProofs` | TLAPS |
| `Logger` | the logger's channels and streams, and the timer | `MCLogger*.cfg` |
| `LoggerProofs` | the theorems about `Logger` | TLAPS |

The preprocessor is one chain of modules: `ParserProxy` takes the steps of
`PragmaHandler` as its phase "parse", so that the particles it rewrites are those the
lookahead really recorded, errors of the lookahead included. The runtime modules meet
at the division that ends `GridSystem` and begins `GridFire`; `ParticleSync` is the
body of a particle that `GridFire` runs as one step.

Each `MC...` module extends the module it is named after and only defines
instances. Operators named `Mut...` are plausible bugs of the definition that
follows them, used to see that a property really depends on that definition; no
specification uses them. Properties under the heading "What the repository says
of the program and the code does not do" are the ones TLC refutes (section 4).

### GridFire

`i`, `offset` and `params` are the variables of the loop. `Prepare` is a turn up
to `pthread_create`, `CreateThread` and `CreateFails` its two outcomes, `Return`
the end of the loop. A thread is `tpc[t]`: at the endless loop ("head") or in the
`for` loop ("body"). `EnterPass` starts the `for` loop, `RunParticle`
runs the user's block for one index and increments the counter, `EndPass` leaves
the `for` loop. `runs` counts the
executions of each index and exists only to state the properties.

- VERY_LONG_UINT is `0..Word-1` with arithmetic modulo `Word`; the int argument
  becomes a word by `AsWord`, so -1 is the largest grid.
- The generated text says `while(ture)`; `ture` is defined nowhere, so the
  specification takes the loop that was meant, `while(true)` as in
  `CXX-Preprocessor/test/particle.c`. Nothing leaves it, so what the generated text does
  behind it, `__k_GridParticleParams_delete`, is not in the model.
- For a grid of size 0 every thread gets the range 0..2^64-1, as `offset - 1` wraps. The
  model has this, and `RangesPartition` is false of it; no line of the repository says what
  an empty grid is to do, so it is no finding, and the run `grid_fire` is about other sizes.
- The user's block is one step: what blocks of different threads do to each
  other is `ParticleSync`.
- Left out: `pthread_setaffinity_np` and the thread policy, which change no
  state of the program; the failure of `malloc`, which the code does not test.

### GridSystem

`global` is `__k_system_global` and the flag. The stores of `__k_system_init` are
steps of their own (`InitStore`); `after` says where the caller goes on. In a
build that may reorder the stores (`reordered`: nothing tells the compiler that
another thread looks) any of those left may come next; `todo` holds the positions in
`InitStores` of those left. A cold start and a warm
one (another part of the program called the runtime before) are both initial
states. `Divide` is the `size[0] / numCpus` where `GridFire` begins. `lastSet`,
`outcome` and `overlap` are observers; `overlap` records that an initialisation
ran while another call was in progress.

### ParticleSync

A thread locks the mutex in its own frame (`Mutex(t) == t`), loads, stores and
unlocks. That the generated text is what the model says is taken from the string
constants in `ClangProxy.cpp`. As it stands the text does not compile, so this
module and `GridFire` model what it means once it is corrected to the form of
`CXX-Preprocessor/test/particle.c`: the spelling (`ture`,
`PTHREAD_MUTEXT_INITIALIZER`, `VERY_LONG_UNIT`, `param` for `params`, a mutex passed
without `&`, a `#define` without the space before its parenthesis) and the brace
that closes the user's block, which `string(ubBegin, ubEnd)` (426) leaves out.
Nothing else is corrected: the mutex is local and the counter unsigned. `Jump` is a
`continue`, `break` or `return` of the user inside the block, before or after the update:
the preprocessor inserts the unlock text behind the block only, so the mutex stays locked,
and a thread that runs another particle then waits for itself. `stores` and `jumped` count
what has been stored and note who has jumped, to state the properties.

### PragmaHandler

A file is a sequence of items. `raw` is the file's lexer, `cache` and `cpos` are
clang's `CachedTokens` and `CachedLexPos`; `frames` are the active calls of
`HandlePragma` with their backtrack position, brace counts and ranges. Actions
are what one call of `Preprocessor::Lex` can do: a token from the cache, a token
from the file, a macro definition, an expansion of `__synchronized` (the callback
that sets `_isInsideSyncBlock`), a pragma, and the end of `HandlePragma`
(`FinishPragma`), which rewinds and lexes once more for its caller. `Deliver`
gives a token to the loop that asked for it. `seen` is what the parser gets. The
caching lexer is that of the clang sources the repository carries
(`Third-Party/llvm/tools/clang/lib/Lex/PPCaching.cpp`), read for what it does to the
handler.

### PragmaHeader

`Lexed` is the automaton of the tests in `HandlePragma`: for the test that is due and
the kind of the token, the next test, "accepted" or "rejected"; it is a table, one
record of the next tests per test. `TestOf`, `Accepted`
and `Dimensions` run it along a header; `NextNumber` is the counter after it, which a
header in error may have used up. `Grammatical` and `Names` state the grammar
`particle grid ( id {, id} )` without the automaton.

### RewriteBuffer

A buffer is its edited text, the deltas of the edits made so far and a flag. `Mapped`
moves an offset of the original text by the deltas before it, with clang's rule for
ties: an index is doubled and removals are recorded at the odd one. What clang's tree
computes on demand, the sum of the deltas before an index, is kept for each index. `RemoveText` of a
negative size, or up to or beyond the end of the text, sets `invalid`: in a build
without assertions clang's rope then runs off its end. Clang's B-tree of deltas and its
rope are abstracted to the sum and the sequence they represent, and
`RewriteOptions` to those the code uses (none).

### ParserProxy

`phase` says where the run is. "parse" takes a step of `PragmaHandler` at a time;
`EndParse` is the end of `ParseAST`. `VisitVarDecl` visits the next declaration,
creates the scope of its function if need be and adds the variable; `visited` is the
set of the declarations that have been visited. `Assign` is the
loop over particles and scopes: a build with assertions stops ("aborted") where
clang's comparison of locations meets an invalid one, another build drops the
particle. A scope keeps the set of the places of its particles in `particles`, which is
as good as the vector of the code because `_particles` no longer changes and the loop
goes through it in order. `RewriteScope` does all edits of one scope, `PrintFile` prints.
`threads[f]` gives, for a function that has been rewritten, the thread function of each
of its particles.

- A file is a sequence of items; `Width` and `SpaceAfter` give each token its width and
  the white space after it, `Offset` adds them up. A character of the file is told by its
  place (`Char`), a character of an inserted text by the text and its place in it, so each
  is printed at most once and can be found again. Widths matter only in proportion: a wide token is longer than the
  constants in the code assume, a "glued" one has no space before it, and lock and
  unlock texts are longer than the keyword. Inserted texts are two characters long, so
  that a later edit that cuts one shows.
- The AST (`Functions`, `Declarations`, `Container`) is computed from the items as clang
  would: functions and declarations in the order of the file.
- `scopeMap` is ordered by addresses, so scopes come in any order.
- `std::string::insert` beyond the end throws; nobody catches it ("aborted"). An
  invalid removal ends the model ("undefined").
- The scopes and particles are never deleted (`delete scopeMap` deletes the map only),
  so nothing is deleted twice and destruction is left out.

### Logger

`stream[t]` is the open message of thread `t`, the part that is being written and the
place in the loop over the channels. `Call` begins a loop, `Write` is one turn, `Done`
its end, which for the end of line also deletes the stream. `SetLevel` and `SetSilent`
go through the pointer that `addChannel` or `getDefaultChannel` returned; the latter
stays when the channel is deleted. `undefined` ends the model when the vector changes
under a loop or a deleted channel is used. `removeAllChannels` deletes in a loop and clears
the vector after it; `RemoveAllChannels` is one step, but may end in `undefined` when there
was a channel to delete, for a call of another thread that comes between. `IsStarted` is
`Timer::isStarted`. The time stamp, which `log` writes first, is
a part like others, and the timer is the last part of each message. What is written to
a stream by one `<<` is not cut; the buffer that `localtime` shares is left out.

In the repository only the tests under `Common/test` call the library, from one thread;
the several threads are those of a program that uses it.

## 3. Runs that pass

**`grid_fire`** (`TypeOK`, `RangesPartition`, `Balanced`, `OncePerPass`, `RefinesGrid`,
`RefinesGridLive`, `StartedRangesRun`). 3 CPUs, a word of 8 values, grids of 1, 2, 4 and
-1 particles, 2 passes per thread, at most two failed creations. Sizes below, at and above the number of CPUs and every remainder by 3
occur (-1 is 7); two passes show that the counter starts again; failures can hit any
two threads. `GridFire` implements `Grid` with the same `size` and `runs`; where no
creation fails every index gets all its passes, and a
started range is run to the end whatever happens to the other creations. The theorems
of section 5 remove the bounds of the safety part.

Fairness: the operating system eventually runs the caller and every thread that
can run, which is what POSIX threads of equal priority get on a multi-CPU
machine and all the code relies on. `CreateFails` is never forced.

**`grid_system`** (`TypeOK`, `CpusKnownBeforeDivide`, `FiresWhatWasSet`,
`SetIsNotUndone`, `NeverFiresNull`). Two callers, two particles, two structs, three
calls each, cold and warm starts, builds that keep and that reorder the stores.
Two callers are enough for every pairwise race, and three calls for set, set,
fire or set, fire, fire. Callers, particles and structs are interchangeable, so
symmetry is sound; the run checks no liveness. No fairness is assumed.

What it shows: the order of the stores in `__k_system_init` alone protects
numCpus; a lone caller always fires its last pair; and a program is safe from
dropped grids and null thread functions if its first call of the runtime
completes before another begins. The hypotheses are needed: without `~overlap`
TLC finds a second caller's initialisation that wipes a particle between set and
fire (dropped grid) or between the test and the second read (null thread
function), and in a reordering build the flag can be seen before numCpus is
stored. The source does not say that the runtime may be called by several threads
at a cold start, so these are hazards, not findings.

**`particle_sync`** (`SumWithinBounds`, `EveryThreadEnds`). Three threads, two
particles each. Updates may be lost (section 4), but are never made up, and the
sum cannot fall below 2 once each thread has stored twice. Every thread gets through its
locks unless its own code has jumped past an unlock: since the mutexes are local, a thread
that waits for itself stops no other. Fairness is of each
thread, as above; `Jump` is never forced. Three threads with two updates each are the smallest instance
where one stale store can wipe out several updates of several others.

**`preprocessor`** (`TypeOK`, `ParserSeesSource`, `ParticleEndsAtItsBrace`,
`UsesAreBlocks`, `AcceptsTheGrammar`, `ThreadNamesDiffer`, `ParticlesGetThreads`,
`ParticlesAreMoved`, `RestIsKept`, `TextsInOrder`, `LocksBracketTheBlock`,
`AbortsOnBracedBlocks`, `EveryFileIsParsed`). Four families of files, each aimed at one part of
the chain but taken through all of it:

- every file of at most four items after a macro definition and a pragma, and files
  put together from up to three larger pieces (several particles one after the other,
  nested and plain blocks, blocks before the macro is defined), for the lookahead.
  Braces match or not as they come;
- between two good headers, every header of at most three tokens and every
  continuation of one that begins well by up to four tokens after the parenthesis or
  three after a comma, for the grammar and the numbers;
- one function with up to three statements, two functions one after the other or one
  inside the other, with and without shared variables outside of functions, particles
  with and without a block and with up to two synchronized blocks, for scopes and
  rewriting;
- the same with one statement and a header of two dimensions, for which the code
  generates no loop.

Builds with and without assertions; scopes in every order. `MaxDepth = 1`: a file whose
lookahead meets another pragma stops there (`TooDeep`), as that is where the code goes
wrong (section 4). `Indent = 1`: one space of indentation is enough to see what is cut.

What it shows: in a file with one particle after the other, the parser gets the file
unchanged; particles, blocks and headers are read right; and the printed file has
exactly the particles of functions with shared variables moved into the threads of
their function and everything else in its place, whatever the order of the scopes. The
conditions in the properties are what the code needs, and each was found by TLC. Those
about the shape of the file are `Plain`: a particle in two nested functions, both with
shared variables, is removed twice, the second time with a negative size; a particle
around a function with shared variables, or around the beginning of one, removes or cuts
the texts inserted there; a declaration ends with a `;`, as any that clang has parsed does, and is not interrupted;
a "glued" token after a declaration loses its first character
to the `+ 2`; and after a long token that ends a declaration the removal can take a
character of what follows. `TextsInOrder` needs variables declared before the
particles (else the allocation comes after its use or into a text that is removed); one
synchronized block per particle for the place of the locks (the offsets of the second
are stale). `AbortsOnBracedBlocks` says when the preprocessor dies: for a particle that
ends with a braced block, whose unlock text is inserted beyond the end; for one with
several blocks and so many uses that erasing the keywords makes its text shorter than
the offsets of the next block take it to be; and, with assertions, for a particle without
a block. A block that ends with its particle is no certain end: when it is not the first
one, its unlock may fit into the text that the locks before it made longer, and the file is
printed. That, and that such a block is not the only thing that makes `insert` throw, were
found while the theorems of section 5 were planned, and the files `SeveralBlocks` are in the
run to show it. `LocksBracketTheBlock` takes the text of a particle as the code cuts it, up to
its closing brace; that the brace is missing is the run `rewrite_brace` (section 4). `ParticlesGetThreads` says of the same runs which function gets which thread
function, without a condition on how functions and particles nest.

Fairness: the preprocessor keeps lexing until the end of the file. After that the run
is a sequence of loops over finite lists; the deadlock check shows that it is never
stuck.

**`logger`** (`TypeOK`, `EchoedInEveryChannel`, `NoUseOfDeleted`,
`ElapsedOnlyOnceStarted`). Two threads, two messages of one part and an end of line, two levels (one below and one at
the lowest severity), at most two channels and two other calls, a named and an unnamed
timer, two clock readings of which one is 0. Two messages are enough for one to be
written inside the loop of the other; two changes for a removal and an addition, or for
two changes of a filter in one message. Threads are interchangeable, so symmetry is
sound. No fairness is assumed.

What it shows: parts of two messages mix on a channel, but no message loses, repeats or
reorders its own parts on a channel that is left alone; a filter that changes meanwhile
can cut a message. Channels may be removed between two parts of a message: nothing is
written to the deleted ones. This is for messages that go on after `removeAllChannels` has
returned; a call of another thread that overlaps it ends the model (`undefined`). A timer
with a name is not reported as elapsed before it is started; what is false of timers is in
section 4.

`CHECK_DEADLOCK` is on everywhere: where a model ends, its `Finished` action says
so and allows only stuttering. `PragmaHeader` and `RewriteBuffer` have no
state, so no type invariant.

Bounds, by name: `Word` (width of the integer), `Rounds` (passes of the endless
loop), `MaxFailures` (failed creations), `MaxCalls` (calls of a caller),
`Particles` in `ParticleSync` (particles per thread), `MaxDepth` (lookaheads inside
one another), `MaxMessages`, `MaxChannels`, `MaxChanges` and `Parts` (messages, channels
ever made, other calls and parts of a message in `Logger`).

## 4. Runs that TLC refutes

Each checks one property that the repository states and the code does not keep.

- **`grid_fire_return`** (`GridDoneAtReturn`). The call returns before any particle
  has run; `test/particle.c` uses the result on the next line.
- **`pragma_nested`** (`ParserSeesSource`, `MaxDepth = 2`). A particle inside a
  particle makes the parser read a token twice and the outer scan skip one.
- **`pragma_block`** (`ParticleIsTheBlock`). The closing brace of a braced
  synchronized block is counted for the particle too, so the particle ends there.
- **`rewrite_alloc`** (`AllocationStandsAlone`). The allocation of the shared struct is
  inserted at an offset inside the declaration that was just removed. When the
  declaration ends with a long token, the rewrite buffer maps that offset to a place
  inside the statement in front of it.
- **`rewrite_brace`** (`UserBlockIsClosed`). The text of the user's block that goes into the
  thread function ends before the closing brace, which nothing puts back; in
  `test/particle.c` the whole block is inside the `for` loop.
- **`particle_sync_lost`** (`NoUpdateIsLost`). Each thread locks a mutex of its own.
- **`timer_clock`** (`SaysStartedOnceStarted`). A timer that is started while `clock()` reads
  0 holds what a timer that is not started holds, and `isStarted()` is false.

Two more, seen with TLC and not kept as runs. `Timer()` makes another timer and leaves its
own clock uninitialised, so `isStarted()` may be true of an unnamed timer that is not
started; this is why `ElapsedOnlyOnceStarted` is about named ones. And a use of
`__synchronized` outside of any particle leaves `_isInsideSyncBlock` set, and the next use is then reported
as nested although it is not (`IgnoredIsNested` in `PragmaHandler`). The one use outside of
a particle in the repository, `__synhronize sum += local_sum;` in
`CXX-Preprocessor/test/particle.c` (104), is misspelt, so that the preprocessor does not know
it, and nothing says what is to become of one. The condition `outside = {}` in
`UsesAreBlocks` is there for that reason.

## 5. What is proved

### Firing

`GridFireProofs` proves, for every `Word`, `NumCpus`, `Rounds`, `MaxFailures` and
set of `Sizes`:

| Theorem | Statement |
| --- | --- |
| `TypeCorrect` | `SafeSpec => []TypeOK` |
| `Partition` | `NonEmptyGrids => (SafeSpec => []RangesPartition)` |
| `FairShares` | `NonEmptyGrids => (SafeSpec => []Balanced)` |
| `RunsOncePerPass` | `NonEmptyGrids => (SafeSpec => []OncePerPass)` |
| `Refinement` | `NonEmptyGrids => (SafeSpec => RefinesGrid)` |

Assumptions: `GridFireAssumption` (the word and the number of CPUs are positive
naturals, and so on) and, for all but the first, `NonEmptyGrids`: no size becomes
the word 0, for which the last index wraps (section 2).

Argument. The loop adds shares one by one, and `offset` says nothing of the ranges
already handed out, so `RangesPartition` is not inductive. `Start(n, t)` is the
first index of thread `t` in closed form,
`t * (n \div NumCpus) + min(t, n % NumCpus)`. The lemmas about it are the
arithmetic of the proof: each thread's share takes `Start` from `t` to `t + 1`
(`StartStep`), it is monotone, begins at 0, ends at the size and never wraps
(`StartMonotone`, `StartEnds`, `StartBound`), and is at least 1 after the first
thread, which is where a grid of size 0 breaks (`StartPositive`). The inductive
invariant is

    GridInv == TypeInv /\ RangeInv /\ RunInv

`RangeInv`: `offset` is `Start` of the threads prepared so far, their `params` are
the closed form, and only prepared threads are started. It yields
`RangesPartition` and `Balanced`. `RunInv`: an index owned by a thread at "head"
has run `passes[t]` times; in "body" those below the counter have run
once more; an index nobody started owns has not run. It needs that an index has
one owner (`OneOwner`, from `StartMonotone`), so that a step of one thread cannot
disturb the count of another. It yields `OncePerPass`, and with the guard
`passes[t] < Rounds` the step simulation of `Refinement`: `RunParticle` is a step
`Run(counter[t])` of `Grid`, every other step leaves `size` and `runs` alone.

### Global state

`GridSystemProofs` proves, for every set of `Callers`, `Particles` and `Shareds`, every
number of CPUs and calls, cold and warm starts and both kinds of builds:

| Theorem | Statement |
| --- | --- |
| `TypeCorrect` | `Spec => []TypeOK` |
| `CpusKnown` | `Spec => []CpusKnownBeforeDivide` |
| `LoneCallerFiresItsPair` | `Spec => []FiresWhatWasSet` |
| `SetStays` | `Spec => []SetIsNotUndone` |
| `NoNullParticle` | `Spec => []NeverFiresNull` |

The only assumption is `GridSystemAssumption` (the null pointer is neither a particle
nor a struct, the machine has a CPU, and so on).

Argument. None of the four properties is inductive: they speak of the end of a call and
depend on where every caller is. The inductive invariant is

    IInv == TypeOK /\ Calling /\ PastFlag /\ NothingSet /\ Owing /\ Alone /\ Undisturbed

`PastFlag`: whoever is past `__k_system_init` finds the flag set (it is never cleared).
`NothingSet` follows: before the flag is set nobody has completed a set call. `Owing`: what
a caller in the initialisation has not stored it still has to store; so when the flag is
set, numCpus is known or, in a build that reorders, some caller still owes it. With
`PastFlag` this is `CpusKnownBeforeDivide` for a build that keeps the order; for another
one `Alone` adds that while a caller initialises the others are idle, so none divides.
`Alone` also says that an initialisation without overlap meets no pair that has been set,
so the nulls it stores undo nothing, and that a caller that passed the guard has a
particle in the global and then in `arg`. It needs `Calling`: a set call brings a real
particle. `Undisturbed` relates the global to the last set call of a caller that is the
only one to have called. TLC checked `IInv` on the instance of `grid_system` first.

The positions of the stores that are left (`todo`) are a set and not a sequence so that
no fact about sequences is needed.

### Logger

`LoggerProofs` proves, for every number of threads, channels, messages, parts and other
calls:

| Theorem | Statement |
| --- | --- |
| `TypeCorrect` | `Spec => []TypeOK` |
| `NoDeletedChannel` | `Spec => NoUseOfDeleted` |
| `TimerIsTold` | `Spec => ElapsedOnlyOnceStarted` |
| `MessagesAreEchoed` | `Spec => EchoedInEveryChannel` |

The only assumption is `LoggerAssumption`. The inductive invariant is

    IInv == Domains /\ Living /\ Streaming /\ Timing

`Living`: every channel in the vector is alive and has an output; channels die only in
`removeAllChannels`, which empties the vector in the same call. `Streaming`: an open stream
is at a part of its message and, until the vector changes under a loop, at a place of the
vector. Together they give `Turn`: a turn of a loop meets a living channel and at most
appends one part to its output. `Timing`: only `start()` sets the clock of a named timer.
`NoUseOfDeleted` and `ElapsedOnlyOnceStarted` follow from it, one action at a time.

`EchoedInEveryChannel` relates the end of a message to all that happened since its
beginning and needs a second invariant, `EchoInv`, which holds together with `IInv`:
until the code meets undefined behaviour, `Echoing`. Each channel is in the vector once;
nothing is shown of messages to come; an open message has one stream; and in each channel
the message still concerns, that stream has shown exactly the parts up to `Reached`, the
part that its loop has begun there, or nothing when the filter is against them. Within a
loop the channels before the place of the stream are one part ahead of those behind it, so
the invariant is about places of the vector and not about the channels alone. Another
stream's turn adds a part of another message (`AppendOther`), the stream's own turn the
part that is due (`AppendPart`); a filter that changes, or a vector that does, takes its
channels out of the concern of every open message (`LessConcerned`). TLC checked the parts
of `IInv` and `EchoInv` on the instance of `logger` first.

### Synchronized updates

`ParticleSyncProofs` proves `SumStaysWithinBounds`, `Spec => []SumWithinBounds`, for every
finite set of `Threads` that is not empty and every number of `Particles`
(`ParticleSyncAssumption`).

Argument. The bound is a sum over the threads, which the module takes from the community
modules as a fold over a set. `SumExists` shows that the fold has a value on every finite
set: the sets with at most n members have one, for each n, and these n are a set of numbers
that contains 0 and with each number the next. `SumGrows` then gives what a step needs: adding
1 to one term adds 1 to the sum. The inductive invariant has two parts. `NoneMadeUp`: the
sum, and what any thread has loaded, is at most the number of stores so far. `SomeKept`:
the sum is not 0 once a thread has stored, nor is what a thread that has stored before
loads, so that its next store leaves 2 or more; hence the sum is at least 2 when all
threads have stored twice. A jump out of a block changes neither the sum nor the stores.

### Pragma header

The head of `PragmaHandlerProofs` proves, for headers of any length:

| Theorem | Statement |
| --- | --- |
| `HeaderAccepted` | `Accepted(h) <=> Grammatical(h)` |
| `DimensionsAreNames` | `Grammatical(h) => Dimensions(h) = Names(h)` |

The automaton is a recursive function of the place in the header. What it does on a header
of the grammar is a set of places closed under the next one; conversely, from the test
that is due at a place follows which kinds stand at the places before it.

### Pragma handler

`PragmaHandlerProofs` and `PragmaBlocksProofs` prove, for every set of `Sources`, that is,
files of any length with any braces, headers and uses:

| Theorem | Statement | for |
| --- | --- | --- |
| `HandlerTyped` | `Spec => []TypeOK` | any `MaxDepth` |
| `GrammarAccepted` | `Spec => []AcceptsTheGrammar` | any `MaxDepth` |
| `ThreadsDiffer` | `Spec => []ThreadNamesDiffer` | any `MaxDepth` |
| `ParserUndisturbed` | `Spec => []ParserSeesSource` | `MaxDepth = 1` |
| `BlocksMatched` | `Spec => []ParticleEndsAtItsBrace` | `MaxDepth = 1` |
| `UsesBecomeBlocks` | `Spec => []UsesAreBlocks` | `MaxDepth = 1` |

Assumptions: `PragmaHandlerAssumption` (files are sequences of items). `MaxDepth = 1` is
not a bound on the files: a file whose lookahead meets another pragma stops there
(`TooDeep`), so these theorems are about files whose particles do not nest, and about the
part before the first nested pragma of the others. For nested particles
`ParserSeesSource` is false (run `pragma_nested`).

Argument. `TypeInv` holds the types and, of the frames, that their backtrack positions
are in order and that what they count is positive while they count it. `Registered` holds
for any depth: the numbers of the particles and of the active frames differ and are below
the counter, and their lines are the accepted headers read so far. It needs the two
theorems about headers.

For `ParserUndisturbed`, `seen` alone is not inductive. `TokensInOrder` says what the cache
is: its tokens, from the backtrack position on, are those of the file one after the other,
the first follows the last that the parser got, and the last is the last token the lexer
read. Then a token from the cache, one from the file and a `Backtrack` each give the
parser the next token, also when a lookahead begins in the middle of the cache that the
one before left. For `BlocksMatched`, the braces a frame has counted are those of the
file between its first brace and the lexer, as long as none was counted in a block
(`BracesCounted`); the number of braces in a range is a cardinality, taken one item at
a time (`BracesSteps`). For `UsesBecomeBlocks`, the flag that `MacroExpands` sets
stays set from a use until its block has been read, and only then (`FlagIsRight`); the
blocks so far are those of the uses so far, the last of them perhaps still being read
(`UsesCounted`). Both only as long as no use stands outside of a particle.

TLC checked these invariants, `ProxyInv` and `SpansInOrder` below on every single
statement, short file and pair of pieces of the run `preprocessor`.

The lemmas of these theorems (`TypeKept`, `SourceKept`, ...) are stated for
`HandlerRuns == Init /\ [][Next]_vars`, without fairness, so that they apply to
`ParserProxy`.

### Scopes and rewriting

`ParserProxyProofs` and `RewriteProofs` prove, for every set of `Sources`, every `Indent`
and both kinds of builds:

| Theorem | Statement | for |
| --- | --- | --- |
| `RunsTheHandler` | `ProxySpec => Init /\ [][Next]_vars` | any `MaxDepth` |
| `HandlerIsSafe` | `ProxySpec => [](TypeOK /\ AcceptsTheGrammar /\ ThreadNamesDiffer)` | any `MaxDepth` |
| `HandlerIsSafeFlat` | `ProxySpec => [](ParserSeesSource /\ ParticleEndsAtItsBrace /\ UsesAreBlocks)` | `MaxDepth = 1` |
| `ThreadsAreGiven` | `ProxySpec => []ParticlesGetThreads` | any `MaxDepth` |
| `AbortsAreExplained` | `ProxySpec => []AbortsOnBracedBlocks` | `MaxDepth = 1` |
| `LocksAreRight` | `ProxySpec => []LocksBracketTheBlock` | `MaxDepth = 1` |
| `FileIsKept` | `ProxySpec => []RestIsKept` | `MaxDepth = 1` |
| `ParticlesAreReplaced` | `ProxySpec => []ParticlesAreMoved` | `MaxDepth = 1` |
| `TextsAreInOrder` | `ProxySpec => []TextsInOrder` | `MaxDepth = 1` |

Argument. `RunsTheHandler` is a refinement without a mapping: `Parse` is a step of the
handler, every other action leaves its variables alone, so what is proved of the handler
holds when the visitor and the rewriter read what it has collected. `ProxyInv` says which
scopes exist and what they hold in each phase: one for each function with a declaration
visited so far; once the particles are given out, exactly the particles within; and a
scope that has been rewritten has a thread for each of them, whose text is what the loop
over the blocks made of the particle (`GetsThreads`); and, when the rewriting has been given
up, why (`GivenUp`). Only the conjunction is
inductive: the particles of a scope are given out in one step, but its variables come one
by one before it and its threads after it, in any order of the scopes. That two
thread functions with the same number are of the same particle is `Registered`.

`AbortsAreExplained` says that nothing else makes `insert` throw. A turn of the loop
over blocks adds the nine characters of the lock texts and then erases keywords, so the
question is how short the text can become before the next insertion. What is erased are
characters of keywords of the particle only (`EraseKeeps`: every other character and every
character of a lock text stays, shown for texts of any length), which are at most two for
each use between its braces (`FewKeywords`, by the cardinality of the set of their places).
So the text is at least as long as it was at first, less twice the number of uses, plus
nine for each block done (`RoomForLocks`), and a block that ends before the closing brace
finds room unless the particle has several blocks and more uses than the lock texts make up
for (`LocksFit`). It needs that a particle that is closed begins before it ends
(`SpansInOrder`): the frame is fed the items of the file in order, which is where
`MaxDepth = 1` comes in - with a nested lookahead the outer frame can be fed what the inner
one has already gone beyond.

`LocksAreRight` computes the text of a thread whose particle has one block. A block that
ends with its particle cannot be in the text: its unlock would go one character beyond it,
whatever the widths are (`LastBlockThrows`). The block begins
and ends at tokens, so no keyword lies across its edges (`EdgeIs`, `EdgesWhole`: what stands
before and behind an edge is a token of its own or white space); erasing keywords works on
the three pieces between the lock texts separately (`EraseAround`), and on each piece it
leaves exactly the characters that are not of a keyword, in order (`EraseRun`). The pieces
are found again in the text by their lengths (`PiecesAre`).

`FileIsKept`, `ParticlesAreReplaced` and `TextsAreInOrder` are about the whole printed file.
The scopes are rewritten in any order, each removes its declarations and replaces its
particles one after the other, and an edit finds its place through the deltas that all
edits before it have left. The invariant is in two layers.

- `Maps` is about the rewrite buffer alone, over texts and edits of any length. Every
  character has a *rank*: a character of the file twice its place, one of an inserted text
  the place (an odd number) where the text goes. The text is always sorted by rank
  (`Sorted`), and the two places that the deltas give for an offset of the file, before and
  after what has been inserted there, are the cuts of the text at the two ranks of the offset
  (`CutAt`) - except for offsets inside of what has been removed. `RemoveKeeps` and
  `InsertKeeps` show that a removal between two offsets and an insertion keep it. Inserting
  at an offset that was lost is covered as well, because the code does so: a particle's call
  goes to its last character, which has just been removed, and the allocation to the end
  of the last declaration.
- `Edits` says which characters are there, given the sets of declarations, particles and
  texts done so far and not the order in which they were done. `ScopeRewritten` shows that
  the whole handler of a scope takes the buffer from the edits of some scopes to those of
  these and one more. That the ranges do not disturb each other is the condition `Plain`
  (`VarsApart`, `PartsApart`, `OutsideBraces`), together with `SpansInOrder` and `Registered`.

`BufferInv` is the invariant of the run: the buffer is that of the file while it is parsed,
and in a plain file that of the scopes rewritten so far, and no removal is ever invalid. It
needs to know what a scope's list holds and in which order (`VarsInv`): exactly the
declarations of the function that have been visited, the last in the file last, as the
allocation goes behind the last in the list. `FileInv` is their conjunction with the
invariants above and inductive; TLC checked `Maps`, `Edits` and `VarsInv` on all reachable
states of `preprocessor` before they were proved. What is printed then follows without
another induction: the places of a text in a sorted output are where their ranks are
(`ShownInOrder`), and what remains is told by `IsCut`.

Two changes of `ParserProxy` came from these proofs. `Plain` now says that a declaration
ends with a `;`: the proof needs it for a file that breaks off inside of a declaration,
which clang would have refused. And chains of tests that were written as `CASE` are
written as `IF`, in the order of the code.

### Only model-checked

- Liveness and `ENABLED` (`RefinesGridLive`, `StartedRangesRun`, `EveryThreadEnds`,
  `EveryFileIsParsed`), which the proof system does not reach.

Every safety property that a passing run checks is stated by a theorem.

Induction over data is not out of reach altogether. The induction theorems of the library
cannot be instantiated, but the facts that hold of a number can be a set, and a set of
naturals that contains 0 and with each number the next is all of them (`InductiveSet`,
from the least number that is not in it). Headers, sums, braces, offsets and the loop over
blocks are done like that. It is the reason why `visited`, the scopes' particles and the
functions of `ParserProxy` are sets and explicit functions and why recursion is written
as a recursive function throughout.

## 6. Not modelled

- `Third-Party` (LLVM and clang): vendored. The caching lexer and the rewrite buffer are
  modelled as far as the preprocessor drives them; the parser and the AST are taken to
  do what the language says.
- CPU affinity and the thread policy, the driver, the demonstration `ast-test.cpp`, value
  types and exceptions: no behaviour to check.
- Text: names, types and layout of the generated code, messages, options. The
  generated loops and locks are modelled by what they do at run time, and the places of
  generated texts in the file by `ParserProxy`.
- The second and later dimensions of a grid: the runtime uses `size[0]` only, and the
  preprocessor generates a loop for one dimension only.
- The object pool, the smart pointers and the arrays of `Common`: in no build target
  (commented out in `Common/CMakeLists.txt`), and the files do not compile (undeclared
  members, functions that return nothing, signatures that do not match), so there is no
  behaviour to be faithful to.
- The object dump builder: in no build target either, and the guards of its protocol
  (`_state != OBJECT || _state != OBJECT_BODY`) are always true, so every call is refused.
- What follows an invalid removal in the rewrite buffer, or a change of the logger's
  vector under a loop: undefined behaviour without a
  useful set of outcomes; the models end there and say so.
- `localtime`'s shared buffer: a race inside the C library about the text of a time
  stamp.

## 7. What could come next

- `GridRuntime`: `GridSystem` composed with `GridFire`, so that a particle fires a grid of
  its own and the caller's later `setActiveParticle` meets threads that still run. Today
  the two meet at `Divide`, which changes nothing of either.
- The lookahead on files with particles inside particles, should the rewinding be
  repaired: `MaxDepth` is a constant and the properties are stated for any depth.
- Two dimensions, when the preprocessor generates loops for them.
- Proofs: the rewriting of particles with several blocks, whose locks are misplaced today;
  the bound on the sum for any subset of the threads that have ended.
