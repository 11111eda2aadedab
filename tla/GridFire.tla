------------------------------ MODULE GridFire ------------------------------
(***************************************************************************)
(* One call of __k_fireParticlesInGrid (src/C-Lib/include/knorba.h): the   *)
(* loop that cuts the grid into one range per CPU and starts a thread for  *)
(* each, interleaved with the threads it starts.  A thread runs the text   *)
(* that the preprocessor generates for a one-dimensional particle          *)
(* (ClangProxy.cpp):                                                       *)
(*                                                                         *)
(*    while(true)                                                          *)
(*      for(VERY_LONG_UINT c = params->begin; c <= params->end; c++)       *)
(*        the user's block                                                 *)
(*                                                                         *)
(* in the form of test/particle.c: the text as generated does not compile, *)
(* for its spelling `ture' and because the brace that closes the block is  *)
(* missing.  The loop is endless, so nothing behind it in the generated    *)
(* text is reached.                                                        *)
(* VERY_LONG_UINT is the set 0..Word-1 and wraps; Word stands for 2^64.    *)
(***************************************************************************)
EXTENDS Integers

CONSTANTS Word,         \* the number of values of VERY_LONG_UINT
          NumCpus,      \* __k_system_global.numCpus
          Sizes,        \* the int arguments of fireParticlesInGrid
          Rounds,       \* bound on the passes of a thread's endless loop
          MaxFailures   \* bound on the failures of pthread_create

ASSUME GridFireAssumption ==
  /\ Word \in Nat \ {0}
  /\ NumCpus \in Nat \ {0}
  /\ Sizes \subseteq Int
  /\ Rounds \in Nat \ {0}
  /\ MaxFailures \in Nat

VARIABLES
  size,      \* size[0]
  pc,        \* of the caller: "prepare", "create" or "returned"
  i,         \* the thread the caller prepares next
  offset,    \* the first index not yet given to a thread
  params,    \* params[t]: the range malloc'ed for thread t
  tpc,       \* of thread t: "none", "head" or "body"
  counter,   \* __k_counter of thread t
  passes,    \* passes that thread t has completed
  runs,      \* runs[k]: executions of the particle with index k (observer)
  failures   \* pthread_create calls that have failed

callerVars == <<size, pc, i, offset, params, failures>>
vars == <<size, pc, i, offset, params, tpc, counter, passes, runs, failures>>

Words == 0..(Word - 1)
Cpus  == 0..(NumCpus - 1)

(* Operators named Mut... are plausible bugs of the definition that follows *)
(* them; no specification uses them.                                       *)

MutAsWord(int) == int

(* sizeArray[0] = size: an int converted to VERY_LONG_UINT.                *)
AsWord(int) == int % Word

ParticlesPerCpu    == size \div NumCpus
RemainderParticles == size % NumCpus

MutNumParticles(t) ==
  IF t <= RemainderParticles THEN ParticlesPerCpu + 1 ELSE ParticlesPerCpu

MutLastTakesRemainder(t) ==
  IF t = NumCpus - 1 THEN ParticlesPerCpu + RemainderParticles
  ELSE ParticlesPerCpu

(* The first RemainderParticles threads get one particle more.             *)
NumParticles(t) ==
  IF t < RemainderParticles THEN ParticlesPerCpu + 1 ELSE ParticlesPerCpu

Init ==
  /\ size \in {AsWord(s) : s \in Sizes}
  /\ pc = "prepare"
  /\ i = 0
  /\ offset = 0
  /\ params = [t \in Cpus |-> [begin |-> 0, end |-> 0]]
  /\ tpc = [t \in Cpus |-> "none"]
  /\ counter = [t \in Cpus |-> 0]
  /\ passes = [t \in Cpus |-> 0]
  /\ runs = [k \in Words |-> 0]
  /\ failures = 0
-----------------------------------------------------------------------------
(* The caller.                                                             *)

(* The offset is not advanced.                                             *)
MutPrepareOffset ==
  /\ pc = "prepare"
  /\ i < NumCpus
  /\ params' = [params EXCEPT
       ![i] = [begin |-> offset, end |-> (offset + NumParticles(i) - 1) % Word]]
  /\ pc' = "create"
  /\ UNCHANGED <<size, i, offset, tpc, counter, passes, runs, failures>>

(* One struct is allocated before the loop and given to every thread.      *)
MutPrepareOneStruct ==
  /\ pc = "prepare"
  /\ i < NumCpus
  /\ offset' = (offset + NumParticles(i)) % Word
  /\ params' = [t \in Cpus |-> [begin |-> offset, end |-> (offset' - 1) % Word]]
  /\ pc' = "create"
  /\ UNCHANGED <<size, i, tpc, counter, passes, runs, failures>>

(* One turn of the loop up to pthread_create: the range of thread i.       *)
Prepare ==
  /\ pc = "prepare"
  /\ i < NumCpus
  /\ offset' = (offset + NumParticles(i)) % Word
  /\ params' = [params EXCEPT
                  ![i] = [begin |-> offset, end |-> (offset' - 1) % Word]]
  /\ pc' = "create"
  /\ UNCHANGED <<size, i, tpc, counter, passes, runs, failures>>

CreateThread ==
  /\ pc = "create"
  /\ tpc' = [tpc EXCEPT ![i] = "head"]
  /\ i' = i + 1
  /\ pc' = "prepare"
  /\ UNCHANGED <<size, offset, params, counter, passes, runs, failures>>

(* pthread_create returns an error; res is overwritten and never read.     *)
CreateFails ==
  /\ pc = "create"
  /\ failures < MaxFailures
  /\ failures' = failures + 1
  /\ i' = i + 1
  /\ pc' = "prepare"
  /\ UNCHANGED <<size, offset, params, tpc, counter, passes, runs>>

(* The loop ends.  Nothing joins the threads.                              *)
Return ==
  /\ pc = "prepare"
  /\ i = NumCpus
  /\ pc' = "returned"
  /\ UNCHANGED <<size, i, offset, params, tpc, counter, passes, runs,
                 failures>>
-----------------------------------------------------------------------------
(* The threads.                                                            *)

(* The condition of the for loop.                                          *)
MutInRange(t) == counter[t] < params[t].end

InRange(t) == counter[t] <= params[t].end

(* The counter is declared outside of the endless loop.                    *)
MutEnterPass(t) ==
  /\ tpc[t] = "head"
  /\ passes[t] < Rounds
  /\ tpc' = [tpc EXCEPT ![t] = "body"]
  /\ counter' = [counter EXCEPT ![t] = IF passes[t] = 0 THEN params[t].begin
                                       ELSE @]
  /\ UNCHANGED <<callerVars, passes, runs>>

(* while(true) is taken and the for loop starts at params->begin.          *)
EnterPass(t) ==
  /\ tpc[t] = "head"
  /\ passes[t] < Rounds
  /\ tpc' = [tpc EXCEPT ![t] = "body"]
  /\ counter' = [counter EXCEPT ![t] = params[t].begin]
  /\ UNCHANGED <<callerVars, passes, runs>>

(* The particle with index counter runs, then the counter is incremented.  *)
RunParticle(t) ==
  /\ tpc[t] = "body"
  /\ InRange(t)
  /\ runs' = [runs EXCEPT ![counter[t]] = @ + 1]
  /\ counter' = [counter EXCEPT ![t] = (@ + 1) % Word]
  /\ UNCHANGED <<callerVars, tpc, passes>>

EndPass(t) ==
  /\ tpc[t] = "body"
  /\ ~InRange(t)
  /\ tpc' = [tpc EXCEPT ![t] = "head"]
  /\ passes' = [passes EXCEPT ![t] = @ + 1]
  /\ UNCHANGED <<callerVars, counter, runs>>

(* The threads have spent the bound on their passes: where the model stops *)
(* and the program would go on.                                            *)
Finished ==
  /\ pc = "returned"
  /\ \A t \in Cpus : \/ tpc[t] = "none"
                     \/ tpc[t] = "head" /\ passes[t] = Rounds
  /\ UNCHANGED vars

Caller    == Prepare \/ CreateThread \/ CreateFails \/ Return
Thread(t) == EnterPass(t) \/ RunParticle(t) \/ EndPass(t)

Next == Caller \/ (\E t \in Cpus : Thread(t)) \/ Finished

(* The operating system runs the caller and every thread that can run.     *)
Fairness ==
  /\ WF_vars(Prepare \/ CreateThread \/ Return)
  /\ \A t \in Cpus : WF_vars(Thread(t))

SafeSpec == Init /\ [][Next]_vars
Spec     == SafeSpec /\ Fairness
-----------------------------------------------------------------------------
RangeOf(t) == {k \in Words : params[t].begin <= k /\ k <= params[t].end}

Started(t) == tpc[t] # "none"

(* Every variable holds a value that its C type can hold; the counters     *)
(* that the model adds are naturals.                                       *)
TypeOK ==
  /\ size \in Words
  /\ pc \in {"prepare", "create", "returned"}
  /\ i \in 0..NumCpus
  /\ offset \in Words
  /\ params \in [Cpus -> [begin : Words, end : Words]]
  /\ tpc \in [Cpus -> {"none", "head", "body"}]
  /\ counter \in [Cpus -> Words]
  /\ passes \in [Cpus -> Nat]
  /\ runs \in [Words -> Nat]
  /\ failures \in 0..MaxFailures

(* Once the loop of __k_fireParticlesInGrid is over, the ranges it handed  *)
(* out partition the grid: every index below size belongs to the range of  *)
(* exactly one thread and no other index belongs to any, whatever the      *)
(* remainder of size by numCpus and with more CPUs than particles.         *)
RangesPartition ==
  pc = "returned" =>
    /\ \A k \in Words : k < size <=> \E t \in Cpus : k \in RangeOf(t)
    /\ \A s, t \in Cpus : s # t => RangeOf(s) \cap RangeOf(t) = {}

(* No thread is given two particles more than another: an idle CPU never   *)
(* waits for one that still has two particles to start.                    *)
Width(t) == params[t].end - params[t].begin

Balanced ==
  pc = "returned" => \A s, t \in Cpus : Width(s) <= Width(t) + 1

(* Whatever the interleaving of the caller and the threads, a pass of a    *)
(* thread runs each index of its own range exactly once, and nothing else  *)
(* runs: between two passes each index of the range has been run as often  *)
(* as the thread has completed a pass, during a pass at most once more,    *)
(* and an index that no started thread owns has never been run.            *)
OncePerPass ==
  /\ \A t \in Cpus : Started(t) =>
       \A k \in RangeOf(t) :
         /\ passes[t] <= runs[k] /\ runs[k] <= passes[t] + 1
         /\ tpc[t] # "body" => runs[k] = passes[t]
  /\ \A k \in Words :
       runs[k] > 0 => \E t \in Cpus : Started(t) /\ k \in RangeOf(t)

(* A thread that has been started runs its whole range in every pass, even *)
(* when the start of another one failed.                                   *)
StartedRangesRun ==
  \A t \in Cpus : Started(t) ~> \A k \in RangeOf(t) : runs[k] = Rounds

(* What the caller and its threads do to the executions, the grid allows:  *)
(* only indices of the grid are run, and none more often than there are    *)
(* passes, whatever creations failed.                                      *)
G == INSTANCE Grid WITH size <- size,
                       runs <- runs

RefinesGrid == G!SafeSpec

(* Where every thread could be created, every index gets all its passes.   *)
Undisturbed == failures = 0

RefinesGridLive == []Undisturbed => G!Liveness
-----------------------------------------------------------------------------
(* What the repository says of the program and the code does not do.       *)

(* test/particle.c reads the result of the grid right after the call of    *)
(* fireParticlesInGrid: every particle has run by then.                    *)
GridDoneAtReturn == pc = "returned" => \A k \in Words : k < size => runs[k] > 0
=============================================================================
