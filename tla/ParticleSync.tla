---------------------------- MODULE ParticleSync ----------------------------
(***************************************************************************)
(* The threads of one grid updating a shared variable in a synchronized    *)
(* block, as the preprocessor generates it                                 *)
(* (src/CXX-Preprocessor/src/ClangProxy.cpp):                              *)
(*                                                                         *)
(*    void* __k_particle_N_thread(void* arg) {                             *)
(*      pthread_mutex_t __k_mutex = PTHREAD_MUTEXT_INITIALIZER;            *)
(*      while(true) for(...) {                                             *)
(*        pthread_mutex_lock(__k_mutex);                                   *)
(*        sum += x;                                                        *)
(*        pthread_mutex_unlock(__k_mutex);                                 *)
(*      }                                                                  *)
(*                                                                         *)
(* once its spelling is corrected (see GridFire).  The mutex is a local    *)
(* variable of the thread function.  The update is a                       *)
(* load and a store of a field of the one shared struct; x is 1.  The      *)
(* block is the user's code, which may also leave it by a continue, a      *)
(* break or a return and so past the unlock.  Which                        *)
(* indices a thread runs is module GridFire's business: here it runs       *)
(* Particles of them.                                                      *)
(***************************************************************************)
EXTENDS Naturals, FiniteSetsExt

CONSTANTS Threads,    \* the threads of the grid
          Particles   \* bound on the particles a thread runs

(* The runtime creates a thread for each CPU, and there is at least one.   *)
ASSUME ParticleSyncAssumption ==
  /\ IsFiniteSet(Threads) /\ Threads # {}
  /\ Particles \in Nat \ {0}

VARIABLES
  sum,     \* the shared variable
  pc,      \* of each thread
  left,    \* the particles that each thread has still to run
  local,   \* the value each thread has loaded
  mutex,   \* the state of each mutex
  stores,  \* the updates that each thread has stored (observer)
  jumped   \* the threads that have jumped out of a block (observer)

vars == <<sum, pc, left, local, mutex, stores, jumped>>

(* Operators named Mut... are plausible bugs of the definition that follows *)
(* them; no specification uses them.                                       *)

(* The mutex that thread t locks: the one in its own frame.                *)
Mutex(t) == t

Init ==
  /\ sum = 0
  /\ pc = [t \in Threads |-> "lock"]
  /\ left = [t \in Threads |-> Particles]
  /\ local = [t \in Threads |-> 0]
  /\ mutex = [t \in Threads |-> "free"]
  /\ stores = [t \in Threads |-> 0]
  /\ jumped = {}

Goto(t, l) == pc' = [pc EXCEPT ![t] = l]

(* pthread_mutex_lock; the mutex is not recursive.                         *)
Lock(t) ==
  /\ pc[t] = "lock"
  /\ left[t] > 0
  /\ mutex[Mutex(t)] = "free"
  /\ mutex' = [mutex EXCEPT ![Mutex(t)] = "held"]
  /\ Goto(t, "load")
  /\ UNCHANGED <<sum, left, local, stores, jumped>>

Load(t) ==
  /\ pc[t] = "load"
  /\ local' = [local EXCEPT ![t] = sum]
  /\ Goto(t, "store")
  /\ UNCHANGED <<sum, left, mutex, stores, jumped>>

(* The update is done twice.                                               *)
MutStore(t) ==
  /\ pc[t] = "store"
  /\ sum' = local[t] + 2
  /\ Goto(t, "unlock")
  /\ stores' = [stores EXCEPT ![t] = @ + 1]
  /\ UNCHANGED <<left, local, mutex, jumped>>

Store(t) ==
  /\ pc[t] = "store"
  /\ sum' = local[t] + 1
  /\ Goto(t, "unlock")
  /\ stores' = [stores EXCEPT ![t] = @ + 1]
  /\ UNCHANGED <<left, local, mutex, jumped>>

(* The text of the unlock is not inserted.                                 *)
MutUnlock(t) ==
  /\ pc[t] = "unlock"
  /\ left' = [left EXCEPT ![t] = @ - 1]
  /\ Goto(t, "lock")
  /\ UNCHANGED <<sum, local, mutex, stores, jumped>>

(* pthread_mutex_unlock, and the for loop goes on.                         *)
Unlock(t) ==
  /\ pc[t] = "unlock"
  /\ mutex' = [mutex EXCEPT ![Mutex(t)] = "free"]
  /\ left' = [left EXCEPT ![t] = @ - 1]
  /\ Goto(t, "lock")
  /\ UNCHANGED <<sum, local, stores, jumped>>

(* The user's code leaves the block before or after the update: the for    *)
(* loop goes on, or the thread returns, and nothing has been unlocked.     *)
Jump(t) ==
  /\ pc[t] \in {"load", "unlock"}
  /\ \E n \in {0, left[t] - 1} : left' = [left EXCEPT ![t] = n]
  /\ jumped' = jumped \cup {t}
  /\ Goto(t, "lock")
  /\ UNCHANGED <<sum, local, mutex, stores>>

AllRun == \A t \in Threads : left[t] = 0

Step(t) == Lock(t) \/ Load(t) \/ Store(t) \/ Unlock(t)

(* Every thread has no particle left or waits for its own mutex.           *)
Finished ==
  /\ \A t \in Threads : /\ pc[t] = "lock"
                        /\ left[t] = 0 \/ mutex[Mutex(t)] = "held"
  /\ UNCHANGED vars

Next == (\E t \in Threads : Step(t) \/ Jump(t)) \/ Finished

Spec == Init /\ [][Next]_vars /\ \A t \in Threads : WF_vars(Step(t))
-----------------------------------------------------------------------------
Stored(t) == stores[t]

(* The mutexes being local, what remains true of the sum: updates can be   *)
(* lost but are never made up, so it never exceeds the number of stores;   *)
(* and it is at least 2 once each thread has stored twice, since a         *)
(* thread's last load follows the first store of some thread.              *)
SumWithinBounds ==
  /\ sum <= MapThenSumSet(Stored, Threads)
  /\ (\A t \in Threads : stores[t] >= 2) => sum >= 2

(* A thread stops at a lock only if its own code has jumped out of a block:*)
(* whatever the other threads jump out of, each runs all its particles.    *)
EveryThreadEnds == \A t \in Threads : <>(left[t] = 0 \/ t \in jumped)
-----------------------------------------------------------------------------
(* What the repository says of the program and the code does not do.       *)

(* In test/particle.c the update of sum stands between "mutex lock" and    *)
(* "mutex unlock": no update of a thread is lost to another one.           *)
NoUpdateIsLost ==
  AllRun /\ jumped = {} => sum = Cardinality(Threads) * Particles
=============================================================================
