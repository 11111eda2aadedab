----------------------------- MODULE GridSystem -----------------------------
(***************************************************************************)
(* The global of the runtime, __k_system_global, and the functions that    *)
(* share it without a lock (src/C-Lib/include/knorba.h): the lazy          *)
(* initialisation, __k_system_setActiveParticle and fireParticlesInGrid,   *)
(* up to the division by numCpus that begins __k_fireParticlesInGrid       *)
(* (module GridFire goes on from there).                                   *)
(*                                                                         *)
(* Each load and store of the global is a step.  A caller is a thread of   *)
(* the user's program: main, or a particle that itself fires a grid.       *)
(***************************************************************************)
EXTENDS Naturals

CONSTANTS Callers,     \* the threads that call the runtime
          Particles,   \* thread functions that the user's program sets
          Shareds,     \* shared structs that it passes as args
          Null,        \* the value 0 of both pointers
          SysCpus,     \* sysconf(_SC_NPROCESSORS_ONLN)
          Warm,        \* the values the flag may have when the callers begin
          Builds,      \* may a build reorder the stores of the init?
          MaxCalls     \* bound on the calls of one caller

ASSUME GridSystemAssumption ==
  /\ Null \notin Particles \cup Shareds
  /\ SysCpus \in Nat \ {0}
  /\ Warm \subseteq BOOLEAN
  /\ Builds \subseteq BOOLEAN
  /\ MaxCalls \in Nat

VARIABLES
  activeParticle, activeParticleArgs, numCpus, initialized,
  pc,       \* of each caller
  after,    \* where the caller goes on when __k_system_init returns
  todo,     \* the positions in InitStores of the stores still to be done
  arg,      \* <<p, args>>: of the set call, or read by the fire call
  calls,    \* the calls of each caller so far
  lastSet,  \* the pair of the caller's last complete set call (observer)
  outcome,  \* what the caller's last fire call did (observer)
  overlap,  \* has an initialisation run during a call of another (observer)
  reordered \* does this build reorder the stores of the init?

global == <<activeParticle, activeParticleArgs, numCpus, initialized>>
vars == <<global, pc, after, todo, arg, calls, lastSet, outcome, overlap,
          reordered>>

NoPair == <<Null, Null>>
Pairs  == (Particles \cup {Null}) \X (Shareds \cup {Null})

Init ==
  /\ activeParticle = Null
  /\ activeParticleArgs = Null
  /\ initialized \in Warm
  /\ numCpus = IF initialized THEN SysCpus ELSE 0
  /\ pc = [c \in Callers |-> "idle"]
  /\ after = [c \in Callers |-> "idle"]
  /\ todo = [c \in Callers |-> {}]
  /\ arg = [c \in Callers |-> NoPair]
  /\ calls = [c \in Callers |-> 0]
  /\ lastSet = [c \in Callers |-> NoPair]
  /\ outcome = [c \in Callers |-> "none"]
  /\ overlap = FALSE
  /\ reordered \in Builds

Goto(c, l) == pc' = [pc EXCEPT ![c] = l]

(* Call __k_system_init and go on at l.                                    *)
CallInit(c, l) == Goto(c, "check") /\ after' = [after EXCEPT ![c] = l]

BeginCall(c) == /\ pc[c] = "idle"
                /\ calls[c] < MaxCalls
                /\ calls' = [calls EXCEPT ![c] = @ + 1]
                /\ outcome' = [outcome EXCEPT ![c] = "none"]
                /\ overlap' = (overlap \/ \E d \in Callers : pc[d] = "init")

Busy(S) == \E d \in S : pc[d] # "idle"
-----------------------------------------------------------------------------
(* Operators named Mut... are plausible bugs of the definition that follows *)
(* them; no specification uses them.                                       *)

(* __k_system_init.  The flag is stored last.                              *)

MutInitStores == <<"initialized", "activeParticle", "activeParticleArgs", "numCpus">>

InitStores == <<"activeParticle", "activeParticleArgs", "numCpus", "initialized">>

(* The flag is never tested.                                               *)
MutCheckInit(c) ==
  /\ pc[c] = "check"
  /\ Goto(c, "init") /\ todo' = [todo EXCEPT ![c] = DOMAIN InitStores]
  /\ overlap' = (overlap \/ Busy(Callers \ {c}))
  /\ UNCHANGED <<global, after, arg, calls, lastSet, outcome>>

CheckInit(c) ==
  /\ pc[c] = "check"
  /\ \/ initialized /\ Goto(c, after[c]) /\ UNCHANGED <<todo, overlap>>
     \/ /\ ~initialized
        /\ Goto(c, "init")
        /\ todo' = [todo EXCEPT ![c] = DOMAIN InitStores]
        /\ overlap' = (overlap \/ Busy(Callers \ {c}))
  /\ UNCHANGED <<global, after, arg, calls, lastSet, outcome>>

(* The next store; any of those left when the build may reorder them,      *)
(* since nothing tells the compiler that another thread looks.             *)
InitStore(c) ==
  /\ pc[c] = "init"
  /\ \E n \in todo[c] :
       /\ reordered \/ \A m \in todo[c] : n <= m
       /\ LET field == InitStores[n] IN
            /\ activeParticle' =
                 IF field = "activeParticle" THEN Null ELSE activeParticle
            /\ activeParticleArgs' =
                 IF field = "activeParticleArgs" THEN Null ELSE activeParticleArgs
            /\ numCpus' = IF field = "numCpus" THEN SysCpus ELSE numCpus
            /\ initialized' = (field = "initialized" \/ initialized)
       /\ todo' = [todo EXCEPT ![c] = @ \ {n}]
  /\ UNCHANGED <<pc, after, arg, calls, lastSet, outcome, overlap>>

InitDone(c) ==
  /\ pc[c] = "init"
  /\ todo[c] = {}
  /\ Goto(c, after[c])
  /\ UNCHANGED <<global, after, todo, arg, calls, lastSet, outcome, overlap>>
-----------------------------------------------------------------------------
(* __k_system_setActiveParticle(p, args)                                   *)

CallSet(c) ==
  /\ BeginCall(c)
  /\ arg' \in {[arg EXCEPT ![c] = <<p, s>>] : p \in Particles, s \in Shareds}
  /\ CallInit(c, "setParticle")
  /\ UNCHANGED <<global, todo, lastSet>>

(* The two arguments are exchanged.                                        *)
MutSetParticle(c) ==
  /\ pc[c] = "setParticle"
  /\ activeParticle' = arg[c][2]
  /\ Goto(c, "setArgs")
  /\ UNCHANGED <<activeParticleArgs, numCpus, initialized, after, todo, arg,
                 calls, lastSet, outcome, overlap>>

SetParticle(c) ==
  /\ pc[c] = "setParticle"
  /\ activeParticle' = arg[c][1]
  /\ Goto(c, "setArgs")
  /\ UNCHANGED <<activeParticleArgs, numCpus, initialized, after, todo, arg,
                 calls, lastSet, outcome, overlap>>

(* Only the first particle brings its args.                                *)
MutSetArgs(c) ==
  /\ pc[c] = "setArgs"
  /\ activeParticleArgs' = IF activeParticleArgs = Null THEN arg[c][2]
                           ELSE activeParticleArgs
  /\ lastSet' = [lastSet EXCEPT ![c] = arg[c]]
  /\ Goto(c, "idle")
  /\ UNCHANGED <<activeParticle, numCpus, initialized, after, todo, arg, calls,
                 outcome, overlap>>

SetArgs(c) ==
  /\ pc[c] = "setArgs"
  /\ activeParticleArgs' = arg[c][2]
  /\ lastSet' = [lastSet EXCEPT ![c] = arg[c]]
  /\ Goto(c, "idle")
  /\ UNCHANGED <<activeParticle, numCpus, initialized, after, todo, arg, calls,
                 outcome, overlap>>
-----------------------------------------------------------------------------
(* fireParticlesInGrid(size)                                               *)

CallFire(c) ==
  /\ BeginCall(c)
  /\ arg' = [arg EXCEPT ![c] = NoPair]
  /\ CallInit(c, "guard")
  /\ UNCHANGED <<global, todo, lastSet>>

(* There is no guard.                                                      *)
MutGuard(c) ==
  /\ pc[c] = "guard"
  /\ Goto(c, "readParticle")
  /\ UNCHANGED <<global, after, todo, arg, calls, lastSet, outcome, overlap>>

(* if(activeParticle == 0) return;                                         *)
Guard(c) ==
  /\ pc[c] = "guard"
  /\ \/ activeParticle # Null /\ Goto(c, "readParticle") /\ UNCHANGED outcome
     \/ /\ activeParticle = Null
        /\ Goto(c, "idle")
        /\ outcome' = [outcome EXCEPT ![c] = "dropped"]
  /\ UNCHANGED <<global, after, todo, arg, calls, lastSet, overlap>>

(* The arguments of __k_fireParticlesInGrid: the global is read again.     *)
ReadParticle(c) ==
  /\ pc[c] = "readParticle"
  /\ arg' = [arg EXCEPT ![c][1] = activeParticle]
  /\ Goto(c, "readArgs")
  /\ UNCHANGED <<global, after, todo, calls, lastSet, outcome, overlap>>

(* __k_fireParticlesInGrid begins with another __k_system_init.            *)
ReadArgs(c) ==
  /\ pc[c] = "readArgs"
  /\ arg' = [arg EXCEPT ![c][2] = activeParticleArgs]
  /\ CallInit(c, "divide")
  /\ UNCHANGED <<global, todo, calls, lastSet, outcome, overlap>>

(* size[0] / numCpus; from here on the call is module GridFire.            *)
Divide(c) ==
  /\ pc[c] = "divide"
  /\ outcome' = [outcome EXCEPT ![c] = "fired"]
  /\ Goto(c, "idle")
  /\ UNCHANGED <<global, after, todo, arg, calls, lastSet, overlap>>
-----------------------------------------------------------------------------
Finished == /\ \A c \in Callers : pc[c] = "idle" /\ calls[c] = MaxCalls
            /\ UNCHANGED vars

Step(c) == \/ CallSet(c) \/ SetParticle(c) \/ SetArgs(c)
           \/ CallFire(c) \/ Guard(c) \/ ReadParticle(c) \/ ReadArgs(c)
           \/ Divide(c)
           \/ CheckInit(c) \/ InitStore(c) \/ InitDone(c)

Next == ((\E c \in Callers : Step(c)) /\ UNCHANGED reordered) \/ Finished

Spec == Init /\ [][Next]_vars
-----------------------------------------------------------------------------
TypeOK ==
  /\ activeParticle \in Particles \cup {Null}
  /\ activeParticleArgs \in Shareds \cup {Null}
  /\ numCpus \in {0, SysCpus}
  /\ initialized \in BOOLEAN
  /\ pc \in [Callers -> {"idle", "check", "init", "setParticle", "setArgs",
                         "guard", "readParticle", "readArgs", "divide"}]
  /\ after \in [Callers -> {"idle", "setParticle", "guard", "divide"}]
  /\ todo \in [Callers -> SUBSET (1..4)]
  /\ arg \in [Callers -> Pairs]
  /\ calls \in [Callers -> 0..MaxCalls]
  /\ lastSet \in [Callers -> Pairs]
  /\ outcome \in [Callers -> {"none", "dropped", "fired"}]
  /\ overlap \in BOOLEAN
  /\ reordered \in BOOLEAN

(* No caller divides by numCpus before some call of __k_system_init has    *)
(* stored it: a caller that finds the flag set by another one relies on    *)
(* the order of the stores in __k_system_init, with no lock.  A build that *)
(* reorders them needs the initialisation to run alone.                    *)
CpusKnownBeforeDivide ==
  ~reordered \/ ~overlap =>
    \A c \in Callers : pc[c] = "divide" => numCpus = SysCpus

(* A grid that a lone caller fires runs the particle and the shared struct *)
(* of its last __k_system_setActiveParticle, as a pair.                    *)
FiresWhatWasSet ==
  \A c \in Callers :
    (\A d \in Callers \ {c} : calls[d] = 0) /\ outcome[c] = "fired"
      => arg[c] = lastSet[c]

(* As long as the first initialisation runs while no other call is in      *)
(* progress, callers may call as they like: a caller that has set a        *)
(* particle never has its grid dropped, and no thread function is null.    *)
SetIsNotUndone ==
  ~overlap =>
    \A c \in Callers : outcome[c] = "dropped" => lastSet[c] = NoPair

NeverFiresNull ==
  ~overlap => \A c \in Callers : outcome[c] = "fired" => arg[c][1] # Null
=============================================================================
