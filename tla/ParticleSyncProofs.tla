------------------------- MODULE ParticleSyncProofs --------------------------
(***************************************************************************)
(* Module ParticleSync for any number of threads and any number of         *)
(* particles of each: the shared sum stays within its bounds although      *)
(* every thread locks a mutex of its own.                                  *)
(*                                                                         *)
(* Every store writes one more than what a load has read, so the sum never *)
(* exceeds the number of stores, and a thread that has loaded never holds  *)
(* more than that number; and once a thread has stored, the sum never      *)
(* falls back to 0, so the second load of a thread reads at least 1.  A    *)
(* jump out of a block changes neither the sum nor the stores.             *)
(*                                                                         *)
(* The number of stores is a sum over the set of threads.  The library     *)
(* defines such a sum by choosing a recursive function on the subsets of   *)
(* the set: the first lemmas show that there is such a function, by        *)
(* induction on the size of a subset, and that the sum grows by 1 with one *)
(* of its terms.                                                           *)
(***************************************************************************)
EXTENDS ParticleSync, Integers, FiniteSetTheorems, WellFoundedInduction, TLAPS

(* The element that the library's sum adds last.                           *)
Picked(s) == CHOOSE x \in s : TRUE

(* The recursion of a sum over the subsets of Threads.                     *)
SumBody(v, f) ==
  [s \in SUBSET Threads |->
     IF s = {} THEN 0 ELSE v[Picked(s)] + f[s \ {Picked(s)}]]

(* f is a solution of the recursion.                                       *)
IsSum(v, f) == f = SumBody(v, f)

(* The sum of v over all threads.                                          *)
Sum(v) == (CHOOSE f : IsSum(v, f))[Threads]

(* The sets of at most n threads.                                          *)
Size(n) == {s \in SUBSET Threads : Cardinality(s) <= n}

(* A set of numbers with 0 that is closed under the successor holds them all. *)
LEMMA InductiveNumbers ==
  ASSUME NEW I \in SUBSET Nat, 0 \in I, \A n \in I : n + 1 \in I
  PROVE  I = Nat
<1> DEFINE Below == {p \in Nat \X Nat : p[1] < p[2]}
<1> SUFFICES ASSUME Nat \ I # {} PROVE FALSE
  OBVIOUS
<1>1. IsWellFoundedOn(Below, Nat)
  BY NatLessThanWellFounded, Zenon DEF OpToRel
<1>2. PICK n \in Nat \ I : \A m \in Nat \ I : ~ (<<m, n>> \in Below)
  <2>1. Nat \ I \subseteq Nat
    OBVIOUS
  <2> QED BY <1>1, <2>1, WFMin
<1>3. n # 0 /\ n - 1 \in Nat
  OBVIOUS
<1>4. <<n - 1, n>> \in Below
  BY <1>3
<1>5. n - 1 \in I
  BY <1>2, <1>3, <1>4
<1> QED BY <1>3, <1>5

(* A set that is not empty has one element more than without the picked one. *)
LEMMA PickedFacts ==
  ASSUME NEW s \in SUBSET Threads, s # {}
  PROVE  /\ Picked(s) \in s /\ Picked(s) \in Threads
         /\ s \ {Picked(s)} \in SUBSET Threads
         /\ Cardinality(s) \in Nat /\ Cardinality(s) >= 1
         /\ Cardinality(s \ {Picked(s)}) = Cardinality(s) - 1
<1>1. Picked(s) \in s
  BY DEF Picked
<1>2. IsFiniteSet(s)
  BY ParticleSyncAssumption, FS_Subset
<1>3. Cardinality(s) \in Nat /\ Cardinality(s) # 0
  BY <1>2, FS_CardinalityType, FS_EmptySet
<1>4. Cardinality(s \ {Picked(s)}) = Cardinality(s) - 1
  BY <1>1, <1>2, FS_RemoveElement
<1> QED BY <1>1, <1>3, <1>4

(* The sets of at most n + 1 threads, one thread taken away, have at most  *)
(* n, and all sets of threads have at most some number.                    *)
LEMMA SizeSteps ==
  /\ Size(0) = {{}}
  /\ \A n \in Nat : \A s \in Size(n + 1) :
       s \in Size(n) \/ (s # {} /\ Cardinality(s) = n + 1)
  /\ \A n \in Nat : \A s \in Size(n) : s # {} => s \ {Picked(s)} \in Size(n)
  /\ \A n \in Nat : \A s \in Size(n + 1) : s # {} => s \ {Picked(s)} \in Size(n)
  /\ \A n \in Nat : Size(n) \subseteq Size(n + 1) /\ {} \in Size(n)
  /\ \A n \in Nat : \A s \in Size(n) : Cardinality(s) # n + 1
  /\ \E n \in Nat : Size(n) = SUBSET Threads
<1>1. \A s \in SUBSET Threads : Cardinality(s) \in Nat /\ (Cardinality(s) = 0 <=> s = {})
  BY ParticleSyncAssumption, FS_Subset, FS_CardinalityType, FS_EmptySet
<1>2. \A s \in SUBSET Threads : s # {} =>
         /\ s \ {Picked(s)} \in SUBSET Threads
         /\ Cardinality(s \ {Picked(s)}) = Cardinality(s) - 1
  BY PickedFacts
<1>3. \E n \in Nat : Size(n) = SUBSET Threads
  <2>1. \A s \in SUBSET Threads : Cardinality(s) <= Cardinality(Threads)
    BY ParticleSyncAssumption, FS_Subset
  <2>2. Cardinality(Threads) \in Nat
    BY <1>1
  <2> QED BY <2>1, <2>2 DEF Size
<1>4. Size(0) = {{}}
  BY <1>1 DEF Size
<1> QED BY <1>1, <1>2, <1>3, <1>4 DEF Size

(* The recursion of a sum has a solution.                                  *)
LEMMA SumExists ==
  ASSUME NEW v \in [Threads -> Nat]
  PROVE  \E f \in [SUBSET Threads -> Nat] : IsSum(v, f)
<1> DEFINE Rec(n, f) == \A s \in Size(n) :
             f[s] = IF s = {} THEN 0 ELSE v[Picked(s)] + f[s \ {Picked(s)}]
           I == {n \in Nat : \E f \in [Size(n) -> Nat] : Rec(n, f)}
<1>1. 0 \in I
  <2> DEFINE f == [s \in Size(0) |-> 0]
  <2>1. f \in [Size(0) -> Nat] /\ Rec(0, f)
    BY SizeSteps
  <2> QED BY <2>1
<1>2. ASSUME NEW n \in I PROVE n + 1 \in I
  <2>1. PICK f \in [Size(n) -> Nat] : Rec(n, f)
    OBVIOUS
  <2> DEFINE g == [s \in Size(n + 1) |-> IF s \in Size(n) THEN f[s]
                                         ELSE v[Picked(s)] + f[s \ {Picked(s)}]]
  <2>2. ASSUME NEW s \in Size(n + 1)
        PROVE  /\ g[s] \in Nat
               /\ g[s] = IF s = {} THEN 0 ELSE v[Picked(s)] + g[s \ {Picked(s)}]
    <3>1. CASE s \in Size(n)
      <4>1. g[s] = f[s] /\ f[s] \in Nat
        BY <3>1
      <4>2. s # {} => s \ {Picked(s)} \in Size(n) /\ s \ {Picked(s)} \in Size(n + 1)
        BY <3>1, SizeSteps
      <4>3. s # {} => g[s \ {Picked(s)}] = f[s \ {Picked(s)}]
        BY <4>2
      <4> QED BY <2>1, <3>1, <4>1, <4>3
    <3>2. CASE s \notin Size(n)
      <4>1. s # {} /\ s \ {Picked(s)} \in Size(n) /\ s \ {Picked(s)} \in Size(n + 1)
        BY <3>2, SizeSteps
      <4>2. g[s] = v[Picked(s)] + f[s \ {Picked(s)}]
            /\ g[s \ {Picked(s)}] = f[s \ {Picked(s)}]
        BY <3>2, <4>1
      <4>3. v[Picked(s)] \in Nat /\ f[s \ {Picked(s)}] \in Nat
        <5>1. s \in SUBSET Threads
          BY DEF Size
        <5> QED BY <4>1, <5>1, PickedFacts
      <4> QED BY <4>1, <4>2, <4>3
    <3> QED BY <3>1, <3>2
  <2>3. g \in [Size(n + 1) -> Nat]
    BY <2>2
  <2> HIDE DEF g
  <2>4. Rec(n + 1, g)
    BY <2>2
  <2>5. n + 1 \in Nat
    OBVIOUS
  <2> HIDE DEF Rec
  <2> QED BY <2>3, <2>4, <2>5
<1> HIDE DEF I
<1>3. I = Nat
  <2>1. I \in SUBSET Nat
    BY DEF I
  <2> QED BY <1>1, <1>2, <2>1, InductiveNumbers
<1>4. PICK n \in Nat : Size(n) = SUBSET Threads
  BY SizeSteps
<1>5. PICK f \in [SUBSET Threads -> Nat] : Rec(n, f)
  BY <1>3, <1>4 DEF I
<1>6. f = SumBody(v, f)
  <2>1. \A s \in SUBSET Threads : f[s] = SumBody(v, f)[s]
    BY <1>4, <1>5 DEF SumBody
  <2>2. SumBody(v, f) = [s \in SUBSET Threads |-> SumBody(v, f)[s]]
    BY DEF SumBody
  <2> QED BY <2>1, <2>2
<1> QED BY <1>6 DEF IsSum

(* The sum is the value, at all threads, of a solution of its recursion.   *)
LEMMA SumSteps ==
  ASSUME NEW v \in [Threads -> Nat]
  PROVE  \E f : /\ f[Threads] = Sum(v)
                /\ \A s \in SUBSET Threads :
                     f[s] = IF s = {} THEN 0
                            ELSE v[Picked(s)] + f[s \ {Picked(s)}]
<1> DEFINE f == CHOOSE g : IsSum(v, g)
<1>1. IsSum(v, f)
  BY SumExists
<1>2. f[Threads] = Sum(v)
  BY DEF Sum
<1> HIDE DEF f
<1>3. \A s \in SUBSET Threads : f[s] = SumBody(v, f)[s]
  BY <1>1 DEF IsSum
<1> QED BY <1>2, <1>3 DEF SumBody

(* A sum grows by 1 when one of its terms does.                            *)
LEMMA SumGrows ==
  ASSUME NEW v \in [Threads -> Nat], NEW w \in [Threads -> Nat], NEW u \in Threads,
         w[u] = v[u] + 1, \A t \in Threads : t # u => w[t] = v[t]
  PROVE  Sum(v) \in Nat /\ Sum(w) = Sum(v) + 1
<1>1. PICK f : /\ f[Threads] = Sum(v)
               /\ \A s \in SUBSET Threads :
                    f[s] = IF s = {} THEN 0 ELSE v[Picked(s)] + f[s \ {Picked(s)}]
  BY SumSteps
<1>2. PICK g : /\ g[Threads] = Sum(w)
               /\ \A s \in SUBSET Threads :
                    g[s] = IF s = {} THEN 0 ELSE w[Picked(s)] + g[s \ {Picked(s)}]
  BY SumSteps
<1> DEFINE Good(s) == f[s] \in Nat /\ g[s] = f[s] + (IF u \in s THEN 1 ELSE 0)
           I == {n \in Nat : \A s \in Size(n) : Good(s)}
<1>3. Good({})
  <2>1. {} \in SUBSET Threads
    OBVIOUS
  <2>2. f[{}] = 0 /\ g[{}] = 0
    BY <1>1, <1>2, <2>1
  <2> QED BY <2>2
<1>4. 0 \in I
  BY <1>3, SizeSteps
<1>5. ASSUME NEW n \in I, NEW s \in Size(n + 1) PROVE Good(s)
  <2>1. CASE s = {}
    BY <1>3, <2>1
  <2>2. CASE s # {}
    <3> DEFINE x == Picked(s)
               r == s \ {x}
    <3>1. s \in SUBSET Threads /\ r \in Size(n) /\ x \in s /\ x \in Threads
      BY <2>2, SizeSteps, PickedFacts DEF Size
    <3>2. f[s] = v[x] + f[r] /\ g[s] = w[x] + g[r]
      BY <1>1, <1>2, <2>2, <3>1
    <3>3. Good(r)
      BY <3>1
    <3>4. u \in s <=> u = x \/ u \in r
      BY <3>1
    <3>5. x \notin r
      OBVIOUS
    <3>6. v[x] \in Nat /\ (x = u => w[x] = v[x] + 1) /\ (x # u => w[x] = v[x])
      BY <3>1
    <3> HIDE DEF x, r
    <3> QED BY <3>2, <3>3, <3>4, <3>5, <3>6
  <2> QED BY <2>1, <2>2
<1>6. I = Nat
  <2>1. I \in SUBSET Nat /\ \A n \in I : n + 1 \in I
    BY <1>5
  <2> HIDE DEF I
  <2> QED BY <1>4, <2>1, InductiveNumbers
<1>7. Good(Threads)
  <2>1. PICK n \in Nat : Size(n) = SUBSET Threads
    BY SizeSteps
  <2>2. n \in I
    BY <1>6
  <2> QED BY <2>1, <2>2
<1> QED BY <1>1, <1>2, <1>7

(* A sum of numbers is a number.                                           *)
LEMMA SumType ==
  ASSUME NEW v \in [Threads -> Nat] PROVE Sum(v) \in Nat
<1>1. PICK u \in Threads : TRUE
  BY ParticleSyncAssumption
<1> DEFINE w == [v EXCEPT ![u] = @ + 1]
<1>2. /\ w \in [Threads -> Nat] /\ w[u] = v[u] + 1
      /\ \A t \in Threads : t # u => w[t] = v[t]
  OBVIOUS
<1> HIDE DEF w
<1> QED BY <1>2, SumGrows
-----------------------------------------------------------------------------
(* Where a thread can be in its synchronized block.                        *)
Labels == {"lock", "load", "store", "unlock"}

(* The types; a thread in its block has still a particle to run.           *)
TypeInv ==
  /\ sum \in Nat
  /\ pc \in [Threads -> Labels]
  /\ left \in [Threads -> 0..Particles]
  /\ local \in [Threads -> Nat]
  /\ stores \in [Threads -> Nat]
  /\ \A t \in Threads : pc[t] # "lock" => left[t] > 0

(* The stores of every thread, and their number.                           *)
Stores == [t \in Threads |-> Stored(t)]

Total == Sum(Stores)

(* Neither the sum nor what a thread is about to add 1 to exceeds the      *)
(* number of stores.                                                       *)
NoneMadeUp ==
  /\ sum <= Total
  /\ \A t \in Threads : pc[t] = "store" => local[t] <= Total

(* Once a thread has stored, the sum is not 0, nor is what a thread that   *)
(* has stored before loads; so when all have stored twice the sum is 2.    *)
SomeKept ==
  /\ (\E t \in Threads : Stored(t) >= 1) => sum >= 1
  /\ \A t \in Threads : pc[t] = "store" /\ Stored(t) >= 1 => local[t] >= 1
  /\ (\A t \in Threads : Stored(t) >= 2) => sum >= 2

(* The inductive invariant.                                                *)
Inv == TypeInv /\ NoneMadeUp /\ SomeKept

(* The stores of every thread and their sum are numbers.                   *)
LEMMA StoredType ==
  ASSUME TypeInv
  PROVE  /\ Stores \in [Threads -> Nat]
         /\ \A t \in Threads : Stores[t] = Stored(t) /\ Stored(t) \in Nat
         /\ Total \in Nat
<1>1. ASSUME NEW t \in Threads PROVE Stored(t) \in Nat
  BY DEF TypeInv, Stored
<1>2. Stores \in [Threads -> Nat]
  BY <1>1 DEF Stores
<1> QED BY <1>1, <1>2, SumType DEF Stores, Total

(* The invariant holds when the threads start.                             *)
LEMMA InvInit == Init => Inv
<1> SUFFICES ASSUME Init PROVE Inv
  OBVIOUS
<1>1. TypeInv
  BY ParticleSyncAssumption DEF Init, TypeInv, Labels
<1>2. \A t \in Threads : Stored(t) = 0
  BY DEF Init, Stored
<1>3. Total \in Nat /\ sum = 0 /\ \A t \in Threads : pc[t] = "lock"
  BY <1>1, StoredType DEF Init
<1>4. NoneMadeUp
  BY <1>3 DEF NoneMadeUp
<1>5. SomeKept
  BY <1>2, <1>3, ParticleSyncAssumption DEF SomeKept
<1> QED BY <1>1, <1>4, <1>5 DEF Inv

(* Every lock, load, store and unlock of a thread keeps the invariant.     *)
LEMMA InvStep == Inv /\ [Next]_vars => Inv'
<1> SUFFICES ASSUME Inv, [Next]_vars PROVE Inv'
  OBVIOUS
<1>1. /\ TypeInv /\ NoneMadeUp /\ SomeKept
      /\ Stores \in [Threads -> Nat] /\ Total \in Nat
      /\ \A t \in Threads : Stores[t] = Stored(t) /\ Stored(t) \in Nat
  BY StoredType DEF Inv
<1>2. ASSUME UNCHANGED <<sum, pc, left, local, stores>> PROVE Inv'
  <2>1. \A t \in Threads : Stored(t)' = Stored(t)
    BY <1>2 DEF Stored
  <2>2. Total' = Total
    BY <2>1 DEF Total, Stores
  <2> QED BY <1>1, <1>2, <2>1, <2>2 DEF Inv, TypeInv, NoneMadeUp, SomeKept
<1>3. ASSUME NEW u \in Threads, Lock(u) PROVE Inv'
  <2>1. /\ pc[u] = "lock" /\ left[u] > 0 /\ pc' = [pc EXCEPT ![u] = "load"]
        /\ UNCHANGED <<sum, left, local, stores>>
    BY <1>3 DEF Lock, Goto
  <2>2. TypeInv'
    BY <1>1, <2>1 DEF TypeInv, Labels
  <2>3. \A t \in Threads : Stored(t)' = Stored(t) /\ (pc'[t] = "store" <=> pc[t] = "store")
    BY <1>1, <2>1 DEF Stored, TypeInv
  <2>4. Total' = Total
    BY <2>3 DEF Total, Stores
  <2> QED BY <1>1, <2>1, <2>2, <2>3, <2>4 DEF Inv, NoneMadeUp, SomeKept
<1>4. ASSUME NEW u \in Threads, Load(u) PROVE Inv'
  <2>1. /\ pc[u] = "load" /\ pc' = [pc EXCEPT ![u] = "store"]
        /\ local' = [local EXCEPT ![u] = sum]
        /\ UNCHANGED <<sum, left, stores>>
    BY <1>4 DEF Load, Goto
  <2>2. TypeInv'
    BY <1>1, <2>1 DEF TypeInv, Labels
  <2>3. \A t \in Threads : Stored(t)' = Stored(t)
    BY <1>1, <2>1 DEF Stored, TypeInv
  <2>4. Total' = Total
    BY <2>3 DEF Total, Stores
  <2>5. \A t \in Threads : pc'[t] = "store" =>
          \/ t = u /\ local'[t] = sum
          \/ pc[t] = "store" /\ local'[t] = local[t]
    BY <1>1, <2>1 DEF TypeInv
  <2>6. NoneMadeUp'
    BY <1>1, <2>1, <2>4, <2>5 DEF NoneMadeUp
  <2>7. SomeKept'
    BY <1>1, <2>1, <2>3, <2>5 DEF SomeKept
  <2> QED BY <2>2, <2>6, <2>7 DEF Inv
<1>5. ASSUME NEW u \in Threads, Store(u) PROVE Inv'
  <2>1. /\ pc[u] = "store" /\ pc' = [pc EXCEPT ![u] = "unlock"]
        /\ sum' = local[u] + 1
        /\ stores' = [stores EXCEPT ![u] = @ + 1]
        /\ UNCHANGED <<left, local>>
    BY <1>5 DEF Store, Goto
  <2>2. TypeInv'
    BY <1>1, <2>1 DEF TypeInv, Labels
  <2>3. /\ Stored(u)' = Stored(u) + 1
        /\ \A t \in Threads : t # u => Stored(t)' = Stored(t) /\ pc'[t] = pc[t]
        /\ pc'[u] # "store"
    BY <1>1, <2>1 DEF Stored, TypeInv
  <2>4. Total' = Total + 1
    <3>1. Stores' \in [Threads -> Nat] /\ \A t \in Threads : Stores'[t] = Stored(t)'
      BY <1>1, <2>3 DEF Stores
    <3>2. Stores'[u] = Stores[u] + 1 /\ \A t \in Threads : t # u => Stores'[t] = Stores[t]
      BY <1>1, <2>3, <3>1
    <3> QED BY <1>1, <3>1, <3>2, SumGrows DEF Total
  <2>5. local[u] \in Nat /\ local[u] <= Total
    BY <1>1, <2>1 DEF TypeInv, NoneMadeUp
  <2>6. NoneMadeUp'
    BY <1>1, <2>1, <2>3, <2>4, <2>5 DEF NoneMadeUp, TypeInv
  <2>7. SomeKept'
    BY <1>1, <2>1, <2>3, <2>5 DEF SomeKept
  <2> QED BY <2>2, <2>6, <2>7 DEF Inv
<1>6. ASSUME NEW u \in Threads, Unlock(u) \/ Jump(u) PROVE Inv'
  <2>1. /\ pc[u] \in {"load", "unlock"} /\ pc' = [pc EXCEPT ![u] = "lock"]
        /\ \E n \in {0, left[u] - 1} : left' = [left EXCEPT ![u] = n]
        /\ UNCHANGED <<sum, local, stores>>
    BY <1>6 DEF Unlock, Jump, Goto
  <2>2. TypeInv'
    <3>1. left[u] > 0 /\ left[u] \in 0..Particles
      BY <1>1, <2>1 DEF TypeInv
    <3>2. {0, left[u] - 1} \subseteq 0..Particles
      BY <3>1, ParticleSyncAssumption
    <3> QED BY <1>1, <2>1, <3>2 DEF TypeInv, Labels
  <2>3. \A t \in Threads : Stored(t)' = Stored(t) /\ (pc'[t] = "store" <=> pc[t] = "store")
    BY <1>1, <2>1 DEF Stored, TypeInv
  <2>4. Total' = Total
    BY <2>3 DEF Total, Stores
  <2> QED BY <1>1, <2>1, <2>2, <2>3, <2>4 DEF Inv, NoneMadeUp, SomeKept
<1> QED BY <1>2, <1>3, <1>4, <1>5, <1>6 DEF Next, Step, Finished, vars

(* The sum over the threads that SumWithinBounds is about is this one.     *)
LEMMA StoredSum == MapThenSumSet(Stored, Threads) = Total
<1> DEFINE body(f) == [s \in SUBSET Threads |->
             IF s = {} THEN 0 ELSE Stored(Picked(s)) + f[s \ {Picked(s)}]]
<1>1. ASSUME NEW f PROVE SumBody(Stores, f) = body(f)
  <2>1. \A s \in SUBSET Threads : s # {} => Stores[Picked(s)] = Stored(Picked(s))
    BY PickedFacts DEF Stores
  <2> QED BY <2>1 DEF SumBody
<1>2. Total = (CHOOSE f : f = body(f))[Threads]
  <2> HIDE DEF body
  <2> QED BY <1>1, Zenon DEF Total, Sum, IsSum
<1>3. MapThenSumSet(Stored, Threads) = (CHOOSE f : f = body(f))[Threads]
  BY Zenon DEF MapThenSumSet, MapThenFoldSet, Picked
<1> QED BY <1>2, <1>3

(* Updates of the shared variable are lost but never made up: the sum does *)
(* not exceed the number of stores, and is at least 2 once every thread has*)
(* stored twice, for every number of threads and particles and whichever   *)
(* threads jump out of a block.                                            *)
THEOREM SumStaysWithinBounds == Spec => []SumWithinBounds
<1>1. Inv => SumWithinBounds
  <2> SUFFICES ASSUME Inv PROVE SumWithinBounds
    OBVIOUS
  <2>1. sum <= MapThenSumSet(Stored, Threads)
    BY StoredSum DEF Inv, NoneMadeUp
  <2>2. ASSUME \A t \in Threads : stores[t] >= 2 PROVE sum >= 2
    BY <2>2 DEF Inv, SomeKept, Stored
  <2> QED BY <2>1, <2>2 DEF SumWithinBounds
<1> QED BY <1>1, InvInit, InvStep, PTL DEF Spec
=============================================================================
