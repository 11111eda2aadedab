--------------------------- MODULE GridFireProofs ---------------------------
(***************************************************************************)
(* Proofs about GridFire for every word size, number of CPUs and set of    *)
(* grid sizes.                                                             *)
(*                                                                         *)
(* The argument: thread t is given the indices Start(t)..Start(t+1)-1,     *)
(* where Start is a closed form of the offset that the loop accumulates.   *)
(* Start is monotone, Start(0) = 0 and Start(NumCpus) = size, so the       *)
(* ranges partition the grid; since the ranges are disjoint, only thread t *)
(* changes runs at the indices of its own range.                           *)
(***************************************************************************)
EXTENDS GridFire, TLAPS

(* The size 0 is excluded: end would wrap to Word - 1 for every thread.    *)
NonEmptyGrids == \A s \in Sizes : AsWord(s) # 0

(* The first index of thread t in a grid of size n, in closed form.        *)
Start(n, t) ==
  (t * (n \div NumCpus)) + (IF t < n % NumCpus THEN t ELSE n % NumCpus)

-----------------------------------------------------------------------------
(* Arithmetic of the ranges.                                               *)

LEMMA ModRange ==
  ASSUME NEW W \in Nat \ {0}, NEW x \in Int PROVE x % W \in 0..(W - 1)
  OBVIOUS

LEMMA ModSmall ==
  ASSUME NEW W \in Nat \ {0}, NEW x \in 0..(W - 1) PROVE x % W = x
  OBVIOUS

LEMMA Shares ==
  ASSUME size \in Words
  PROVE  /\ ParticlesPerCpu \in Nat
         /\ RemainderParticles \in 0..(NumCpus - 1)
         /\ size = (NumCpus * ParticlesPerCpu) + RemainderParticles
  BY GridFireAssumption DEF Words, ParticlesPerCpu, RemainderParticles

LEMMA NumParticlesType ==
  ASSUME size \in Words, NEW t \in Nat
  PROVE  NumParticles(t) \in Nat
  BY Shares DEF NumParticles

LEMMA StartStep ==
  ASSUME size \in Words, NEW t \in Nat
  PROVE  /\ Start(size, t) \in Nat
         /\ Start(size, t + 1) = Start(size, t) + NumParticles(t)
<1> DEFINE P == size \div NumCpus
           R == size % NumCpus
<1>1. P \in Nat /\ R \in Nat
  BY Shares, GridFireAssumption DEF ParticlesPerCpu, RemainderParticles
<1>2. NumParticles(t) = IF t < R THEN P + 1 ELSE P
  BY DEF NumParticles, ParticlesPerCpu, RemainderParticles
<1>3. \A u \in Nat : Start(size, u) = (u * P) + (IF u < R THEN u ELSE R)
  BY DEF Start
<1> HIDE DEF P, R
<1> DEFINE A == t * P
<1>4. A \in Nat /\ (t + 1) * P = A + P  BY <1>1
<1>5. Start(size, t) = A + (IF t < R THEN t ELSE R)  BY <1>3
<1>6. Start(size, t + 1) = (A + P) + (IF t + 1 < R THEN t + 1 ELSE R)
  BY <1>3, <1>4
<1> HIDE DEF A
<1> QED  BY <1>1, <1>2, <1>4, <1>5, <1>6

LEMMA StartMonotone ==
  ASSUME size \in Words, NEW s \in Nat, NEW t \in Nat, s <= t
  PROVE  Start(size, s) <= Start(size, t)
<1> DEFINE P == size \div NumCpus
           R == size % NumCpus
<1>1. P \in Nat /\ R \in Nat
  BY Shares, GridFireAssumption DEF ParticlesPerCpu, RemainderParticles
<1>2. \A u \in Nat : Start(size, u) = (u * P) + (IF u < R THEN u ELSE R)
  BY DEF Start
<1> HIDE DEF P, R
<1> DEFINE A == s * P
           B == t * P
<1>3. A \in Nat /\ B \in Nat /\ A <= B  BY <1>1
<1>4. /\ Start(size, s) = A + (IF s < R THEN s ELSE R)
      /\ Start(size, t) = B + (IF t < R THEN t ELSE R)
  BY <1>2
<1> HIDE DEF A, B
<1> QED  BY <1>1, <1>3, <1>4

LEMMA StartEnds ==
  ASSUME size \in Words
  PROVE  Start(size, 0) = 0 /\ Start(size, NumCpus) = size
<1>1. 0 * (size \div NumCpus) = 0
  BY Shares DEF ParticlesPerCpu
<1> QED
  BY <1>1, Shares, GridFireAssumption
     DEF Start, Words, ParticlesPerCpu, RemainderParticles

(* A grid that is not empty gives its first index to the first thread.     *)
LEMMA StartPositive ==
  ASSUME size \in Words, size # 0, NEW t \in Nat
  PROVE  Start(size, t + 1) >= 1
<1>1. Start(size, 1) = NumParticles(0)
  <2>1. Start(size, 0 + 1) = Start(size, 0) + NumParticles(0)  BY StartStep
  <2> QED  BY <2>1, StartEnds, NumParticlesType
<1>2. NumParticles(0) >= 1
  <2>1. NumCpus * 0 = 0  BY GridFireAssumption
  <2>2. ParticlesPerCpu # 0 \/ RemainderParticles # 0  BY <2>1, Shares DEF Words
  <2> QED  BY <2>2, Shares, GridFireAssumption DEF NumParticles
<1>3. Start(size, 1) <= Start(size, t + 1)  BY StartMonotone
<1>4. Start(size, 1) \in Nat /\ Start(size, t + 1) \in Nat  BY StartStep
<1> QED  BY <1>1, <1>2, <1>3, <1>4

(* The range of a thread lies within the grid.                             *)
LEMMA StartBound ==
  ASSUME size \in Words, NEW t \in Cpus
  PROVE  /\ t \in Nat
         /\ Start(size, t) \in Nat
         /\ Start(size, t + 1) \in Nat
         /\ Start(size, t) <= Start(size, t + 1)
         /\ Start(size, t + 1) <= size
<1>1. t \in Nat /\ NumCpus \in Nat /\ t + 1 <= NumCpus
  BY GridFireAssumption DEF Cpus
<1>2. Start(size, t) \in Nat /\ Start(size, t + 1) \in Nat
  BY <1>1, StartStep
<1>3. Start(size, t) <= Start(size, t + 1)  BY <1>1, StartMonotone
<1>4. Start(size, t + 1) <= Start(size, NumCpus)  BY <1>1, StartMonotone
<1> QED  BY <1>1, <1>2, <1>3, <1>4, StartEnds
-----------------------------------------------------------------------------
(* Types.                                                                  *)

TypeInv == TypeOK /\ (pc = "create" => i < NumCpus)

LEMMA TypeInit == Init => TypeInv
  BY GridFireAssumption, ModRange
     DEF Init, TypeInv, TypeOK, Words, Cpus, AsWord

LEMMA TypeStep == TypeInv /\ [Next]_vars => TypeInv'
<1> SUFFICES ASSUME TypeInv, [Next]_vars PROVE TypeInv'
  OBVIOUS
<1>0. Word \in Nat \ {0} /\ NumCpus \in Nat \ {0} /\ MaxFailures \in Nat
  BY GridFireAssumption
<1> USE <1>0 DEF TypeInv, TypeOK
<1>1. CASE Prepare
  <2>1. i \in Cpus /\ i \in Nat  BY <1>1 DEF Prepare, Cpus
  <2>2. offset + NumParticles(i) \in Int  BY <2>1, NumParticlesType DEF Words
  <2>3. offset' \in Words  BY <1>1, <2>2, ModRange DEF Prepare, Words
  <2>4. (offset' - 1) % Word \in Words
    <3>1. offset' - 1 \in Int  BY <2>3 DEF Words
    <3> QED  BY <3>1, ModRange DEF Words
  <2>5. params' \in [Cpus -> [begin : Words, end : Words]]
    BY <1>1, <2>1, <2>4 DEF Prepare
  <2> QED  BY <1>1, <2>3, <2>5 DEF Prepare
<1>2. CASE CreateThread
  <2>1. i < NumCpus /\ i \in Nat  BY <1>2 DEF CreateThread
  <2>2. i' \in 0..NumCpus  BY <1>2, <2>1 DEF CreateThread
  <2>3. tpc' \in [Cpus -> {"none", "head", "body"}]
    BY <1>2, <2>1 DEF CreateThread, Cpus
  <2> QED  BY <1>2, <2>2, <2>3 DEF CreateThread
<1>3. CASE CreateFails
  BY <1>3 DEF CreateFails
<1>4. CASE Return
  BY <1>4 DEF Return
<1>5. ASSUME NEW t \in Cpus, EnterPass(t) PROVE TypeInv'
  <2>1. params[t].begin \in Words  OBVIOUS
  <2> QED  BY <1>5, <2>1 DEF EnterPass, callerVars
<1>6. ASSUME NEW t \in Cpus, RunParticle(t) PROVE TypeInv'
  <2>1. (counter[t] + 1) % Word \in Words
    <3>1. counter[t] + 1 \in Int  BY DEF Words
    <3> QED  BY <3>1, ModRange DEF Words
  <2>2. counter' \in [Cpus -> Words]  BY <1>6, <2>1 DEF RunParticle
  <2>3. runs' \in [Words -> Nat]  BY <1>6 DEF RunParticle
  <2> QED  BY <1>6, <2>2, <2>3 DEF RunParticle, callerVars
<1>7. ASSUME NEW t \in Cpus, EndPass(t) PROVE TypeInv'
  BY <1>7 DEF EndPass, callerVars
<1>8. CASE Finished
  BY <1>8 DEF Finished, vars
<1>9. CASE UNCHANGED vars
  BY <1>9 DEF vars
<1> QED
  BY <1>1, <1>2, <1>3, <1>4, <1>5, <1>6, <1>7, <1>8, <1>9
     DEF Next, Caller, Thread

(* Every variable always holds a value of its type, an empty grid and      *)
(* failing thread creations included.                                      *)
THEOREM TypeCorrect == SafeSpec => []TypeOK
<1>1. TypeInv => TypeOK  BY DEF TypeInv
<1> QED  BY <1>1, TypeInit, TypeStep, PTL DEF SafeSpec
-----------------------------------------------------------------------------
(* The ranges.                                                             *)

(* The number of threads whose params have been filled in.                 *)
Prepared == IF pc = "create" THEN i + 1 ELSE i

OwnedBy(t, k) == Start(size, t) <= k /\ k < Start(size, t + 1)

(* What the caller has handed out so far: the offset is Start of the next  *)
(* thread, each prepared thread has the range that Start gives it, and     *)
(* every index below the offset is owned by a prepared thread.             *)
RangeInv ==
  /\ size # 0
  /\ pc = "returned" => i = NumCpus
  /\ offset = Start(size, Prepared)
  /\ \A t \in Cpus : t < Prepared =>
       params[t] = [begin |-> Start(size, t), end |-> Start(size, t + 1) - 1]
  /\ \A t \in Cpus : Started(t) => t < i
  /\ \A k \in Words : k < offset =>
       \E t \in Cpus : t < Prepared /\ OwnedBy(t, k)

RunInv ==
  /\ \A t \in Cpus : tpc[t] = "head" =>
       \A k \in Words : OwnedBy(t, k) => runs[k] = passes[t]
  /\ \A t \in Cpus : tpc[t] = "body" =>
       /\ Start(size, t) <= counter[t] /\ counter[t] <= Start(size, t + 1)
       /\ passes[t] < Rounds
       /\ \A k \in Words : OwnedBy(t, k) =>
            runs[k] = IF k < counter[t] THEN passes[t] + 1 ELSE passes[t]
  /\ \A k \in Words : runs[k] > 0 =>
       \E t \in Cpus : Started(t) /\ OwnedBy(t, k)
  /\ \A t \in Cpus : ~Started(t) => passes[t] = 0

LEMMA RangeInit == NonEmptyGrids /\ Init => RangeInv
<1> SUFFICES ASSUME NonEmptyGrids, Init PROVE RangeInv
  OBVIOUS
<1>1. size \in Words /\ size # 0
  BY GridFireAssumption, TypeInit DEF Init, TypeInv, TypeOK, NonEmptyGrids
<1>2. offset = Start(size, 0) /\ Prepared = 0
  BY <1>1, StartEnds DEF Init, Prepared
<1> QED  BY <1>1, <1>2, GridFireAssumption DEF Init, RangeInv, Started, Cpus, Words

(* A step of a thread, or of nobody, leaves the ranges alone.              *)
LEMMA RangeThreadStep ==
  ASSUME TypeInv, RangeInv, UNCHANGED callerVars,
         \A t \in Cpus : Started(t)' => Started(t)
  PROVE  RangeInv'
  BY DEF RangeInv, callerVars, Prepared, OwnedBy

LEMMA RangePrepare == TypeInv /\ RangeInv /\ Prepare => RangeInv'
<1> SUFFICES ASSUME TypeInv, RangeInv, Prepare PROVE RangeInv'
  OBVIOUS
<1>1. /\ size \in Words /\ size # 0
      /\ i \in Cpus /\ i \in Nat /\ i < NumCpus
      /\ Word \in Nat /\ Word >= 1
  BY GridFireAssumption DEF TypeInv, TypeOK, RangeInv, Prepare, Cpus
<1>2. Prepared = i /\ Prepared' = i + 1 /\ size' = size /\ i' = i
  BY DEF Prepare, Prepared
<1>3. /\ Start(size, i) \in Nat /\ Start(size, i + 1) \in Nat
      /\ Start(size, i) <= Start(size, i + 1)
      /\ Start(size, i + 1) <= size
      /\ Start(size, i + 1) >= 1
      /\ Start(size, i + 1) = Start(size, i) + NumParticles(i)
  BY <1>1, StartBound, StartStep, StartPositive
<1>4. offset = Start(size, i)
  BY <1>2 DEF RangeInv
<1>5. offset' = Start(size, i + 1)
  <2>1. Start(size, i + 1) \in 0..(Word - 1)  BY <1>1, <1>3 DEF Words
  <2> QED  BY <1>3, <1>4, <2>1, ModSmall, GridFireAssumption DEF Prepare
<1>6. params'[i] = [begin |-> Start(size, i), end |-> Start(size, i + 1) - 1]
  <2>1. Start(size, i + 1) - 1 \in 0..(Word - 1)  BY <1>1, <1>3 DEF Words
  <2>2. (offset' - 1) % Word = Start(size, i + 1) - 1
    BY <1>5, <2>1, ModSmall, GridFireAssumption
  <2> QED  BY <1>1, <1>4, <2>2 DEF Prepare, TypeInv, TypeOK
<1>7. ASSUME NEW t \in Cpus, t < Prepared'
      PROVE  params'[t] = [begin |-> Start(size, t), end |-> Start(size, t + 1) - 1]
  <2>1. CASE t = i  BY <2>1, <1>6
  <2>2. CASE t # i
    <3>1. t < Prepared  BY <1>1, <1>2, <1>7, <2>2, GridFireAssumption DEF Cpus
    <3>2. params'[t] = params[t]  BY <2>2 DEF Prepare, TypeInv, TypeOK
    <3> QED  BY <3>1, <3>2 DEF RangeInv
  <2> QED  BY <2>1, <2>2
<1>8. ASSUME NEW k \in Words, k < offset'
      PROVE  \E t \in Cpus : t < Prepared' /\ OwnedBy(t, k)
  <2>1. CASE k < offset
    <3>1. PICK t \in Cpus : t < Prepared /\ OwnedBy(t, k)
      BY <2>1 DEF RangeInv
    <3>2. t < Prepared'  BY <1>1, <1>2, <3>1, GridFireAssumption DEF Cpus
    <3> QED  BY <3>1, <3>2
  <2>2. CASE ~(k < offset)
    <3>1. OwnedBy(i, k)  BY <1>3, <1>4, <1>5, <1>8, <2>2 DEF OwnedBy, Words
    <3>2. i < Prepared'  BY <1>1, <1>2
    <3> QED  BY <1>1, <3>1, <3>2
  <2> QED  BY <2>1, <2>2
<1>9. \A t \in Cpus : Started(t)' => t < i'
  BY <1>2 DEF Prepare, RangeInv, Started
<1>10. pc' # "returned"  BY DEF Prepare
<1>11. offset' = Start(size', Prepared')  BY <1>2, <1>5
<1> QED  BY <1>1, <1>2, <1>7, <1>8, <1>9, <1>10, <1>11 DEF RangeInv, OwnedBy

(* The creation of thread i, or its failure, makes the next one current.   *)
LEMMA RangeCreate ==
  TypeInv /\ RangeInv /\ (CreateThread \/ CreateFails) => RangeInv'
<1> SUFFICES ASSUME TypeInv, RangeInv, CreateThread \/ CreateFails
             PROVE  RangeInv'
  OBVIOUS
<1>1. /\ Prepared' = Prepared
      /\ size' = size /\ offset' = offset /\ params' = params
      /\ i \in Nat /\ i' = i + 1 /\ pc' = "prepare"
  BY GridFireAssumption DEF CreateThread, CreateFails, Prepared, TypeInv, TypeOK
<1>2. ASSUME NEW t \in Cpus, Started(t)' PROVE t < i'
  <2>1. CASE t = i  BY <1>1, <2>1
  <2>2. CASE t # i
    <3>1. Started(t)
      BY <1>2, <2>2 DEF CreateThread, CreateFails, Started, TypeInv, TypeOK
    <3>2. t < i  BY <3>1 DEF RangeInv
    <3> QED  BY <1>1, <3>2, GridFireAssumption DEF Cpus
  <2> QED  BY <2>1, <2>2
<1> QED  BY <1>1, <1>2 DEF RangeInv, OwnedBy

LEMMA RangeStep == TypeInv /\ RangeInv /\ [Next]_vars => RangeInv'
<1> SUFFICES ASSUME TypeInv, RangeInv, [Next]_vars PROVE RangeInv'
  OBVIOUS
<1>1. CASE Prepare  BY <1>1, RangePrepare
<1>2. CASE CreateThread \/ CreateFails  BY <1>2, RangeCreate
<1>3. CASE Return
  BY <1>3 DEF Return, RangeInv, Prepared, OwnedBy, Started
<1>4. ASSUME NEW t \in Cpus, Thread(t) PROVE RangeInv'
  <2>1. UNCHANGED callerVars
    BY <1>4 DEF Thread, EnterPass, RunParticle, EndPass
  <2>2. \A u \in Cpus : Started(u)' => Started(u)
    BY <1>4 DEF Thread, EnterPass, RunParticle, EndPass, Started,
                TypeInv, TypeOK
  <2> QED  BY <2>1, <2>2, RangeThreadStep
<1>5. CASE Finished \/ UNCHANGED vars
  <2>1. UNCHANGED callerVars /\ UNCHANGED tpc
    BY <1>5 DEF Finished, vars, callerVars
  <2> QED  BY <2>1, RangeThreadStep DEF Started
<1> QED  BY <1>1, <1>2, <1>3, <1>4, <1>5 DEF Next, Caller
-----------------------------------------------------------------------------
(* The executions.                                                         *)

(* Two threads never own the same index.                                   *)
LEMMA OneOwner ==
  ASSUME size \in Words, NEW s \in Cpus, NEW t \in Cpus, NEW k \in Words,
         OwnedBy(s, k), OwnedBy(t, k)
  PROVE  s = t
<1>1. s \in Nat /\ t \in Nat /\ k \in Int
  BY GridFireAssumption DEF Cpus, Words
<1>2. /\ Start(size, s) \in Nat /\ Start(size, s + 1) \in Nat
      /\ Start(size, t) \in Nat /\ Start(size, t + 1) \in Nat
  BY StartBound
<1>3. CASE s < t
  <2>1. Start(size, s + 1) <= Start(size, t)  BY <1>1, <1>3, StartMonotone
  <2> QED  BY <1>1, <1>2, <2>1 DEF OwnedBy
<1>4. CASE t < s
  <2>1. Start(size, t + 1) <= Start(size, s)  BY <1>1, <1>4, StartMonotone
  <2> QED  BY <1>1, <1>2, <2>1 DEF OwnedBy
<1> QED  BY <1>1, <1>3, <1>4

(* The range of a prepared thread is what it owns.                         *)
LEMMA PreparedRange ==
  ASSUME TypeInv, RangeInv, NEW t \in Cpus, t < Prepared
  PROVE  /\ params[t].begin = Start(size, t)
         /\ params[t].end = Start(size, t + 1) - 1
         /\ \A k \in Words : k \in RangeOf(t) <=> OwnedBy(t, k)
<1>1. params[t] = [begin |-> Start(size, t), end |-> Start(size, t + 1) - 1]
  BY DEF RangeInv
<1>2. Start(size, t) \in Nat /\ Start(size, t + 1) \in Nat
  BY StartBound DEF TypeInv, TypeOK
<1> QED  BY <1>1, <1>2 DEF RangeOf, OwnedBy, Words

LEMMA StartedRange ==
  ASSUME TypeInv, RangeInv, NEW t \in Cpus, Started(t)
  PROVE  /\ params[t].begin = Start(size, t)
         /\ params[t].end = Start(size, t + 1) - 1
         /\ \A k \in Words : k \in RangeOf(t) <=> OwnedBy(t, k)
<1>1. t \in Int /\ i \in Int /\ t < i
  BY GridFireAssumption DEF RangeInv, Cpus, TypeInv, TypeOK
<1>2. t < Prepared  BY <1>1 DEF Prepared
<1> QED  BY <1>2, PreparedRange

LEMMA RunInit == Init => RunInv
  BY DEF Init, RunInv, Started

(* The caller does not touch the executions; it starts threads that have   *)
(* not run anything yet.                                                   *)
LEMMA RunCreate == TypeInv /\ RangeInv /\ RunInv /\ CreateThread => RunInv'
<1> SUFFICES ASSUME TypeInv, RangeInv, RunInv, CreateThread PROVE RunInv'
  OBVIOUS
<1>1. /\ size' = size /\ runs' = runs /\ passes' = passes /\ counter' = counter
      /\ i \in Cpus
      /\ tpc' = [tpc EXCEPT ![i] = "head"]
      /\ tpc \in [Cpus -> {"none", "head", "body"}]
  BY GridFireAssumption DEF CreateThread, TypeInv, TypeOK, Cpus
<1>2. ~Started(i) /\ passes[i] = 0
  <2>1. ~(i < i)  BY DEF TypeInv, TypeOK
  <2> QED  BY <1>1, <2>1 DEF RangeInv, RunInv
<1>3. \A k \in Words : OwnedBy(i, k) => runs[k] = 0
  <2> SUFFICES ASSUME NEW k \in Words, OwnedBy(i, k), runs[k] # 0 PROVE FALSE
    OBVIOUS
  <2>1. runs[k] > 0  BY DEF TypeInv, TypeOK
  <2>2. PICK t \in Cpus : Started(t) /\ OwnedBy(t, k)  BY <2>1 DEF RunInv
  <2>3. t = i  BY <1>1, <2>2, OneOwner DEF TypeInv, TypeOK
  <2> QED  BY <1>2, <2>2, <2>3
<1>4. \A t \in Cpus : t # i => tpc'[t] = tpc[t]  BY <1>1
<1>5. tpc'[i] = "head"  BY <1>1
<1>6. \A t \in Cpus : \A k \in Words : OwnedBy(t, k)' <=> OwnedBy(t, k)
  BY <1>1 DEF OwnedBy
<1>7. ASSUME NEW t \in Cpus, tpc'[t] = "head",
             NEW k \in Words, OwnedBy(t, k)
      PROVE  runs'[k] = passes'[t]
  <2>1. CASE t = i  BY <1>1, <1>2, <1>3, <1>7, <2>1
  <2>2. CASE t # i  BY <1>1, <1>4, <1>7, <2>2 DEF RunInv
  <2> QED  BY <2>1, <2>2
<1>8. ASSUME NEW t \in Cpus, tpc'[t] = "body"
      PROVE  /\ Start(size', t) <= counter'[t]
             /\ counter'[t] <= Start(size', t + 1)
             /\ passes'[t] < Rounds
             /\ \A k \in Words : OwnedBy(t, k)' =>
                  runs'[k] = IF k < counter'[t] THEN passes'[t] + 1
                             ELSE passes'[t]
  <2>1. tpc[t] = "body"  BY <1>4, <1>5, <1>8
  <2> QED  BY <1>1, <1>6, <2>1 DEF RunInv
<1>9. \A t \in Cpus : Started(t) => Started(t)'
  BY <1>4, <1>5 DEF Started
<1>10. ASSUME NEW k \in Words, runs'[k] > 0
       PROVE  \E t \in Cpus : Started(t)' /\ OwnedBy(t, k)'
  BY <1>1, <1>6, <1>9, <1>10 DEF RunInv
<1>11. \A t \in Cpus : ~Started(t)' => passes'[t] = 0
  BY <1>1, <1>9 DEF RunInv
<1> QED  BY <1>6, <1>7, <1>8, <1>10, <1>11 DEF RunInv

LEMMA RunCallerStep ==
  ASSUME RunInv, UNCHANGED <<size, tpc, counter, passes, runs>>
  PROVE  RunInv'
  BY DEF RunInv, OwnedBy, Started

(* A thread changes only its own program counter, counter and passes, and  *)
(* runs only at the indices it owns.  What is left to show of each of its  *)
(* actions is what RunInv says of that thread.                             *)
LEMMA RunThreadStep ==
  ASSUME TypeInv, RangeInv, RunInv, UNCHANGED callerVars, NEW t \in Cpus,
         Started(t), Started(t)',
         \A u \in Cpus : u # t => /\ tpc'[u] = tpc[u]
                                  /\ counter'[u] = counter[u]
                                  /\ passes'[u] = passes[u],
         \A k \in Words : ~OwnedBy(t, k) => runs'[k] = runs[k],
         tpc'[t] = "head" =>
           \A k \in Words : OwnedBy(t, k) => runs'[k] = passes'[t],
         tpc'[t] = "body" =>
           /\ Start(size, t) <= counter'[t] /\ counter'[t] <= Start(size, t + 1)
           /\ passes'[t] < Rounds
           /\ \A k \in Words : OwnedBy(t, k) =>
                runs'[k] = IF k < counter'[t] THEN passes'[t] + 1
                           ELSE passes'[t]
  PROVE  RunInv'
<1>1. size' = size  BY DEF callerVars
<1>2. \A u \in Cpus : \A k \in Words : OwnedBy(u, k)' <=> OwnedBy(u, k)
  BY <1>1 DEF OwnedBy
<1>3. \A u \in Cpus : \A k \in Words :
        u # t /\ OwnedBy(u, k) => runs'[k] = runs[k]
  BY OneOwner DEF TypeInv, TypeOK
<1>4. ASSUME NEW u \in Cpus, tpc'[u] = "head",
             NEW k \in Words, OwnedBy(u, k)
      PROVE  runs'[k] = passes'[u]
  <2>1. CASE u = t  BY <1>4, <2>1
  <2>2. CASE u # t  BY <1>3, <1>4, <2>2 DEF RunInv
  <2> QED  BY <2>1, <2>2
<1>5. ASSUME NEW u \in Cpus, tpc'[u] = "body"
      PROVE  /\ Start(size', u) <= counter'[u]
             /\ counter'[u] <= Start(size', u + 1)
             /\ passes'[u] < Rounds
             /\ \A k \in Words : OwnedBy(u, k)' =>
                  runs'[k] = IF k < counter'[u] THEN passes'[u] + 1
                             ELSE passes'[u]
  <2>1. CASE u = t  BY <1>1, <1>2, <1>5, <2>1
  <2>2. CASE u # t
    <3>1. tpc[u] = "body"  BY <1>5, <2>2
    <3> QED  BY <1>1, <1>2, <1>3, <2>2, <3>1 DEF RunInv
  <2> QED  BY <2>1, <2>2
<1>6. ASSUME NEW k \in Words, runs'[k] > 0
      PROVE  \E u \in Cpus : Started(u)' /\ OwnedBy(u, k)'
  <2>1. CASE OwnedBy(t, k)  BY <1>2, <2>1
  <2>2. CASE ~OwnedBy(t, k)
    <3>1. PICK u \in Cpus : Started(u) /\ OwnedBy(u, k)
      BY <1>6, <2>2 DEF RunInv
    <3>2. u # t /\ Started(u)'  BY <2>2, <3>1 DEF Started
    <3> QED  BY <1>2, <3>1, <3>2
  <2> QED  BY <2>1, <2>2
<1>7. \A u \in Cpus : ~Started(u)' => passes'[u] = 0
  BY DEF RunInv, Started
<1> QED  BY <1>2, <1>4, <1>5, <1>6, <1>7 DEF RunInv

LEMMA RunEnterPass ==
  ASSUME TypeInv, RangeInv, RunInv, NEW t \in Cpus, EnterPass(t)
  PROVE  RunInv'
<1>1. Started(t) /\ Started(t)' /\ tpc[t] = "head" /\ tpc'[t] = "body"
  BY DEF EnterPass, Started, TypeInv, TypeOK
<1>2. counter'[t] = Start(size, t)
  BY <1>1, StartedRange DEF EnterPass, TypeInv, TypeOK
<1>3. /\ UNCHANGED callerVars /\ passes' = passes /\ runs' = runs
      /\ passes[t] < Rounds
      /\ \A u \in Cpus : u # t => tpc'[u] = tpc[u] /\ counter'[u] = counter[u]
  BY DEF EnterPass, TypeInv, TypeOK
<1>4. /\ Start(size, t) \in Nat /\ Start(size, t + 1) \in Nat
      /\ Start(size, t) <= Start(size, t + 1)
  BY StartBound DEF TypeInv, TypeOK
<1>5. \A k \in Words : OwnedBy(t, k) =>
        runs'[k] = IF k < counter'[t] THEN passes'[t] + 1 ELSE passes'[t]
  <2> SUFFICES ASSUME NEW k \in Words, OwnedBy(t, k)
               PROVE  runs[k] = passes[t] /\ ~(k < Start(size, t))
    BY <1>2, <1>3
  <2>1. runs[k] = passes[t]  BY <1>1 DEF RunInv
  <2>2. ~(k < Start(size, t))  BY <1>4 DEF OwnedBy, Words
  <2> QED  BY <2>1, <2>2
<1>6. Start(size, t) <= counter'[t] /\ counter'[t] <= Start(size, t + 1)
  BY <1>2, <1>4
<1>7. tpc'[t] # "head"  BY <1>1
<1> QED  BY <1>1, <1>3, <1>5, <1>6, <1>7, RunThreadStep

(* The particle that runs is owned by the thread that runs it, has been    *)
(* run once per completed pass, and its index does not wrap.               *)
LEMMA RunningIndex ==
  ASSUME TypeInv, RangeInv, RunInv, NEW t \in Cpus, RunParticle(t)
  PROVE  /\ counter[t] \in Words
         /\ OwnedBy(t, counter[t])
         /\ counter[t] < size
         /\ runs[counter[t]] = passes[t]
         /\ passes[t] < Rounds
         /\ counter'[t] = counter[t] + 1
<1>1. Started(t) /\ tpc[t] = "body" /\ counter[t] \in Words /\ counter[t] \in Nat
  BY GridFireAssumption DEF RunParticle, Started, TypeInv, TypeOK, Words
<1>2. /\ Start(size, t) \in Nat /\ Start(size, t + 1) \in Nat
      /\ Start(size, t + 1) <= size
      /\ size \in Nat /\ size < Word /\ Word \in Nat
  BY StartBound, GridFireAssumption DEF TypeInv, TypeOK, Words
<1>3. params[t].end = Start(size, t + 1) - 1  BY <1>1, StartedRange
<1>4. counter[t] < Start(size, t + 1)
  BY <1>1, <1>2, <1>3 DEF RunParticle, InRange
<1>5. OwnedBy(t, counter[t])  BY <1>1, <1>4 DEF RunInv, OwnedBy
<1>6. runs[counter[t]] = passes[t] /\ passes[t] < Rounds
  BY <1>1, <1>5 DEF RunInv
<1>7. counter'[t] = counter[t] + 1
  <2>1. counter[t] + 1 \in 0..(Word - 1)  BY <1>1, <1>2, <1>4
  <2>2. (counter[t] + 1) % Word = counter[t] + 1
    BY <2>1, ModSmall, GridFireAssumption
  <2> QED  BY <2>2 DEF RunParticle, TypeInv, TypeOK
<1>8. counter[t] < size  BY <1>1, <1>2, <1>4
<1> QED  BY <1>1, <1>5, <1>6, <1>7, <1>8

LEMMA RunRunParticle ==
  ASSUME TypeInv, RangeInv, RunInv, NEW t \in Cpus, RunParticle(t)
  PROVE  RunInv'
<1>1. Started(t) /\ tpc[t] = "body" /\ tpc' = tpc
  BY DEF RunParticle, Started
<1>2. /\ UNCHANGED callerVars /\ passes' = passes
      /\ \A u \in Cpus : u # t => counter'[u] = counter[u]
      /\ \A k \in Words : k # counter[t] => runs'[k] = runs[k]
      /\ runs'[counter[t]] = runs[counter[t]] + 1
  BY RunningIndex DEF RunParticle, TypeInv, TypeOK
<1>3. /\ counter'[t] = counter[t] + 1 /\ counter[t] \in Nat
      /\ OwnedBy(t, counter[t]) /\ passes[t] < Rounds
      /\ runs[counter[t]] = passes[t]
  BY RunningIndex, GridFireAssumption DEF Words
<1>4. \A k \in Words : OwnedBy(t, k) =>
        runs'[k] = IF k < counter'[t] THEN passes'[t] + 1 ELSE passes'[t]
  <2> SUFFICES ASSUME NEW k \in Words, OwnedBy(t, k)
               PROVE  runs'[k] = IF k < counter[t] + 1 THEN passes[t] + 1
                                 ELSE passes[t]
    BY <1>2, <1>3
  <2>1. CASE k = counter[t]  BY <1>2, <1>3, <2>1
  <2>2. CASE k # counter[t]
    <3>1. runs'[k] = IF k < counter[t] THEN passes[t] + 1 ELSE passes[t]
      BY <1>1, <1>2, <2>2 DEF RunInv
    <3>2. k < counter[t] + 1 <=> k < counter[t]
      BY <1>3, <2>2, GridFireAssumption DEF Words
    <3> QED  BY <3>1, <3>2
  <2> QED  BY <2>1, <2>2
<1>5. Start(size, t) <= counter'[t] /\ counter'[t] <= Start(size, t + 1)
  <2>1. Start(size, t) \in Nat /\ Start(size, t + 1) \in Nat
    BY StartBound DEF TypeInv, TypeOK
  <2> QED  BY <1>3, <2>1 DEF OwnedBy
<1>6. \A k \in Words : ~OwnedBy(t, k) => runs'[k] = runs[k]
  BY <1>2, <1>3
<1>7. Started(t)' /\ tpc'[t] # "head"  BY <1>1 DEF Started
<1>8. \A u \in Cpus : u # t => /\ tpc'[u] = tpc[u]
                               /\ counter'[u] = counter[u]
                               /\ passes'[u] = passes[u]
  BY <1>1, <1>2
<1>9. passes'[t] < Rounds  BY <1>2, <1>3
<1> QED  BY <1>1, <1>2, <1>4, <1>5, <1>6, <1>7, <1>8, <1>9, RunThreadStep

LEMMA RunEndPass ==
  ASSUME TypeInv, RangeInv, RunInv, NEW t \in Cpus, EndPass(t)
  PROVE  RunInv'
<1>1. Started(t) /\ Started(t)' /\ tpc[t] = "body" /\ tpc'[t] = "head"
  BY DEF EndPass, Started, TypeInv, TypeOK
<1>2. /\ UNCHANGED callerVars /\ runs' = runs /\ counter' = counter
      /\ passes'[t] = passes[t] + 1
      /\ \A u \in Cpus : u # t => tpc'[u] = tpc[u] /\ passes'[u] = passes[u]
  BY DEF EndPass, TypeInv, TypeOK
<1>3. \A k \in Words : OwnedBy(t, k) => runs'[k] = passes'[t]
  <2> SUFFICES ASSUME NEW k \in Words, OwnedBy(t, k) PROVE k < counter[t]
    BY <1>1, <1>2 DEF RunInv
  <2>1. params[t].end = Start(size, t + 1) - 1  BY <1>1, StartedRange
  <2>2. Start(size, t + 1) \in Nat  BY StartBound DEF TypeInv, TypeOK
  <2>3. counter[t] \in Nat /\ k \in Nat
    BY GridFireAssumption DEF TypeInv, TypeOK, Words
  <2> QED  BY <2>1, <2>2, <2>3 DEF EndPass, InRange, OwnedBy
<1> QED  BY <1>1, <1>2, <1>3, RunThreadStep

LEMMA RunStep == TypeInv /\ RangeInv /\ RunInv /\ [Next]_vars => RunInv'
<1> SUFFICES ASSUME TypeInv, RangeInv, RunInv, [Next]_vars PROVE RunInv'
  OBVIOUS
<1>1. CASE Prepare \/ CreateFails \/ Return \/ Finished \/ UNCHANGED vars
  BY <1>1, RunCallerStep DEF Prepare, CreateFails, Return, Finished, vars
<1>2. CASE CreateThread  BY <1>2, RunCreate
<1>3. ASSUME NEW t \in Cpus, Thread(t) PROVE RunInv'
  BY <1>3, RunEnterPass, RunRunParticle, RunEndPass DEF Thread
<1> QED  BY <1>1, <1>2, <1>3 DEF Next, Caller
-----------------------------------------------------------------------------
(* The theorems.                                                           *)

GridInv == TypeInv /\ RangeInv /\ RunInv

LEMMA GridInvariant == NonEmptyGrids => (SafeSpec => []GridInv)
<1>1. NonEmptyGrids /\ Init => GridInv
  BY TypeInit, RangeInit, RunInit DEF GridInv
<1>2. GridInv /\ [Next]_vars => GridInv'
  BY TypeStep, RangeStep, RunStep DEF GridInv
<1> QED  BY <1>1, <1>2, PTL DEF SafeSpec

(* For every number of CPUs and every grid that is not empty, the ranges   *)
(* that the loop of __k_fireParticlesInGrid hands out partition the grid.  *)
THEOREM Partition == NonEmptyGrids => (SafeSpec => []RangesPartition)
<1>1. ASSUME GridInv PROVE RangesPartition
  <2> SUFFICES ASSUME pc = "returned"
               PROVE  /\ \A k \in Words :
                           k < size <=> \E t \in Cpus : k \in RangeOf(t)
                      /\ \A s, t \in Cpus :
                           s # t => RangeOf(s) \cap RangeOf(t) = {}
    BY DEF RangesPartition
  <2> USE <1>1 DEF GridInv
  <2>1. Prepared = NumCpus /\ offset = size /\ size \in Words
    BY StartEnds DEF RangeInv, Prepared, TypeInv, TypeOK
  <2>2. \A t \in Cpus : t < Prepared
    BY <2>1, GridFireAssumption DEF Cpus
  <2>3. \A t \in Cpus : \A k \in Words : k \in RangeOf(t) <=> OwnedBy(t, k)
    BY <2>2, PreparedRange
  <2>4. ASSUME NEW k \in Words, k < size PROVE \E t \in Cpus : k \in RangeOf(t)
    BY <2>1, <2>3, <2>4 DEF RangeInv
  <2>5. ASSUME NEW k \in Words, NEW t \in Cpus, k \in RangeOf(t)
        PROVE  k < size
    <3>1. OwnedBy(t, k)  BY <2>3, <2>5
    <3>2. Start(size, t + 1) \in Nat /\ Start(size, t + 1) <= size
      BY <2>1, StartBound
    <3> QED  BY <2>1, <3>1, <3>2, GridFireAssumption DEF OwnedBy, Words
  <2>6. ASSUME NEW s \in Cpus, NEW t \in Cpus, s # t
        PROVE  RangeOf(s) \cap RangeOf(t) = {}
    <3> SUFFICES ASSUME NEW k \in RangeOf(s), k \in RangeOf(t) PROVE FALSE
      OBVIOUS
    <3>1. k \in Words  BY DEF RangeOf
    <3> QED  BY <2>1, <2>3, <2>6, <3>1, OneOwner
  <2> QED  BY <2>4, <2>5, <2>6
<1> QED  BY <1>1, GridInvariant, PTL

(* No thread gets two particles more than another.                         *)
THEOREM FairShares == NonEmptyGrids => (SafeSpec => []Balanced)
<1>1. ASSUME GridInv, pc = "returned", NEW t \in Cpus
      PROVE  /\ Width(t) = NumParticles(t) - 1
             /\ NumParticles(t) \in {ParticlesPerCpu, ParticlesPerCpu + 1}
             /\ ParticlesPerCpu \in Nat
  <2> USE <1>1 DEF GridInv
  <2>1. Prepared = NumCpus /\ size \in Words /\ t \in Nat /\ t < NumCpus
    BY GridFireAssumption DEF RangeInv, Prepared, TypeInv, TypeOK, Cpus
  <2>2. /\ Start(size, t) \in Nat /\ NumParticles(t) \in Nat
        /\ Start(size, t + 1) = Start(size, t) + NumParticles(t)
    BY <2>1, StartStep, NumParticlesType
  <2>3. Width(t) = (Start(size, t + 1) - 1) - Start(size, t)
    BY <2>1, PreparedRange DEF Width
  <2> QED  BY <2>1, <2>2, <2>3, Shares DEF NumParticles
<1>2. GridInv => Balanced
  <2> SUFFICES ASSUME GridInv, pc = "returned", NEW s \in Cpus, NEW t \in Cpus
               PROVE  Width(s) <= Width(t) + 1
    BY DEF Balanced
  <2> QED  BY <1>1
<1> QED  BY <1>2, GridInvariant, PTL

(* For every interleaving of the caller with any number of threads, and    *)
(* whichever threads could not be created, each started thread runs every  *)
(* index of its range once per pass, and nothing else is run.              *)
THEOREM RunsOncePerPass == NonEmptyGrids => (SafeSpec => []OncePerPass)
<1>1. ASSUME GridInv PROVE OncePerPass
  <2> USE <1>1 DEF GridInv
  <2>1. ASSUME NEW t \in Cpus, Started(t), NEW k \in RangeOf(t)
        PROVE  /\ passes[t] <= runs[k] /\ runs[k] <= passes[t] + 1
               /\ tpc[t] # "body" => runs[k] = passes[t]
    <3>1. k \in Words /\ OwnedBy(t, k)  BY <2>1, StartedRange DEF RangeOf
    <3>2. passes[t] \in Nat /\ runs[k] \in Nat
      BY <3>1 DEF TypeInv, TypeOK
    <3>3. CASE tpc[t] = "body"
      <4>1. runs[k] = IF k < counter[t] THEN passes[t] + 1 ELSE passes[t]
        BY <3>1, <3>3 DEF RunInv
      <4> QED  BY <3>2, <3>3, <4>1
    <3>4. CASE tpc[t] # "body"
      <4>1. tpc[t] = "head"
        BY <2>1, <3>4 DEF Started, TypeInv, TypeOK
      <4>2. runs[k] = passes[t]  BY <3>1, <4>1 DEF RunInv
      <4> QED  BY <3>2, <4>2
    <3> QED  BY <3>3, <3>4
  <2>2. ASSUME NEW k \in Words, runs[k] > 0
        PROVE  \E t \in Cpus : Started(t) /\ k \in RangeOf(t)
    BY <2>2, StartedRange DEF RunInv
  <2> QED  BY <2>1, <2>2 DEF OncePerPass
<1> QED  BY <1>1, GridInvariant, PTL

(* The caller and its threads implement the grid: what they do to the      *)
(* executions is the abstract Run of one index of the grid, or nothing.    *)
THEOREM Refinement == NonEmptyGrids => (SafeSpec => RefinesGrid)
<1>1. Init => G!Init
  BY TypeInit DEF Init, G!Init, G!Words, Words, TypeInv, TypeOK
<1>2. ASSUME GridInv, [Next]_vars PROVE [G!Next]_(G!vars)
  <2>1. CASE Caller \/ Finished \/ UNCHANGED vars
    BY <2>1 DEF Caller, Prepare, CreateThread, CreateFails, Return, Finished,
                vars, G!vars
  <2>2. ASSUME NEW t \in Cpus, RunParticle(t) PROVE G!Run(counter[t])
    BY <1>2, <2>2, RunningIndex
       DEF GridInv, RunParticle, callerVars, G!Run, G!Indices, G!Words, Words
  <2>3. ASSUME NEW t \in Cpus, RunParticle(t) PROVE G!Next
    BY <1>2, <2>2, <2>3, RunningIndex DEF GridInv, G!Next, G!Words, Words
  <2>4. ASSUME NEW t \in Cpus, EnterPass(t) \/ EndPass(t)
        PROVE  UNCHANGED G!vars
    BY <2>4 DEF EnterPass, EndPass, callerVars, G!vars
  <2> QED  BY <1>2, <2>1, <2>3, <2>4 DEF Next, Thread
<1> QED  BY <1>1, <1>2, GridInvariant, PTL DEF SafeSpec, RefinesGrid, G!SafeSpec
=============================================================================
