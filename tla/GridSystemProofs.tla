-------------------------- MODULE GridSystemProofs --------------------------
(***************************************************************************)
(* Proofs about GridSystem for every set of callers, particles and         *)
(* structs.                                                                *)
(*                                                                         *)
(* The argument: the flag is stored by a caller that has also stored, or   *)
(* still has to store, numCpus, and whoever is past __k_system_init finds  *)
(* the flag set.  A caller can only have set a particle after the flag was *)
(* set, so as long as an initialisation runs alone nobody has, and the     *)
(* zeros that it stores undo nothing.                                      *)
(***************************************************************************)
EXTENDS GridSystem, TLAPS

(* The stores of numCpus and of the flag that caller c still owes.         *)
OwesCpus(c) == pc[c] = "init" /\ 3 \in todo[c]
OwesFlag(c) == pc[c] = "init" /\ 4 \in todo[c]

(* The caller is past a call of __k_system_init.                           *)
Past(c) == pc[c] \in {"setParticle", "setArgs", "guard", "readParticle",
                      "readArgs", "divide"}

(* Caller c is in __k_system_init and goes on at l.                        *)
Initialising(c, l) == pc[c] \in {"check", "init"} /\ after[c] = l

(* The caller is in the second part of a fire call.                        *)
Firing(c) == pc[c] = "divide" \/ Initialising(c, "divide")

(* No other caller has ever called.                                        *)
Lone(c) == \A d \in Callers \ {c} : calls[d] = 0

(* Who has begun to call, and where its calls can be.                      *)
Calling ==
  \A c \in Callers :
    /\ calls[c] = 0 => pc[c] = "idle"
    /\ pc[c] # "idle" => outcome[c] = "none"
    /\ pc[c] \in {"check", "init"} => after[c] # "idle"
    /\ pc[c] = "setParticle" \/ Initialising(c, "setParticle")
         => arg[c][1] # Null

(* Whoever is past the initialisation finds the flag set.                  *)
PastFlag == \A c \in Callers : Past(c) => initialized

(* Nobody has set a particle before the flag is set.                       *)
NothingSet == ~initialized => \A c \in Callers : lastSet[c] = NoPair

(* What has not been stored is still to be stored, and in a build that     *)
(* keeps the order numCpus is stored before the flag.                      *)
Owing ==
  /\ \A c \in Callers : pc[c] = "init" =>
       /\ initialized \/ OwesFlag(c)
       /\ numCpus = SysCpus \/ OwesCpus(c)
  /\ initialized =>
       numCpus = SysCpus \/ (reordered /\ \E c \in Callers : OwesCpus(c))

(* While no initialisation has run during a call of another caller.        *)
Alone ==
  ~overlap =>
    \A c \in Callers :
      /\ pc[c] = "init" => /\ \A d \in Callers \ {c} : pc[d] = "idle"
                           /\ \A d \in Callers : lastSet[d] = NoPair
      /\ lastSet[c] # NoPair \/ pc[c] \in {"setArgs", "readParticle"}
           => activeParticle # Null
      /\ pc[c] = "readArgs" \/ Firing(c) \/ outcome[c] = "fired"
           => arg[c][1] # Null
      /\ outcome[c] = "dropped" => lastSet[c] = NoPair

(* The global as a caller sees it that no other one disturbs.              *)
Undisturbed ==
  \A c \in Callers : Lone(c) =>
    /\ pc[c] = "init" => lastSet[c] = NoPair
    /\ activeParticle = IF pc[c] = "setArgs" THEN arg[c][1] ELSE lastSet[c][1]
    /\ activeParticleArgs = lastSet[c][2]
    /\ pc[c] = "readArgs" => arg[c][1] = lastSet[c][1]
    /\ Firing(c) \/ outcome[c] = "fired" => arg[c] = lastSet[c]

IInv == TypeOK /\ Calling /\ PastFlag /\ NothingSet /\ Owing /\ Alone /\ Undisturbed
-----------------------------------------------------------------------------
(* Data.                                                                   *)

(* The pair of a caller when one half of it is replaced.                   *)
LEMMA PairUpdate ==
  ASSUME NEW A, NEW B, NEW a \in [Callers -> A \X B], NEW c \in Callers
  PROVE  /\ \A x \in A : [a EXCEPT ![c][1] = x] = [a EXCEPT ![c] = <<x, a[c][2]>>]
         /\ \A y \in B : [a EXCEPT ![c][2] = y] = [a EXCEPT ![c] = <<a[c][1], y>>]
<1>1. a[c] \in A \X B
  OBVIOUS
<1>2. a[c] = <<a[c][1], a[c][2]>>
  BY <1>1
<1>3. ASSUME NEW x \in A
      PROVE  [a[c] EXCEPT ![1] = x] = <<x, a[c][2]>>
  BY <1>1, <1>2, <1>3
<1>4. ASSUME NEW y \in B
      PROVE  [a[c] EXCEPT ![2] = y] = <<a[c][1], y>>
  BY <1>1, <1>2, <1>4
<1> QED
  BY <1>3, <1>4

(* What the two reads of the second half of a fire call put into arg.      *)
LEMMA ReadPair ==
  ASSUME TypeOK, NEW c \in Callers
  PROVE  /\ ReadParticle(c) => arg' = [arg EXCEPT ![c] = <<activeParticle, arg[c][2]>>]
         /\ ReadArgs(c) => arg' = [arg EXCEPT ![c] = <<arg[c][1], activeParticleArgs>>]
<1>1. /\ arg \in [Callers -> Pairs]
      /\ activeParticle \in Particles \cup {Null}
      /\ activeParticleArgs \in Shareds \cup {Null}
  BY DEF TypeOK
<1>2. ReadParticle(c) => arg' = [arg EXCEPT ![c][1] = activeParticle]
  BY DEF ReadParticle
<1>3. ReadArgs(c) => arg' = [arg EXCEPT ![c][2] = activeParticleArgs]
  BY DEF ReadArgs
<1> QED
  BY <1>1, <1>2, <1>3, PairUpdate DEF Pairs

(* The stores of the initialisation, by position.                          *)
LEMMA StoreOrder ==
  /\ DOMAIN InitStores = 1..4
  /\ InitStores[1] = "activeParticle"
  /\ InitStores[2] = "activeParticleArgs"
  /\ InitStores[3] = "numCpus"
  /\ InitStores[4] = "initialized"
  BY DEF InitStores

(* The store that InitStore does.                                          *)
LEMMA OneStore ==
  ASSUME TypeOK, NEW c \in Callers, InitStore(c)
  PROVE  \E n \in todo[c] :
           /\ n \in 1..4
           /\ reordered \/ \A m \in todo[c] : n <= m
           /\ activeParticle' = IF n = 1 THEN Null ELSE activeParticle
           /\ activeParticleArgs' = IF n = 2 THEN Null ELSE activeParticleArgs
           /\ numCpus' = IF n = 3 THEN SysCpus ELSE numCpus
           /\ initialized' = (n = 4 \/ initialized)
           /\ todo' = [todo EXCEPT ![c] = @ \ {n}]
<1>1. PICK n \in todo[c] :
        /\ reordered \/ \A m \in todo[c] : n <= m
        /\ activeParticle' =
             IF InitStores[n] = "activeParticle" THEN Null ELSE activeParticle
        /\ activeParticleArgs' =
             IF InitStores[n] = "activeParticleArgs" THEN Null ELSE activeParticleArgs
        /\ numCpus' = IF InitStores[n] = "numCpus" THEN SysCpus ELSE numCpus
        /\ initialized' = (InitStores[n] = "initialized" \/ initialized)
        /\ todo' = [todo EXCEPT ![c] = @ \ {n}]
  BY DEF InitStore
<1>2. n \in 1..4
  BY <1>1 DEF TypeOK
<1>3. /\ InitStores[n] = "activeParticle" <=> n = 1
      /\ InitStores[n] = "activeParticleArgs" <=> n = 2
      /\ InitStores[n] = "numCpus" <=> n = 3
      /\ InitStores[n] = "initialized" <=> n = 4
  <2>1. n = 1 \/ n = 2 \/ n = 3 \/ n = 4
    BY <1>2
  <2> QED
    BY <2>1, StoreOrder
<1> QED
  BY <1>1, <1>2, <1>3

(* Every step keeps the types.                                             *)
LEMMA TypesStep ==
  ASSUME TypeOK, Next
  PROVE  TypeOK'
<1> USE GridSystemAssumption
<1>1. CASE Finished
  BY <1>1 DEF Finished, TypeOK, vars, global
<1>2. CASE \E c \in Callers : Step(c) /\ UNCHANGED reordered
  <2>1. PICK c \in Callers : Step(c) /\ UNCHANGED reordered
    BY <1>2
  <2>2. CASE CallSet(c)
    BY <2>1, <2>2 DEF CallSet, TypeOK, Pairs, global, Goto, CallInit, BeginCall
  <2>3. CASE SetParticle(c)
    BY <2>1, <2>3 DEF SetParticle, TypeOK, Pairs, Goto
  <2>4. CASE SetArgs(c)
    BY <2>1, <2>4 DEF SetArgs, TypeOK, Pairs, Goto
  <2>5. CASE CallFire(c)
    BY <2>1, <2>5
       DEF CallFire, TypeOK, Pairs, NoPair, global, Goto, CallInit, BeginCall
  <2>6. CASE Guard(c)
    <3>1. /\ \/ pc' = [pc EXCEPT ![c] = "readParticle"]
             \/ pc' = [pc EXCEPT ![c] = "idle"]
          /\ outcome' = outcome \/ outcome' = [outcome EXCEPT ![c] = "dropped"]
      BY <2>6 DEF Guard, Goto
    <3>2. UNCHANGED <<global, after, todo, arg, calls, lastSet, overlap, reordered>>
      BY <2>1, <2>6 DEF Guard
    <3> QED
      BY <3>1, <3>2 DEF TypeOK, global
  <2>7. CASE ReadParticle(c)
    BY <2>1, <2>7, ReadPair DEF ReadParticle, TypeOK, Pairs, global, Goto
  <2>8. CASE ReadArgs(c)
    <3>1. arg' \in [Callers -> Pairs]
      BY <2>8, ReadPair DEF TypeOK, Pairs
    <3>2. UNCHANGED <<global, todo, calls, lastSet, outcome, overlap, reordered>>
      BY <2>1, <2>8 DEF ReadArgs
    <3>3. /\ pc' = [pc EXCEPT ![c] = "check"]
          /\ after' = [after EXCEPT ![c] = "divide"]
      BY <2>8 DEF ReadArgs, CallInit, Goto
    <3> QED
      BY <3>1, <3>2, <3>3 DEF TypeOK, global
  <2>9. CASE Divide(c)
    BY <2>1, <2>9 DEF Divide, TypeOK, global, Goto
  <2>10. CASE CheckInit(c)
    <3>1. /\ after[c] \in {"idle", "setParticle", "guard", "divide"}
          /\ pc' = [pc EXCEPT ![c] = after[c]] \/ pc' = [pc EXCEPT ![c] = "init"]
      BY <2>10 DEF TypeOK, CheckInit, Goto
    <3>2. todo' = todo \/ todo' = [todo EXCEPT ![c] = 1..4]
      BY <2>10, StoreOrder DEF CheckInit
    <3>3. overlap' \in BOOLEAN
      BY <2>10 DEF TypeOK, CheckInit, Busy
    <3>4. UNCHANGED <<global, after, arg, calls, lastSet, outcome, reordered>>
      BY <2>1, <2>10 DEF CheckInit
    <3> QED
      BY <3>1, <3>2, <3>3, <3>4 DEF TypeOK, global
  <2>11. CASE InitStore(c)
    BY <2>1, <2>11, OneStore DEF InitStore, TypeOK
  <2>12. CASE InitDone(c)
    BY <2>1, <2>12 DEF InitDone, TypeOK, global, Goto
  <2> QED
    BY <2>1, <2>2, <2>3, <2>4, <2>5, <2>6, <2>7, <2>8, <2>9, <2>10, <2>11,
       <2>12
       DEF Step
<1> QED
  BY <1>1, <1>2 DEF Next

(* Every step keeps what is known of who has begun to call.                *)
LEMMA CallingStep ==
  ASSUME TypeOK, Calling, Next
  PROVE  Calling'
<1> USE GridSystemAssumption
<1>1. CASE Finished
  BY <1>1 DEF Finished, Calling, Initialising, vars
<1>2. CASE \E c \in Callers : Step(c) /\ UNCHANGED reordered
  <2>1. PICK c \in Callers : Step(c) /\ UNCHANGED reordered
    BY <1>2
  <2>2. CASE CallSet(c)
    BY <2>1, <2>2
       DEF CallSet, TypeOK, Calling, Initialising, Goto, CallInit, BeginCall
  <2>3. CASE SetParticle(c)
    BY <2>1, <2>3 DEF SetParticle, Calling, Initialising, Goto
  <2>4. CASE SetArgs(c)
    BY <2>1, <2>4 DEF SetArgs, Calling, Initialising, Goto
  <2>5. CASE CallFire(c)
    BY <2>1, <2>5
       DEF CallFire, TypeOK, Calling, Initialising, Goto, CallInit, BeginCall
  <2>6. CASE Guard(c)
    BY <2>1, <2>6 DEF Guard, TypeOK, Calling, Initialising, Goto
  <2>7. CASE ReadParticle(c)
    BY <2>1, <2>7, ReadPair DEF ReadParticle, Calling, Initialising, Goto
  <2>8. CASE ReadArgs(c)
    BY <2>1, <2>8, ReadPair
       DEF ReadArgs, TypeOK, Calling, Initialising, Goto, CallInit
  <2>9. CASE Divide(c)
    BY <2>1, <2>9 DEF Divide, TypeOK, Calling, Initialising, Goto
  <2>10. CASE CheckInit(c)
    BY <2>1, <2>10 DEF CheckInit, TypeOK, Calling, Initialising, Goto
  <2>11. CASE InitStore(c)
    BY <2>1, <2>11, OneStore DEF InitStore, Calling, Initialising
  <2>12. CASE InitDone(c)
    BY <2>1, <2>12 DEF InitDone, Calling, Initialising, Goto
  <2> QED
    BY <2>1, <2>2, <2>3, <2>4, <2>5, <2>6, <2>7, <2>8, <2>9, <2>10, <2>11,
       <2>12
       DEF Step
<1> QED
  BY <1>1, <1>2 DEF Next

(* A caller gets past __k_system_init only when the flag is set.           *)
LEMMA PastFlagStep ==
  ASSUME TypeOK, Calling, Owing, PastFlag, Next
  PROVE  PastFlag'
<1> USE GridSystemAssumption
<1>1. CASE Finished
  BY <1>1 DEF Finished, PastFlag, Past, vars
<1>2. CASE \E c \in Callers : Step(c) /\ UNCHANGED reordered
  <2>1. PICK c \in Callers : Step(c) /\ UNCHANGED reordered
    BY <1>2
  <2>2. CASE CallSet(c)
    BY <2>1, <2>2 DEF CallSet, PastFlag, Past, global, Goto, CallInit
  <2>3. CASE SetParticle(c)
    BY <2>1, <2>3 DEF SetParticle, PastFlag, Past
  <2>4. CASE SetArgs(c)
    BY <2>1, <2>4 DEF SetArgs, PastFlag, Past
  <2>5. CASE CallFire(c)
    BY <2>1, <2>5 DEF CallFire, PastFlag, Past, global, Goto, CallInit
  <2>6. CASE Guard(c)
    BY <2>1, <2>6 DEF Guard, PastFlag, Past, global
  <2>7. CASE ReadParticle(c)
    BY <2>1, <2>7 DEF ReadParticle, PastFlag, Past, global
  <2>8. CASE ReadArgs(c)
    BY <2>1, <2>8 DEF ReadArgs, PastFlag, Past, global
  <2>9. CASE Divide(c)
    BY <2>1, <2>9 DEF Divide, PastFlag, Past, global
  <2>10. CASE CheckInit(c)
    BY <2>1, <2>10 DEF CheckInit, TypeOK, PastFlag, Past, global, Goto
  <2>11. CASE InitStore(c)
    BY <2>1, <2>11, OneStore DEF InitStore, PastFlag, Past
  <2>12. CASE InitDone(c)
    BY <2>1, <2>12 DEF InitDone, Owing, OwesFlag, PastFlag, global
  <2> QED
    BY <2>1, <2>2, <2>3, <2>4, <2>5, <2>6, <2>7, <2>8, <2>9, <2>10, <2>11,
       <2>12
       DEF Step
<1> QED
  BY <1>1, <1>2 DEF Next

(* A set call is past __k_system_init, so it finds the flag set.           *)
LEMMA NothingSetStep ==
  ASSUME TypeOK, PastFlag, NothingSet, Next
  PROVE  NothingSet'
<1> USE GridSystemAssumption
<1>1. CASE Finished
  BY <1>1 DEF Finished, NothingSet, vars, global
<1>2. CASE \E c \in Callers : Step(c) /\ UNCHANGED reordered
  <2>1. PICK c \in Callers : Step(c) /\ UNCHANGED reordered
    BY <1>2
  <2>2. CASE CallSet(c)
    BY <2>1, <2>2 DEF CallSet, NothingSet, global
  <2>3. CASE SetParticle(c)
    BY <2>1, <2>3 DEF SetParticle, NothingSet
  <2>4. CASE SetArgs(c)
    BY <2>1, <2>4 DEF SetArgs, PastFlag, NothingSet, Past
  <2>5. CASE CallFire(c)
    BY <2>1, <2>5 DEF CallFire, NothingSet, global
  <2>6. CASE Guard(c)
    BY <2>1, <2>6 DEF Guard, NothingSet, global
  <2>7. CASE ReadParticle(c)
    BY <2>1, <2>7 DEF ReadParticle, NothingSet, global
  <2>8. CASE ReadArgs(c)
    BY <2>1, <2>8 DEF ReadArgs, NothingSet, global
  <2>9. CASE Divide(c)
    BY <2>1, <2>9 DEF Divide, NothingSet, global
  <2>10. CASE CheckInit(c)
    BY <2>1, <2>10 DEF CheckInit, NothingSet, global
  <2>11. CASE InitStore(c)
    BY <2>1, <2>11, OneStore DEF InitStore, NothingSet
  <2>12. CASE InitDone(c)
    BY <2>1, <2>12 DEF InitDone, NothingSet, global
  <2> QED
    BY <2>1, <2>2, <2>3, <2>4, <2>5, <2>6, <2>7, <2>8, <2>9, <2>10, <2>11,
       <2>12
       DEF Step
<1> QED
  BY <1>1, <1>2 DEF Next

(* A store is owed until it is done.                                       *)
LEMMA OwingStep ==
  ASSUME TypeOK, Calling, PastFlag, Owing, Next
  PROVE  Owing'
<1> USE GridSystemAssumption
<1>1. CASE Finished
  BY <1>1 DEF Finished, Owing, OwesCpus, vars, global
<1>2. CASE \E c \in Callers : Step(c) /\ UNCHANGED reordered
  <2>1. PICK c \in Callers : Step(c) /\ UNCHANGED reordered
    BY <1>2
  <2>2. CASE CallSet(c)
    BY <2>1, <2>2
       DEF CallSet, Owing, OwesCpus, OwesFlag, global, Goto, CallInit,
           BeginCall
  <2>3. CASE SetParticle(c)
    BY <2>1, <2>3 DEF SetParticle, PastFlag, Past, Owing, OwesCpus, Goto
  <2>4. CASE SetArgs(c)
    BY <2>1, <2>4 DEF SetArgs, PastFlag, Past, Owing, OwesCpus, Goto
  <2>5. CASE CallFire(c)
    BY <2>1, <2>5
       DEF CallFire, Owing, OwesCpus, OwesFlag, global, Goto, CallInit,
           BeginCall
  <2>6. CASE Guard(c)
    BY <2>1, <2>6
       DEF Guard, TypeOK, PastFlag, Past, Owing, OwesCpus, global, Goto
  <2>7. CASE ReadParticle(c)
    BY <2>1, <2>7
       DEF ReadParticle, PastFlag, Past, Owing, OwesCpus, global, Goto
  <2>8. CASE ReadArgs(c)
    BY <2>1, <2>8
       DEF ReadArgs, PastFlag, Past, Owing, OwesCpus, global, Goto, CallInit
  <2>9. CASE Divide(c)
    BY <2>1, <2>9 DEF Divide, PastFlag, Past, Owing, OwesCpus, global, Goto
  <2>10. CASE CheckInit(c)
    BY <2>1, <2>10, StoreOrder
       DEF CheckInit, TypeOK, Owing, OwesCpus, OwesFlag, global, Goto
  <2>11. CASE InitStore(c)
    <3>1. PICK n \in todo[c] :
            /\ n \in 1..4
            /\ reordered \/ \A m \in todo[c] : n <= m
            /\ numCpus' = IF n = 3 THEN SysCpus ELSE numCpus
            /\ initialized' = (n = 4 \/ initialized)
            /\ todo' = [todo EXCEPT ![c] = @ \ {n}]
      BY <2>11, OneStore
    <3>2. pc[c] = "init" /\ pc' = pc /\ reordered' = reordered
      BY <2>1, <2>11 DEF InitStore
    <3>3. \A d \in Callers : d # c => todo'[d] = todo[d]
      BY <3>1 DEF TypeOK
    <3>4. todo'[c] = todo[c] \ {n}
      BY <3>1 DEF TypeOK
    <3>5. ASSUME NEW d \in Callers, pc[d] = "init"
          PROVE  /\ initialized' \/ OwesFlag(d)'
                 /\ numCpus' = SysCpus \/ OwesCpus(d)'
      BY <3>1, <3>2, <3>3, <3>4, <3>5 DEF TypeOK, Owing, OwesCpus, OwesFlag
    <3>6. ASSUME initialized', numCpus' # SysCpus
          PROVE  reordered' /\ \E d \in Callers : OwesCpus(d)'
      <4>1. numCpus # SysCpus /\ n # 3
        BY <3>1, <3>6
      <4>2. CASE n = 4
        <5>1. 3 \in todo[c]
          BY <3>2, <4>1 DEF Owing, OwesCpus
        <5>2. reordered
          BY <3>1, <4>2, <5>1
        <5> QED
          BY <3>2, <3>4, <4>2, <5>1, <5>2 DEF OwesCpus
      <4>3. CASE n # 4
        <5>1. PICK d \in Callers : reordered /\ OwesCpus(d)
          BY <3>1, <3>6, <4>1, <4>3 DEF Owing
        <5> QED
          BY <3>2, <3>3, <3>4, <4>1, <5>1 DEF OwesCpus
      <4> QED
        BY <4>2, <4>3
    <3> QED
      BY <3>2, <3>5, <3>6 DEF Owing
  <2>12. CASE InitDone(c)
    BY <2>1, <2>12 DEF InitDone, Owing, OwesCpus, OwesFlag, global
  <2> QED
    BY <2>1, <2>2, <2>3, <2>4, <2>5, <2>6, <2>7, <2>8, <2>9, <2>10, <2>11,
       <2>12
       DEF Step
<1> QED
  BY <1>1, <1>2 DEF Next

(* An initialisation that runs alone meets no particle that has been set.  *)
LEMMA AloneStep ==
  ASSUME TypeOK, Calling, PastFlag, NothingSet, Alone, Next
  PROVE  Alone'
<1> USE GridSystemAssumption
<1>1. CASE Finished
  BY <1>1 DEF Finished, Alone, Firing, Initialising, vars, global
<1>2. CASE \E c \in Callers : Step(c) /\ UNCHANGED reordered
  <2>1. PICK c \in Callers : Step(c) /\ UNCHANGED reordered
    BY <1>2
  <2>2. CASE CallSet(c)
    <3> SUFFICES ASSUME ~overlap', NEW d \in Callers
                 PROVE  /\ pc'[d] = "init" => /\ \A e \in Callers \ {d} : pc'[e] = "idle"
                                              /\ \A e \in Callers : lastSet'[e] = NoPair
                        /\ lastSet'[d] # NoPair \/ pc'[d] \in {"setArgs", "readParticle"}
                             => activeParticle' # Null
                        /\ pc'[d] = "readArgs" \/ Firing(d)' \/ outcome'[d] = "fired"
                             => arg'[d][1] # Null
                        /\ outcome'[d] = "dropped" => lastSet'[d] = NoPair
      BY DEF Alone
    <3>1. /\ pc' = [pc EXCEPT ![c] = "check"]
          /\ after' = [after EXCEPT ![c] = "setParticle"]
          /\ outcome' = [outcome EXCEPT ![c] = "none"]
          /\ ~overlap /\ \A e \in Callers : pc[e] # "init"
          /\ UNCHANGED <<activeParticle, lastSet>>
      BY <2>2 DEF CallSet, CallInit, Goto, BeginCall, global
    <3>2. PICK p \in Particles, s \in Shareds : arg' = [arg EXCEPT ![c] = <<p, s>>]
      BY <2>2 DEF CallSet
    <3>3. CASE d = c
      BY <3>1, <3>3 DEF TypeOK, Alone, Firing, Initialising
    <3>4. CASE d # c
      BY <3>1, <3>2, <3>4 DEF TypeOK, Alone, Firing, Initialising
    <3> QED
      BY <3>3, <3>4
  <2>3. CASE SetParticle(c)
    BY <2>1, <2>3 DEF SetParticle, Calling, Alone, Firing, Initialising, Goto
  <2>4. CASE SetArgs(c)
    BY <2>1, <2>4 DEF SetArgs, Calling, Alone, Firing, Initialising, Goto
  <2>5. CASE CallFire(c)
    BY <2>1, <2>5
       DEF CallFire, TypeOK, Alone, Firing, Initialising, NoPair, global, Goto,
           CallInit, BeginCall
  <2>6. CASE Guard(c)
    BY <2>1, <2>6 DEF Guard, TypeOK, Alone, Firing, Initialising, global, Goto
  <2>7. CASE ReadParticle(c)
    BY <2>1, <2>7, ReadPair
       DEF ReadParticle, TypeOK, Alone, Firing, Initialising, Pairs, global,
           Goto
  <2>8. CASE ReadArgs(c)
    BY <2>1, <2>8, ReadPair
       DEF ReadArgs, Alone, Firing, Initialising, global, Goto, CallInit
  <2>9. CASE Divide(c)
    BY <2>1, <2>9 DEF Divide, Alone, Firing, Initialising, global, Goto
  <2>10. CASE CheckInit(c)
    <3>1. CASE initialized
      BY <2>1, <2>10, <3>1
         DEF CheckInit, TypeOK, Calling, Alone, Firing, Initialising, Goto,
             global
    <3>2. CASE ~initialized
      <4>1. /\ pc' = [pc EXCEPT ![c] = "init"]
            /\ overlap' = (overlap \/ \E d \in Callers \ {c} : pc[d] # "idle")
            /\ UNCHANGED <<global, after, arg, lastSet, outcome>>
        BY <2>10, <3>2 DEF CheckInit, Goto, Busy
      <4>2. \A d \in Callers : lastSet[d] = NoPair
        BY <3>2 DEF NothingSet
      <4>3. pc[c] = "check"
        BY <2>10 DEF CheckInit
      <4>4. SUFFICES ASSUME ~overlap'
                     PROVE  Alone'
        BY DEF Alone
      <4>5. ~overlap /\ \A d \in Callers \ {c} : pc[d] = "idle"
        BY <4>1, <4>4
      <4>6. /\ pc'[c] = "init"
            /\ \A d \in Callers \ {c} : pc'[d] = "idle"
        BY <4>1, <4>5 DEF TypeOK
      <4>7. \A d \in Callers : Firing(d)' => Firing(d)
        BY <4>1, <4>3, <4>6 DEF Firing, Initialising
      <4> QED
        BY <4>1, <4>2, <4>5, <4>6, <4>7 DEF Alone, global
    <3> QED
      BY <3>1, <3>2
  <2>11. CASE InitStore(c)
    BY <2>1, <2>11, OneStore DEF InitStore, TypeOK, Alone, Firing, Initialising
  <2>12. CASE InitDone(c)
    BY <2>1, <2>12 DEF InitDone, TypeOK, Alone, Firing, Initialising, Goto
  <2> QED
    BY <2>1, <2>2, <2>3, <2>4, <2>5, <2>6, <2>7, <2>8, <2>9, <2>10, <2>11,
       <2>12
       DEF Step
<1> QED
  BY <1>1, <1>2 DEF Next

(* What a lone caller has set stays.                                       *)
LEMMA UndisturbedStep ==
  ASSUME TypeOK, Calling, NothingSet, Undisturbed, Next
  PROVE  Undisturbed'
<1> USE GridSystemAssumption
<1>1. CASE Finished
  BY <1>1 DEF Finished, Undisturbed, Lone, Firing, Initialising, vars, global
<1>2. CASE \E c \in Callers : Step(c) /\ UNCHANGED reordered
  <2>1. PICK c \in Callers : Step(c) /\ UNCHANGED reordered
    BY <1>2
  <2>2. CASE CallSet(c)
    BY <2>1, <2>2
       DEF CallSet, TypeOK, Undisturbed, Lone, Firing, Initialising, global,
           Goto, CallInit, BeginCall
  <2>3. CASE SetParticle(c)
    BY <2>1, <2>3
       DEF SetParticle, TypeOK, Calling, Undisturbed, Lone, Firing,
           Initialising, Goto
  <2>4. CASE SetArgs(c)
    BY <2>1, <2>4 DEF SetArgs, TypeOK, Calling, Undisturbed, Lone, Goto
  <2>5. CASE CallFire(c)
    BY <2>1, <2>5
       DEF CallFire, TypeOK, Undisturbed, Lone, Firing, Initialising, global,
           Goto, CallInit, BeginCall
  <2>6. CASE Guard(c)
    BY <2>1, <2>6
       DEF Guard, TypeOK, Undisturbed, Lone, Firing, Initialising, global, Goto
  <2>7. CASE ReadParticle(c)
    BY <2>1, <2>7, ReadPair
       DEF ReadParticle, TypeOK, Undisturbed, Lone, Firing, Initialising,
           Pairs, global, Goto
  <2>8. CASE ReadArgs(c)
    BY <2>1, <2>8, ReadPair
       DEF ReadArgs, TypeOK, Calling, NothingSet, Undisturbed, Lone, Pairs,
           global, Goto, CallInit
  <2>9. CASE Divide(c)
    BY <2>1, <2>9 DEF Divide, Calling, Undisturbed, Lone, Firing, global, Goto
  <2>10. CASE CheckInit(c)
    BY <2>1, <2>10
       DEF CheckInit, TypeOK, NothingSet, Undisturbed, Lone, Firing,
           Initialising, global, Goto
  <2>11. CASE InitStore(c)
    BY <2>1, <2>11, OneStore
       DEF InitStore, Calling, Undisturbed, Lone, Firing, Initialising, NoPair
  <2>12. CASE InitDone(c)
    BY <2>1, <2>12
       DEF InitDone, TypeOK, Undisturbed, Lone, Firing, Initialising, global,
           Goto
  <2> QED
    BY <2>1, <2>2, <2>3, <2>4, <2>5, <2>6, <2>7, <2>8, <2>9, <2>10, <2>11,
       <2>12
       DEF Step
<1> QED
  BY <1>1, <1>2 DEF Next

-----------------------------------------------------------------------------
LEMMA InitInv == Init => IInv
<1> SUFFICES ASSUME Init
             PROVE  IInv
  OBVIOUS
<1>1. TypeOK
  <2>1. initialized \in BOOLEAN /\ reordered \in BOOLEAN
    BY GridSystemAssumption DEF Init
  <2>2. NoPair \in Pairs
    BY DEF NoPair, Pairs
  <2>3. numCpus \in {0, SysCpus} /\ 0 \in 0..MaxCalls
    BY GridSystemAssumption DEF Init
  <2> QED
    BY <2>1, <2>2, <2>3 DEF Init, TypeOK
<1>2. Owing
  BY GridSystemAssumption DEF Init, Owing
<1> QED
  BY <1>1, <1>2
     DEF Init, IInv, Calling, PastFlag, NothingSet, Alone, Undisturbed,
         Past, Initialising, Firing, NoPair

LEMMA StutterInv == IInv /\ UNCHANGED vars => IInv'
  BY
     DEF vars, global, IInv, TypeOK, Calling, PastFlag, NothingSet, Owing,
         Alone,
         Undisturbed, OwesCpus, OwesFlag, Past, Initialising, Firing, Lone

LEMMA InvHolds == Spec => []IInv
<1>1. Init => IInv
  BY InitInv
<1>2. IInv /\ [Next]_vars => IInv'
  BY TypesStep, CallingStep, PastFlagStep, NothingSetStep, OwingStep,
     AloneStep,
     UndisturbedStep, StutterInv
     DEF IInv
<1> QED
  BY <1>1, <1>2, PTL DEF Spec

(* In every state of the runtime the variables have the values that the    *)
(* declarations of the global and of the callers allow.                    *)
THEOREM TypeCorrect == Spec => []TypeOK
<1>1. IInv => TypeOK
  BY DEF IInv
<1> QED
  BY <1>1, InvHolds, PTL

(* However many callers there are, and whichever of them runs              *)
(* __k_system_init, none divides by numCpus before it is stored, in a      *)
(* build that keeps the order of the stores or when the initialisation     *)
(* runs alone.                                                             *)
THEOREM CpusKnown == Spec => []CpusKnownBeforeDivide
<1>1. IInv => CpusKnownBeforeDivide
  <2> SUFFICES ASSUME IInv, ~reordered \/ ~overlap,
                      NEW c \in Callers, pc[c] = "divide"
               PROVE  numCpus = SysCpus
    BY DEF CpusKnownBeforeDivide
  <2>1. initialized
    BY DEF IInv, PastFlag, Past
  <2>2. CASE ~reordered
    BY <2>1, <2>2 DEF IInv, Owing
  <2>3. CASE ~overlap
    BY <2>1, <2>3 DEF IInv, Owing, OwesCpus, Alone
  <2> QED
    BY <2>2, <2>3
<1> QED
  BY <1>1, InvHolds, PTL

(* A caller that is alone fires the pair of its last set call.             *)
THEOREM LoneCallerFiresItsPair == Spec => []FiresWhatWasSet
<1>1. IInv => FiresWhatWasSet
  BY DEF IInv, Undisturbed, Lone, FiresWhatWasSet
<1> QED
  BY <1>1, InvHolds, PTL

(* When the initialisation runs alone, no caller that has set a particle   *)
(* finds the global empty, whatever the others set and fire meanwhile.     *)
THEOREM SetStays == Spec => []SetIsNotUndone
<1>1. IInv => SetIsNotUndone
  BY DEF IInv, Alone, SetIsNotUndone
<1> QED
  BY <1>1, InvHolds, PTL

(* Nor is a null thread function ever started then, although the guard     *)
(* reads the global once and the call reads it again.                      *)
THEOREM NoNullParticle == Spec => []NeverFiresNull
<1>1. IInv => NeverFiresNull
  BY DEF IInv, Alone, NeverFiresNull
<1> QED
  BY <1>1, InvHolds, PTL
=============================================================================
