-------------------------------- MODULE Grid --------------------------------
(***************************************************************************)
(* What a fired particle grid promises, without threads: every index below *)
(* the size of the grid is run, once per pass, for Rounds passes, in any   *)
(* order, and no other index is ever run.                                  *)
(*                                                                         *)
(* runs[k] counts the executions of the particle body with index k.        *)
(***************************************************************************)
EXTENDS Integers

CONSTANTS Word,    \* the number of values of VERY_LONG_UINT
          Rounds   \* bound on the passes of the endless loop of a thread

VARIABLES size, runs

vars == <<size, runs>>

Words == 0..(Word - 1)

Indices == {k \in Words : k < size}

Init == /\ size \in Words
        /\ runs = [k \in Words |-> 0]

Run(k) == /\ k \in Indices
          /\ runs[k] < Rounds
          /\ runs' = [runs EXCEPT ![k] = @ + 1]
          /\ UNCHANGED size

Next == \E k \in Words : Run(k)

(* The safety part, which GridFireProofs proves of the threads.            *)
SafeSpec == Init /\ [][Next]_vars

(* Every index that has a pass left is run.                                *)
Liveness == \A k \in Words : WF_vars(Run(k))

Spec == SafeSpec /\ Liveness
=============================================================================
