---------------------------- MODULE MCGridSystem ----------------------------
(* Instances of GridSystem for TLC.                                        *)
EXTENDS GridSystem, TLC

CONSTANTS p1, p2, s1, s2, c1, c2

TwoCallers == {c1, c2}

(* The callers, the particles and the structs are interchangeable.         *)
Symmetry == Permutations(Callers) \cup Permutations(Particles)
              \cup Permutations(Shareds)
=============================================================================
