------------------------------ MODULE MCLogger ------------------------------
(* Two threads and the default channel.                                    *)
EXTENDS Logger, TLC

CONSTANTS t1, t2

TwoThreads == {t1, t2}

Symmetric == Permutations(TwoThreads)

ErrAndL3 == {0, L3}

ZeroOrNot == {0, 1}
=============================================================================
