--------------------------- MODULE MCParticleSync ---------------------------
(* Instances of ParticleSync for TLC.                                      *)
EXTENDS ParticleSync

CONSTANTS t1, t2, t3

TwoThreads   == {t1, t2}
ThreeThreads == {t1, t2, t3}
=============================================================================
