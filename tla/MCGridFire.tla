----------------------------- MODULE MCGridFire -----------------------------
(* Instances of GridFire for TLC.                                          *)
EXTENDS GridFire

(* Fewer particles than CPUs, every remainder by 3 CPUs, and the int -1,   *)
(* which becomes the largest VERY_LONG_UINT.                               *)
MixedSizes == {1, 2, 4, -1}

SmallSizes == {1, 3, 4}
=============================================================================
