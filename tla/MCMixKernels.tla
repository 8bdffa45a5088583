---------------------------- MODULE MCMixKernels ----------------------------
(* The scalar kernel on two streams, for TLC. *)
EXTENDS MixKernels

ScalarOnly == [scalar |-> 1]
Two == {<<2, 1, -1, 2, -2, 1>>} \X {<<1, -2, -1, 1, 2, 1>>}
Unity == {<<1, 1>>}
=============================================================================
