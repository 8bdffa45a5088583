---------------------------- MODULE MCMediaCache ----------------------------
(* Instances of MediaCache for TLC. *)
EXTENDS MediaCache

CONSTANTS t1, t2, k1, k2, k3

KeySymmetry == Permutations(MediaKeys)
=============================================================================
