--------------------------- MODULE MCOverlayCache ---------------------------
(* Instances of OverlayCache for TLC. *)
EXTENDS OverlayCache, TLC

CONSTANTS t1, t2, p1, p2, p3

StampOfEachVersion == [v \in 1..MaxVersion |-> v]

ThreadSymmetry == Permutations(Threads)
Symmetry == Permutations(Threads) \cup Permutations(Paths)

=============================================================================
