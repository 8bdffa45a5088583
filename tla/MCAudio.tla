------------------------------ MODULE MCAudio -------------------------------
(* An instance of AudioParts for TLC. *)
EXTENDS AudioParts, FilterJobSets, TLC

CONSTANTS t1, t2, h1, h2

(* Narrow vectors, in the order of the real widths 4, 4, 8 and 16. *)
LanesOf == [scalar |-> 1, sse41 |-> 2, neon |-> 2, avx2 |-> 3, avx512 |-> 4]

(* Streams that clip, change sign, and end early. *)
Streams == {<<2, 1, -1, 2, -2, 1>>, <<1, -2, -1, 1, 2, 1>>, <<-2, 2, 1>>}
StreamLists == UNION {[1..n -> Streams] : n \in 0..3}
VolumeLists == {<<1, 2, 1>>, <<1, 1>>, << >>}
GainValues == {-1, 0, 1, 2}
Leftovers == {-3, 0}

(* A class and three pools, one of them of buffers without samples. *)
SizeOf == [frame |-> 4, none |-> 0, small |-> 2, big |-> 5]

ASSUME PartsAssumption == AudioAssumption

Symmetry == Permutations(Threads) \cup Permutations(Handles)
=============================================================================
