------------------------------ MODULE MCCaches ------------------------------
(* An instance of CacheParts for TLC. *)
EXTENDS CacheParts

CONSTANTS t1, t2, k1, k2, k3

ASSUME SizesComparable == VictimsMakeRoom
ASSUME ProbesAssumption == CachesAssumption

(* The second version of a file comes a second after the first or later,   *)
(* the third within the second of the second.                              *)
WithinASecond == <<1, 2, 2>>

(* Three calls as long as there are two versions, two calls with a third. *)
CallsOrVersions ==
  (\E p \in Paths : file[p].version = MaxVersion) => calls < MaxCalls

Symmetry == Permutations(MediaKeys) \cup Permutations(Threads)
=============================================================================
