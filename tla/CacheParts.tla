----------------------------- MODULE CacheParts -----------------------------
(***************************************************************************)
(* The two layers of the probe cache next to each other: MediaCache, the   *)
(* database with its index, and ProbeCache, the slabs in front of it.  A   *)
(* behaviour is one of either; ProbeCache has the map of MediaCache as its *)
(* own.                                                                    *)
(***************************************************************************)
EXTENDS MediaCache

CONSTANTS Paths, MaxVersion, Stamp, SlabSize, MaxCalls   \* of ProbeCache

VARIABLES
  part,
  file, slab, next, l2, probe_pc, probe_key, path, meta, calls, probe_restarts,
  asOf, raced                                            \* of ProbeCache

probeVars == <<file, slab, next, l2, probe_pc, probe_key, path, meta, calls,
               probe_restarts, asOf, raced>>

Probes == INSTANCE ProbeCache WITH
  pc <- probe_pc, key <- probe_key, restarts <- probe_restarts

CachesAssumption == Probes!FilesAssumption /\ Probes!ProbeAssumption

CachesInit ==
  /\ part \in {"media", "probe"}
  /\ Init /\ Probes!Init

CachesNext ==
  \/ part = "media" /\ Next /\ UNCHANGED <<part, probeVars>>
  \/ part = "probe" /\ Probes!Next /\ UNCHANGED <<part, vars>>

CachesSpec == CachesInit /\ [][CachesNext]_<<part, vars, probeVars>>

-----------------------------------------------------------------------------
(* Every variable of both has its type. *)
CachesTypeOK == TypeOK /\ Probes!TypeOK

(* See ProbeCache: no slab holds a key twice. *)
SlabKeysUnique == Probes!SlabKeysUnique

(* See ProbeCache: entries and answers older than the second their key     *)
(* stands for go back to a file that changed between a probe and its put.  *)
StaleOnlyIfRaced ==
  Probes!StaleEntryOnlyIfRaced /\ Probes!StaleAnswerOnlyIfRaced
=============================================================================
