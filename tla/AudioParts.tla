----------------------------- MODULE AudioParts -----------------------------
(***************************************************************************)
(* The parts of the media code next to each other, which share no state:   *)
(* the encoder, one call of a mixing kernel, the buffer pools, or one job  *)
(* that runs ffmpeg with a filter graph.  A behaviour is one of any of     *)
(* them, chosen at the start.                                              *)
(***************************************************************************)
EXTENDS AacEncoder

CONSTANTS
  Lanes, One, Lens, Inputs, Volumes, Gains, Garbage,
  ParallelFrom, ChunkSize, Reach,                          \* of MixKernels
  Threads, Classes, Pools, Size, MaxPooled, Handles, MaxCalls,
                                                           \* of BufferPool
  Jobs, Paths, Empty, Absent, MaxOffset, MaxChanges, Times \* of FilterJobs

VARIABLES
  part,
  call, before, memory, input_idx, at, chunks_left, pc,    \* of MixKernels
  cached, held, calls, made, peak, strayed,                \* of BufferPool
  job, files, stage, extra, pads, inputs, graph, output, result, changes,
  changed                                                  \* of FilterJobs

kernelVars == <<call, before, memory, input_idx, at, chunks_left, pc>>
poolVars == <<cached, held, calls, made, peak, strayed>>
filterVars == <<job, files, stage, extra, pads, inputs, graph, output, result,
                changes, changed>>
audioVars == <<part, vars, kernelVars, poolVars, filterVars>>

Mix == INSTANCE MixKernels WITH
  Threshold <- ParallelFrom, left <- chunks_left

BufferPools == INSTANCE BufferPool

Filters == INSTANCE FilterJobs WITH phase <- stage, at <- extra

AudioAssumption ==
  /\ Mix!KernelAssumption /\ BufferPools!PoolAssumption
  /\ Filters!JobsAssumption

-----------------------------------------------------------------------------
Unused == "unused"
AudioInit ==
  /\ part \in {"encoder", "kernels", "pools", "filters"}
  /\ Init /\ BufferPools!Init
  /\ IF part = "kernels" THEN Mix!Init
     ELSE /\ call = Unused /\ before = Unused /\ memory = Unused
          /\ input_idx = Unused /\ at = Unused /\ chunks_left = Unused
          /\ pc = Unused
  /\ IF part = "filters" THEN Filters!Init
     ELSE /\ job = Unused /\ files = Unused /\ stage = Unused
          /\ extra = Unused /\ pads = Unused /\ inputs = Unused
          /\ graph = Unused /\ output = Unused /\ result = Unused
          /\ changes = Unused /\ changed = Unused

AudioNext ==
  \/ /\ part = "encoder" /\ Next
     /\ UNCHANGED <<part, kernelVars, poolVars, filterVars>>
  \/ /\ part = "kernels" /\ Mix!Next
     /\ UNCHANGED <<part, vars, poolVars, filterVars>>
  \/ /\ part = "pools" /\ BufferPools!Next
     /\ UNCHANGED <<part, vars, kernelVars, filterVars>>
  \/ /\ part = "filters" /\ Filters!Next
     /\ UNCHANGED <<part, vars, kernelVars, poolVars>>

AudioSpec == AudioInit /\ [][AudioNext]_audioVars

-----------------------------------------------------------------------------
(* The variables of the part that runs have their types; the encoder gets  *)
(* whole frames, and pts counts the samples before them.                   *)
PartsTypeOK ==
  /\ TypeOK /\ WholeFrames
  /\ BufferPools!TypeOK
  /\ part = "kernels" => Mix!TypeOK
  /\ part = "filters" => Filters!TypeOK

(* See MixKernels: every kernel computes what its function promises. *)
ResultIsReference == part = "kernels" => Mix!ResultIsReference

(* See MixKernels: memory behind the buffer keeps its contents. *)
NeighboursKept == part = "kernels" => Mix!NeighboursKept

(* See BufferPool: an acquired buffer is silent and of the right length. *)
FreshIsSilent == BufferPools!FreshIsSilent

(* See BufferPool: warm calls of a class do not allocate. *)
AllocatesAtPeakOnly == BufferPools!AllocatesAtPeakOnly

(* See FilterJobs: what a job reports as made is its own work, from the    *)
(* files its graph was written for.                                        *)
OutputAsMeant == part = "filters" => Filters!OutputAsMeant

(* See FilterJobs: labels are defined once and used once, and at every     *)
(* moment the gates let through what they should.                          *)
GraphIsWired ==
  part = "filters" => Filters!GraphIsWired /\ Filters!GatesSplitTime
=============================================================================
