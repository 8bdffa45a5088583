----------------------------- MODULE CoreParts ------------------------------
(***************************************************************************)
(* The core and io modules next to each other, which share no state: a     *)
(* scheduled batch, the global thread pool, calls of ffmpeg, a copy        *)
(* through a pipe, a batch of stats, or the render of a graph.  A          *)
(* behaviour is one of them, chosen at the start; the variables of the     *)
(* others stay where they are.                                             *)
(***************************************************************************)
EXTENDS BatchScheduler, Integers

CONSTANTS
  Callers, Physical, DefaultWorkers, Tasks, TasksAsk, MaxPoolJobs,
                                                              \* of ThreadPool
  Threads, MaxCalls, MaxReports,                              \* of FfmpegCalls
  SourceFiles, RoundSize, Capacity,                                   \* of Splice
  Stats, RING_SIZE,                                           \* of UringStat
  Graphs, Files, NoAudio, Unset, TicksPerMs, MaxClock         \* of RenderGraph

VARIABLES
  component,
  lock, info, registry, pool, counter, core, injected, left, stack, pc, jobs,
                                                    \* of ThreadPool
  call_pc, entry, holds, fd, got, count, bytes, report, unread, calls, reports,
  shared, reported, happened, floor,                \* of FfmpegCalls
  splice_phase, at, offset, pipe, remaining, dst, total, result, opened, closed,
                                                    \* of Splice
  uring_phase, next, sq, inflight, cq, stats, uring_answer, short,
                                                    \* of UringStat
  render_pc, graph, entered, todo, present, clock, began, metrics, stageMs,
  render_result, sightings, absences                \* of RenderGraph

poolVars == <<lock, info, registry, pool, counter, core, injected, left, stack,
              pc, jobs>>
callVars == <<call_pc, entry, holds, fd, got, count, bytes, report, unread,
              calls, reports, shared, reported, happened, floor>>
spliceVars == <<splice_phase, at, offset, pipe, remaining, dst, total, result,
                opened, closed>>
uringVars == <<uring_phase, next, sq, inflight, cq, stats, uring_answer, short>>
renderVars == <<render_pc, graph, entered, todo, present, clock, began, metrics,
                stageMs, render_result, sightings, absences>>

-----------------------------------------------------------------------------
Pool == INSTANCE ThreadPool WITH MaxJobs <- MaxPoolJobs

Calls == INSTANCE FfmpegCalls WITH pc <- call_pc

Copies == INSTANCE Splice WITH
  Sources <- SourceFiles, Chunk <- RoundSize, phase <- splice_phase

Uring == INSTANCE UringStat WITH
  phase <- uring_phase, i <- next, results <- stats, answer <- uring_answer

Render == INSTANCE RenderGraph WITH
  pc <- render_pc, entry <- entered, result <- render_result

CoreAssumption ==
  /\ Pool!PoolAssumption /\ Calls!CallsAssumption /\ Copies!SpliceAssumption
  /\ Uring!UringAssumption /\ Render!RenderAssumption

-----------------------------------------------------------------------------
BatchOver ==
  /\ cost = << >> /\ phase = "done" /\ indexed = << >>
  /\ part = [w \in Workers |-> Nothing] /\ queue = [w \in Workers |-> << >>]
  /\ results = << >> /\ answer = << >> /\ started = << >>

CoreInit ==
  /\ component \in {"batch", "pool", "calls", "splice", "uring", "render"}
  /\ IF component = "batch" THEN Init ELSE BatchOver
  /\ Pool!Init /\ Calls!Init /\ Copies!Init /\ Uring!Init /\ Render!Init
  /\ component # "render" => graph = (CHOOSE g \in Graphs : TRUE) /\ present = {}

CoreNext ==
  \/ /\ component = "batch" /\ Next
     /\ UNCHANGED <<component, poolVars, callVars, spliceVars, uringVars, renderVars>>
  \/ /\ component = "pool" /\ Pool!Next
     /\ UNCHANGED <<component, vars, callVars, spliceVars, uringVars, renderVars>>
  \/ /\ component = "calls" /\ Calls!Next
     /\ UNCHANGED <<component, vars, poolVars, spliceVars, uringVars, renderVars>>
  \/ /\ component = "splice" /\ Copies!Next
     /\ UNCHANGED <<component, vars, poolVars, callVars, uringVars, renderVars>>
  \/ /\ component = "uring" /\ Uring!Next
     /\ UNCHANGED <<component, vars, poolVars, callVars, spliceVars, renderVars>>
  \/ /\ component = "render" /\ Render!Next
     /\ UNCHANGED <<component, vars, poolVars, callVars, spliceVars, uringVars>>

coreVars == <<component, vars, poolVars, callVars, spliceVars,
              uringVars, renderVars>>

(* The fairness of each component, which asks nothing of the others. *)
CoreSpec ==
  /\ CoreInit /\ [][CoreNext]_coreVars
  /\ Fairness /\ Pool!Fairness /\ Calls!Fairness

-----------------------------------------------------------------------------
(* The variables of the component that runs have their types. *)
PartsTypeOK ==
  /\ component = "batch" => TypeOK
  /\ component = "pool" => Pool!TypeOK
  /\ component = "calls" => Calls!TypeOK
  /\ component = "splice" => Copies!TypeOK
  /\ component = "uring" => Uring!TypeOK
  /\ component = "render" => Render!TypeOK

(* See ThreadPool: the pool info is computed once and tells the truth. *)
InfoHolds == component = "pool" => Pool!InfoHolds

(* See ThreadPool: no two workers are pinned to one core. *)
PinnedApart == component = "pool" => Pool!PinnedApart

(* See ThreadPool: every call of the initialisation returns, unless tasks  *)
(* that ask for the pool info hold up its warm-up.                         *)
InitReturns == Pool!InitReturns

(* See FfmpegCalls: a decode answers with its own samples unless another   *)
(* one was at the temporary file.                                          *)
OwnSamplesUnlessShared == component = "calls" => Calls!OwnSamplesUnlessShared

(* See FfmpegCalls: a report has what returned before it and no more than  *)
(* what happened.                                                          *)
ReportInBounds == component = "calls" => Calls!ReportInBounds

(* See BatchScheduler and FfmpegCalls: batches, decodes and runs return. *)
CallsReturn == Returns /\ Calls!CallsReturn

(* See Splice: a copy that reports success is a whole one. *)
ImplementsWholeCopy == Copies!ImplementsWholeCopy

(* See BatchScheduler and Splice: each job is in one part or has its       *)
(* result, and no round of a copy leaves bytes in the pipe.                *)
NothingLost ==
  /\ component = "batch" => PartsCoverPending
  /\ component = "splice" => Copies!PipeSettled

(* See UringStat: each path gets its own answer, and no operation outlives *)
(* the buffers, unless the kernel let the call go early.                   *)
AnswersInOrder ==
  component = "uring" => Uring!AnswersInOrder /\ Uring!BuffersOutliveOps

(* See RenderGraph: a render fails at the first flaw of its graph. *)
OutcomeIsFirstFlaw == component = "render" => Render!OutcomeIsFirstFlaw

(* See RenderGraph: attempts, successes, fallbacks and times add up. *)
MetricsAddUp == component = "render" => Render!MetricsAddUp
=============================================================================
