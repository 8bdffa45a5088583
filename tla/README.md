# A verification project for RuStream

RuStream (`ruststream-core`) is a Rust library, with a small command line and
server, that probes, mixes, resamples and concatenates media files. It calls
FFmpeg as a library and as a subprocess, spreads batches over the rayon thread
pool, and keeps several caches in front of the file system. This directory
holds TLA+ models of the parts of it whose correctness depends on order,
sharing, failure or long sequences of calls, the TLC runs that check them and
TLAPS proofs about fourteen of them. Paths below are under `ruststream-core/src/`.

## The system

| Component | State | Operations | Interacts with |
|---|---|---|---|
| `filters/overlay_cache.rs` | map of decoded images, recency list, counters, behind one RwLock | `get_or_decode`, `prewarm`, `invalidate`, `clear`, `stats` | files (through `cache_key`), rayon (`prewarm`) |
| `probe/cache.rs` `MediaCache` | redb table on disk; `LruIndex` in memory | `open`, `get`, `put`, `enforce_size_limit`, `clear`, `stats` | `probe_cached` holds it under a mutex; survives the process |
| `probe/mod.rs` | the global `MediaCache` | `probe_full`, `probe_fast`, `probe_cached`, `probe_batch`, `cache_key` | FFmpeg, files, rayon |
| `probe/hot_cache.rs` | one ring of 64 answers per thread | `probe_cached_l1`, `l1_invalidate` | in front of `probe_cached` |
| `video/mod.rs`, `video/pipeline_fusion.rs` | a list file in the temp directory, the output file | `concat_videos`, `concat_stream_copy`, `fused_concat`, `fused_concat_batch` | `probe_fast`, `preallocate`, ffmpeg, rayon |
| `core/batch_scheduler.rs` | none between calls | `run_scheduled`, `probe_scheduled`, `concat_scheduled` | rayon; calls `concat_videos` in its workers |
| `core/thread_pool.rs`, `io/affinity.rs` | `POOL_INFO` (OnceLock), `CORE_COUNTER`, rayon's global pool | `init_thread_pool`, `pool_info`, `worker_count`, `pin_to_physical_core` | every rayon user |
| `audio/audio_resample.rs` | `SampleBuffer`: channels, `read_pos` | `resample_audio_file`, `encode_wav`, `encode_aac` | decoder, resampler, encoder |
| `audio/buffer_pool.rs`, `BufferPool` of `hot_kernels.rs` | stacks of buffers, one per thread and size class, and one per thread for all legacy pools | `acquire_*`, drop, `into_inner`, `acquire`, `release`, aligned buffers | mixing code |
| `audio/hot_kernels.rs` | none; memory of the caller | `audio_mix`, `apply_volume`, `apply_gate`, each scalar and in SIMD widths | rayon above a threshold |
| `audio/audio_mix.rs`, `audio_bake.rs`, `gate_utils.rs` | none; the output file | text of filter graphs and gate expressions; `bake_master_audio` | files, ffmpeg |
| `video/{assembly,clip_processing,overlay_merge}.rs` | none; the output file | `bake_assembly_audio`, `process_clip`, `merge_overlays` | files, ffmpeg; **not compiled** |
| `audio/native_decode.rs` | a temporary file of one name per process | `decode_ffmpeg_fallback`, the Symphonia path | `FfmpegCommand` |
| `io/subprocess.rs` | a timeout that is stored | `FfmpegCommand::run`, `output`, `temp_file` | ffmpeg, the counters |
| `core/instrumentation.rs` | relaxed atomics shared by all profilers; stages of a profiler | `record_*`, `generate_report`, stage timers | everything that takes a `Profiler` |
| `io/splice.rs` | a pipe, the files, a byte count | `splice_copy`, `splice_concat` | kernel |
| `io/uring.rs` | a ring, names and `statx` buffers, results | `stat_batch` | kernel; behind a feature |
| `io/fallocate.rs`, `io/prefetch.rs`, `io/sync_io.rs` | files | allocation, advice, whole reads | kernel |
| `core/render_graph/` | metrics and stage times of one call | `process_render_graph`, `run_audio_graph` | files; **not compiled** |
| `core/timeline.rs`, `core/audio_graph.rs`, `core/errors.rs` | plans | builders, `validate`, error codes | callers, the render graph |

*Not compiled*: no `mod` line of the crate names these files. They are modelled
as they are written.

What is hard about it, and what would make it correct:

* **Check, then act.** `get_or_decode` releases its lock to decode,
  `probe_cached` releases its mutex to probe. Correct: nothing is lost or kept
  for ever, limits hold up to a stated error, answers are not stale.
* **Keys of files that change.** The key is computed from one `stat` and used
  later, twice in `probe_cached`. Correct: a stale entry has one known cause.
* **Two stores, no common lock, one of them lost at a restart** (`MediaCache`).
  Correct: index and table agree whenever they are supposed to.
* **A shared file name** (the concat lists of one process). Correct: a job's
  output is made of its own inputs.
* **Partial failure**: failing evictions, writes of lists, an ffmpeg that
  cannot be started. Correct: later calls do not pick up the pieces.
* **Work stealing and blocking initialisation.** Correct: each job is run once,
  answers are in order, calls return.
* **Long sequences of calls at a boundary** (sample buffer compaction, recency
  lists, rings, pools). Correct: the mechanism implements its simple
  description.
* **A graph and a command line that are built apart.** The chains of a filter
  graph name inputs by number; the list of inputs is filtered by other checks.
  Correct: number and file agree, and labels are defined once and used once.
* **Transfers in parts, completions out of order, early returns** (`splice`,
  `io_uring`). Correct: a success is a whole copy, and each path has its own
  answer.
* **Stages that fail in turn** (`render_graph`). Correct: the outcome is that of
  the first flaw, and the counts add up on every way out.
* **Counters written one by one and read one by one.** Correct: a report has
  what returned before it and no more than what happened.
* **Vector remainders** (the tails of the SIMD kernels, the chunks of the
  parallel one). Correct: all kernels give the same samples, and memory behind
  the buffer is left alone.

`PROJECT.json` lists these as hazards, each with its line and its properties.

## The modules

`AssetFiles` is the environment of both caches: a file is a version number that
grows with every replacement, and `Stamp[v]` is what `stat` shows of a version
(seconds and size), so two versions may share a stamp. `cache_key` is here.

`OverlayCache` has one action per critical section. `pc` is where a thread is
in `get_or_decode`: `GetOrDecode` computes the key, `LookupHit`/`LookupMiss` is
the section under the read lock, `Touch` and `Insert` are the two write-locked
sections, `Decode`/`DecodeFails` lies between without a lock. `invalidate` is
two steps (key, removal), `clear` one. `redundant` is a history variable: it
counts inserts of a key that is already present. `LruCache` is the abstract
specification, a recency list of what is cached and nothing else, and
`ImplementsLru` the mapping to it.

`MediaCache` keeps the table (`table`) apart from the index (`order`, `sizes`,
`total`), and every transaction and every section under the index lock is an
action: `Put` commits, `Index` updates the index, `WithinBudget`/`OverBudget`
reads the total, `Choose` picks victims, `Delete`/`DeleteFails` is the second
transaction, `Forget` the second update. `Restart` loses the index and the
program counters at any moment. `overlapped` and `failed` are history
variables that say when two calls ran at the same time or an eviction failed.

`ProbeCache` puts the per-thread rings in front of the map that `MediaCache`
implements. A `get` and a `put` run under the mutex and are one step each; the
probe lies between. `Put` may drop any set of entries, which covers whatever
`MediaCache` evicts, and `PutFails` and `L2Fails` cover its errors, as well as
the in-memory fallback, which never stores. `raced` is a history variable: the
keys a file took between a probe and the put of that probe.

`ConcatJobs` runs a batch of jobs on a bounded number of workers. It models
the list file as a directory entry, an inode and a write position, so that
truncation by `File::create`, writes through a descriptor whose file was
truncated (which leave a hole) and `unlink` while others are about to read are
what they are in the file system. `mode` is the half of the code that runs
(`concat_stream_copy` or the transcoding half). `shared` and `leaked` are
history variables.

`BatchScheduler` sorts by cost (any order among equals, as the sort is
unstable), hands the vector to a model of rayon's splitting and stealing, and
restores the order. `OrderedMap` is what it promises.

`AacEncoder` models one channel of `encode_aac` with numbered samples; all
channels get the same number of samples at each step.

`MixKernels` runs one call of a mixing kernel, one loop iteration per step,
over a memory that is longer than the buffer: the bound `Reach` leaves room for
any vector that begins within it. A kernel is a width: 1 is the
scalar one, wider ones have a body and a tail, and `audio_mix` above the
threshold is cut into chunks. Samples are small integers, and clipping is to
`-One..One`. What is expected of a call is `Sum`, the product or silence, each
computed from the arguments alone.

`BufferPool` has a guard, or the `Vec` that `into_inner` left, in each of a few
handles, and the stacks of every thread. Of a buffer it keeps the capacity, the
length and how many of its first samples may not be 0. `made`, `peak` and
`strayed` are history variables: the allocations of a thread, the most guards
it had at a time, and which guards changed threads or became a `Vec`.

`FilterJobs` is a job that runs ffmpeg with a filter graph; `kind` is the
function (`bake`, `assembly`, `clip`, `overlay`, or a builder of `audio_mix.rs`
that only returns a text). `phase` is where it is, and one extra file is looked
at per step, so that files may appear and vanish between the checks. `pads` has
the file each input number of the graph was meant for and `inputs` the files of
the command line; `graph` has the chains with their labels. A gate expression is
what it evaluates to at a moment (`Gate`, `Enable`). `FilterJobSets` has the
jobs of the instances.

`FfmpegCalls` has threads that decode through the temporary file and threads
that run ffmpeg with a profiler. The file is an entry and an inode as in
`ConcatJobs`; every `fetch_add` and every load is a step of its own, loads in
any order. `shared`, `reported`, `happened` and `floor` are history variables.

`Splice` has an action per system call; how many bytes it moves, and whether it
fails, is the kernel's choice. `WholeCopy` is what it promises. `UringStat`
keeps what was pushed, what the kernel works on, and what is completed;
`WaitCutShort` and a partial `Submit` are the returns of `submit_and_wait` that
did not wait for all, and `short` records them.

`RenderGraph` has the checks of validation and of each stage as sequences whose
first entry that fires is the error, one action per stage, and one per path that
the probe looks at. The clock and the files move by themselves. What a caller
would call a flaw is stated apart from the checks (`Flawed`).

`ThreadPool` models the `OnceLock`, `build_global`, the warm-up, pinning, and
parallel jobs of other threads on the same pool, or on rayon's default one if
they come first. `registry` is what rayon has for its global pool: it is made
once, so it stays `"failed"` when a worker cannot be spawned, and a parallel
iterator then panics (`SubmitPanics`). The default pool has `DefaultWorkers`
workers, and nothing is assumed of their number but that there is one:
`num_cpus::get` and rayon respect the quotas and affinities that
the repository's `docs/DEPLOYMENT.md:97` and `:321` set, and
`num_cpus::get_physical`, which sizes the tuned pool and the pinning, does
not. `stack[w]` has the frames of a worker,
the innermost first. A frame is a part of a job (the warm-up, or one of a
caller): the tasks that it has not begun, and the pieces that others stole from
it, for which it waits before it is left. A worker that waits takes other work,
injected or stolen, on top of the frame, as a rayon worker in a `join` does.
Tasks of the callers' jobs may ask for the pool info (`TasksAsk`). `Deadlocked`
says when the warm-up can never end.

`CacheParts` (`MediaCache` and `ProbeCache`), `AudioParts` (encoder, kernels,
pools, filter jobs) and `CoreParts` (batch, thread pool, ffmpeg calls, splice,
ring, render graph) each put parts that share no state next to each other: one
of the parts runs in a behaviour (`part` or `component` says which), the others
stay as they began, and a property of a part is stated of the whole. The `MC*`
modules give constants to TLC and define nothing else. Operators called *Variant* in
the modules are plausible mistakes in the operator that follows them; they are
used to see that each property can fail.

## The runs

| Run | Question | Bounds |
|---|---|---|
| `OverlayCacheShared` | does sharing lose entries, unbound the store, or give stale answers? | 2 threads, 2 paths of 2 versions, 2 entries, 5 lookups |
| `OverlayCacheOneCaller` | is it an LRU cache? | 1 thread, 3 paths, 2 entries, 5 lookups |
| `ProbeCaches` | do index and table stay consistent with sharing, failures and a restart; what can make an answer stale? | database: 2 threads, 3 keys, sizes 1-2, limit 3, batch of 2, 4 puts, 1 restart; probes: 2 threads, rings of 2, 1 restart, a path of 3 versions, the last two within a second, and 3 calls with two versions or 2 with all |
| `MediaCacheReopened` (violated) | is the stored size bounded across restarts? | 1 thread, limit 4, 1 restart |
| `ConcatJobs` | do jobs get their own inputs unless they share a list, after failures too, are lists removed, and does every job return? | batches of 3 jobs with one list name, of 2 compatible and of 3 odd ones; 2 workers; every file operation may fail; one clip changes once where clips are probed |
| `ConcatJobsParallel` (violated) | do parallel jobs get their own inputs? | 2 jobs of two clips |
| `Audio` | is the stream cut into frames correctly; do all kernels agree; do buffers come back silent and without allocations; are filter graphs wired and run on the files they were written for? | encoder: frame 3, threshold 6, chunks 0-4, 26 samples; kernels: widths 1, 2, 2, 3, 4, up to 3 inputs of 3 or 6 samples, outputs of 0-6; pools: 2 threads, 2 buffers in use, a class of 4 samples, pools of 0, 2 and 5, stacks of 1, 4 acquisitions; filters: a base and up to 3 extras out of 3 paths, moments -1 to 4, one file that appears or vanishes |
| `AacEncoderTail` (violated) | is the end of the stream complete? | the same encoder |
| `MixKernelsChunks` (violated) | do the parallel chunks mix the right samples? | scalar kernel, chunks of 2 from 4 samples on |
| `CoreIo` | are batches run once, in order, returning; is the pool initialised once and pinned apart, and when does a call of it not return; do decodes answer with their own samples and reports add up; are copies whole and stats in order; does a render fail at its first flaw? | batch: up to 4 jobs, costs 1-2, 2 workers; pool: 3 cores, a default pool of 2, 2 callers, 2 jobs of 2 tasks that ask; calls: 2 threads, 2 calls, 1 report; copies: sources of 3, 0 and 4 bytes, rounds of 3, a pipe of 2; ring: 5 paths by 2; render: 14 graphs, 2 files, 3 ticks of half a millisecond |
| `PoolDeadlock` (violated) | does every call of the pool's initialisation return? | the pool of `CoreIo` |
| `OverlayEnable` (violated) | are overlays off in the middle clips? | the filter jobs of `Audio`, files that stay |

Why these bounds are enough for what is asked. In `OverlayCacheShared` two
threads that miss the same key both insert it, the second time into a cache of
two entries that is not full, so the key is listed twice; the two paths have a
key per version, and five lookups are enough to fill the cache and pass its limit
after that, with invalidations and replacements in between. The proofs below
remove the bounds for the safety properties. In `ProbeCaches` the third
version and the third call are not combined (a constraint): a stale answer takes
two calls and one replacement. A limit of 3 with sizes 1 and 2 makes two puts exceed it, and 3 keys let an
eviction leave one of them. `MCCaches` assumes `VictimsMakeRoom`, that a
batch of victims frees at least one entry's size (100 entries against one in the
code): without it `TrackedWithinLimit` is false of an entry that is larger than
a batch. The proof has it as a premise.
In the encoder the frame does not divide the chunk and 26 samples pass the
threshold several times at different remainders. For the kernels the outputs
have every remainder by every width, with and without a full vector before it,
and are both longer and shorter than the inputs. For the pools a stack of one
is full after one release, two handles let a thread be above it, and the three
sizes let a buffer be too small for a pool, fit it, or have no samples at all.
In `ConcatJobs` two workers and three jobs of one list name give a create,
write, read and unlink of one job between any two steps of another, and a third
that starts late. In `CoreIo` the middle source of a copy is empty, a file is
longer than a round, and a round longer than the pipe; the ring of 2 makes two
full chunks and a short one; one graph of the render is at every limit, and the
others differ from it by one or two flaws, so that the order of checks shows.
Three cores make a tuned pool of two workers, as large as the default pool: one
worker can wait for the other's half of the warm-up with a task of a caller
before or on top of it, both can have such a task, and two callers with two
jobs let either come before, during or after the initialisation of the other.
In the filter jobs the extras are present, empty, missing or named twice, and
ranges are apart, touch, overlap or are empty. Symmetry is used for threads, paths, keys and handles, in
runs without liveness only.

Deadlock is checked in every run. Where a model may stop (all jobs done, the
call returned) an explicit stuttering disjunct says so. The one of `ThreadPool`,
`Hang`, has `Deadlocked` as its guard: TLC would report a pool that stops in any
other way.

### Fairness

Four specifications state fairness. `ConcatJobs`: weak fairness of "some
job goes on", because while jobs are left a rayon worker has one and goes on
with it, and ffmpeg is assumed to end (the code waits for it without a timeout,
so nothing could be shown otherwise). `BatchScheduler`: weak fairness of each worker and
of the caller. `ThreadPool`: weak fairness of a started initialisation, of each
worker and of the joins; callers need not start anything. `FfmpegCalls`: weak
fairness of each thread in its call, with ffmpeg assumed to end again; nobody
need start a call or a report.

### What the violated runs show

* `ConcatJobsParallel`: the list of a mode has one name per process
  (`video/mod.rs:137`, `:265`). Two jobs that run at the same time truncate,
  read and unlink each other's list, and one of them reports success with the
  clips of the other.
* `MediaCacheReopened`: a reopened cache starts with an empty index, so the
  entries of earlier processes are outside the limit that `probe/cache.rs:4`
  promises.
* `AacEncoderTail`: the flushes only extend the buffer, and the last frame is
  made with `resize`, which truncates if more than one frame is left
  (`audio/audio_resample.rs:475-479`).
* `MixKernelsChunks`: from the threshold on the scalar kernel gives each thread
  a chunk of the output, and every chunk reads the inputs from their first
  sample on (`audio/hot_kernels.rs:231`), so only the first chunk is right.
* `PoolDeadlock`: `core/thread_pool.rs:43` calls the initialisation safe to call
  any number of times. Its closure runs the warm-up (`:92`) and waits for it,
  while `POOL_INFO` is being initialised. A worker that has finished its half
  of the warm-up and waits for the other one takes a task of another thread's
  job meanwhile; if that task asks for the pool info, it waits in `get_or_init`
  for the warm-up, of which its own worker holds a part. One such task is
  enough. `InitReturns`, which `CoreIo` checks, is the other half of the story:
  but for this and for a pool whose workers all have such a task, every call
  returns. No task inside the crate asks; `run_scheduled` takes any closure.
* `OverlayEnable`: the condition is `between(t, ...) * (1 - sum)`
  (`video/overlay_merge.rs:104`). Where two middle clips overlap, or touch, the
  sum is 2 and the condition -1, which ffmpeg takes as enabled as well as 1.

### Other places where text and code differ

Not stated as runs, because one line settles each of them:

* `overlay_cache.rs:26` calls the limit a maximum; racing inserts pass it (by
  at most `redundant`, see `OvershootIsRedundant`). For the same reason an
  asset may be decoded twice (`:8`).
* `probe/cache.rs:21` has a target ratio, but 100 keys are evicted whatever
  they free; a `get` of an entry of an earlier process lists a key that has no
  size.
* `probe/hot_cache.rs:158` promises that the next call probes again; the
  shared cache answers.
* `probe/mod.rs:270`: a file replaced in the same second by one of the same
  size keeps its key.
* `video/mod.rs:85` compares resolution and frame rate, which `probe_fast`
  leaves at 0; with a single input `allow_stream_copy = false` is ignored.
* `pipeline_fusion.rs:32` probes once; `concat_videos` probes again when the
  clips are compatible. `stream_copy_used` is the answer of the first probe.
* `video/mod.rs:242` truncates the output before anything can fail, so a
  failed job destroys the old output; an output that is also an input is lost.
* `hot_kernels.rs:7` promises clipping, which the SIMD kernels do while they
  add the last input (`:302`): a single input, or fewer volumes than inputs,
  leaves the body unclipped and the tail clipped. An input shorter than the
  output counts as silence for the scalar kernel and is read past its end, or
  panics, in the others. `ResultIsReference` leaves these calls out.
* `buffer_pool.rs:81` derives `PartialEq` for `SizeClass`, whose variant
  `Custom` holds a `&'static BufferPool` that has none, so the file does not
  compile as it is; `BufferPool` models what it says. A pool of buffers without
  samples never gets one back, as `Drop` leaves out empty ones.
* `core/batch_scheduler.rs:72`: under work stealing jobs do not start in cost
  order.
* `video/clip_processing.rs:12` and `video/overlay_merge.rs:11` promise input
  validation. `process_clip` and `merge_overlays` give each extra a chain, and
  leave files that do not exist, or overlays without a length, out of the
  command line (`video/clip_processing.rs:166`), so the graph names an input
  that is not there, or the chain of one file works on the next. In
  `audio_bake.rs` the two looks use the same check, and differ if a file
  vanishes between them.
* `core/thread_pool.rs:83`: the warning says that rayon's default pool is used.
  That is so if it runs already; if a worker could not be spawned rayon has no
  pool, and a later parallel iterator panics.
* `core/thread_pool.rs:126`: `worker_count` is not the number of workers when
  the pool could not be built; `io/affinity.rs:18` shows core 0 for thread 3 of
  4 cores where the code gives 3. Cores are logical numbers, so two of them may
  be siblings of one physical core.
* `audio_mix.rs`: the texts of `build_amix_filter` and
  `build_concat_audio_filter` use labels that nobody defines, and the first
  defines `[a]` twice. `GraphIsWired` leaves these two kinds out.
* `io/subprocess.rs:79`: the timeout is stored and never enforced. `:192` calls
  the temporary file unique, but the name is the same for all calls of a
  process: two decodes at a time may read each other's samples, which is why
  `OwnSamplesUnlessShared` has a premise.
* `audio_bake.rs:238` says that counters are incremented; `output` passes no
  profiler, so they are not.
* `native_decode.rs:221` calls `into_string` on a `Cow`, and `io/uring.rs`
  clones errors that are not `Clone`: neither compiles with its feature switched
  the way that uses the line.
* `io/splice.rs`: when `splice` moves nothing out of the pipe, the error is
  made from an `errno` that no call has set. The model lets a drain move at
  least a byte or fail.
* `io/uring.rs`: `submit_and_wait` is not repeated when it returns early, so
  the buffers are freed while the kernel may still write to them;
  `BuffersOutliveOps` has `short` as its premise for that reason.
* `core/render_graph/`: mode, timeout and emit flags of the configuration are
  not looked at; every failure is recorded as a fallback, although
  `component.rs:53` keeps the word for emergencies; a good decode counts two
  attempts; failures have no total time; and the encode stage reports an
  artifact that it does not write. `MetricsAddUp` states what the counts are.

## The proofs

The modules named `*Proofs` are checked by TLAPS, for all values of the
constants that satisfy the assumptions of the modules they are about. Those of
the modules with a run of their own are assumed there and evaluated by TLC
(`FilesAssumption`, `OverlayAssumption`, `MediaAssumption`, `JobsAssumption` of
`ConcatJobs`, `SchedulerAssumption`, `AacAssumption`). Those of the modules that
others instantiate (`PoolAssumption` of `BufferPool` and of `ThreadPool`,
`ProbeAssumption`, `SpliceAssumption`, `UringAssumption`, `CallsAssumption`,
`KernelAssumption`, `JobsAssumption` of `FilterJobs`, `RenderAssumption`) are
premises of the theorems, and the MC modules assume them of their instances.
They ask that counts are natural numbers, that jobs, calls and graphs have the
shape the code gives them, and that sets which something is counted over are finite. `Threads` and
`Paths` of the overlay cache need not be finite: the recency list is, and it
covers the store.

`IoProofs`, `CoreProofs` and `AudioProofs` are each about several components,
which share no state: the first is extended and the others are instances under a
prefix, so a theorem of theirs is one of the component by itself.

*The parts next to each other.* The runs check compositions, so the last theorems
are about these: `CoreParts` in `IoProofs`, `AudioParts` in `AudioProofs`,
`CacheParts` in `MediaCacheProofs`. A step of a composition is a step of each of
its parts, which may stutter, so a behaviour is a behaviour of each part, or the
part never runs (`PartsAreCaches`, `EachPartRuns` and its like in `IoProofs`);
what is proved of the parts then carries over by temporal logic. Where the
theorems of a part are in a module of its own (`ProbeCacheProofs`,
`BufferPoolProofs`), that module is instantiated, and lemmas (`SameSlabs`,
`SameStock`) show that its operators are those of the composition. So every
safety invariant of the passing runs is a theorem, stated in the words in which
TLC checks it, for all values of the constants with
`CoreAssumption`, `AudioAssumption` or `CachesAssumption`, the conjunctions of
the assumptions of the parts.

*Overlay cache.* `TypeCorrect` is `TypeOK`. For the limit, `CachedIsListed` and
`Len(order) <= MaxEntries + redundant` are needed together: a store that is
contained in the list is no larger than the list (a cardinality lemma on the
range of a sequence), and the list grows past `MaxEntries` only when an insert
found its key present, which is what `redundant` counts. `ListBound` is that
strengthening, and the lemmas on `Unlist`, `touch` and `Tail` say what each
operation does to the range and the length of the list. `AlwaysListed`,
`OvershootBounded` and `SingleCallerWithinLimit` follow; for the last one the
invariant says in addition that a thread about to insert found its key absent.
`AnswersAreFresh` rests on an invariant that every stored asset is at least as
new as the stamp in its key, and on the monotonicity of `Stamp`.
`SingleCallerIsLru` proves the refinement of `LruCache`, which nobody's proof of
a single invariant would give: the inductive invariant `CallerInv` says that the
list covers the store and is exactly as long as the store is large, so it names
each cached key once and nothing else, and that an entry found by the lookup is
still there when the hit moves it to the end. With that, each of the steps of
the one caller is a step of `LruCache` or leaves its list alone.

*Media cache.* Three layers. `Basic` is inductive for any interleaving: with the
types it has `TotalIsSum` and `TrackedIsListed` (`TotalCorrect`,
`ListedCorrect`), from lemmas on what a change at one key does to a sum over a
finite set, and on what `retain` keeps. `Mirror` adds that, as long as calls do
not overlap, at most one is under way, and the index is the table but for the
key which that call has changed in one of them and not yet in the other; in the
process that created the database the order is then an exact list of what is
stored (`MirrorsCorrect`). `Limit` adds that the total is within the limit but
for the entry the call has just put, and that the victims are the end of the
order: under `VictimsMakeRoom` they make up for that entry (`VictimsFree`), which
gives `LimitCorrect`. None of the history variables can be left out of it:
with an overlap, a failed eviction or a restart the conclusion is false, the last
being what `MediaCacheReopened` shows.

*Concat jobs.* The inodes are named by the jobs that created them, and `Names`
says that a directory entry, or a descriptor, of a mode is an inode of that mode
made by a job that has got past its creation. For a job that met nobody at its
list, `JobOK` follows the contents: the lines written so far are the inputs so
far, the directory has that inode, what ffmpeg was fed are the inputs, and an
output after a success is made of them. A step of another job cannot disturb
this without putting both jobs into `shared` (`OwnPrivate`, `OwnCreate`,
`OwnWrite`, `OwnRemove`). From it follow `OwnUnlessSharedCorrect`, for any jobs
and workers and whatever fails, and `OneWorkerCorrect`: with one worker
(`Workers = 1`) `shared` stays empty, so `OwnInputs`, which two workers violate
in `ConcatJobsParallel`, holds, and lists that earlier failures left behind
cannot change that. `NothingLeftCorrect` needs `WillBeRemoved`: a list that
exists is in `leaked`, or held by a job of that mode that has yet to remove it.

*Batch scheduler.* `BatchInv` says that the parts held and queued are disjoint
and cover exactly what has no result (`NoJobLost`), and that `indexed` is a
permutation. Splitting, popping and stealing are all instances of one lemma
(`Recut`): every new part lies in an old one, and no job of an old one is left
out. `BatchIsOrderedMap` is the refinement of `OrderedMap`: a job runs once
because it has left the parts when it has a result, and the second sort puts the
answers back because a strictly increasing function from `1..n` to itself is the
identity (`IncreasingIsIdentity`).

*Thread pool.* `PoolInv`: while the lock is taken exactly one thread computes,
and once `build_global` has been called that is a caller if it succeeded, as no
worker of the tuned pool exists before; a worker is idle exactly if its stack is
empty, so that one which goes on with a part has one (`WorkerMoves` shows this
for taking, stealing, going on and leaving alike); and the counter is the number
of workers that ran the start handler, those of a failed spawn among them, while
a worker has a core below the counter, none with another's, or none at all
(`CounterBelow`: there are fewer of them than cores). `InfoTrue` and `CoresApart`
state what the run checks as `InfoHolds` and `PinnedApart`, for any number of
cores and any size of the default pool, larger or smaller.

*AAC encoder.* The inductive invariant says that `read_pos` is within the
buffer, that what was sent followed by what is unread is `1..produced`, and
that less than a frame is unread when the packet loop asks for more. From it
follow `StreamContiguous`, `BufferBounded` and `SentPrefix`. `FramesWhole` needs
that a multiple of the frame size is one again after a frame, which the provers
get from the order of the multiples (`OneFrameMore`).

*Mixing kernels.* Two layers. `Shape` says what each label goes with, and that
the vectors begin at whole multiples of the width: so each vector of the body
lies within `simd_len`, and the one vector that reaches over the end of the buffer
stores there what it loaded, since its masked lanes add 0
(`KernelsStayInside`). `Computed` says what the memory holds: in the body each
sample is the sum of the inputs done at its index, clamped after the last
(`Partial`); in the tail the sum, not yet clamped; of the parallel chunks none
but the first stores to the first. At the end this is `ResultIsReference`
(`KernelsCompute`): for any width, length, chunk size, inputs, volumes and gains,
and whatever is loaded from behind the inputs. The sum is a recursive function of
the number of inputs; that it exists, and that one more input adds its sample,
is shown by a least counterexample as below (`SumRule`).

*Filter jobs.* The graph and the list of inputs are made in two passes with
checks of their own, so the invariant has to say which extras each of them
takes. `Chained` is the set of the extras that get a chain, `Given` that of the
inputs, and `Listed(l, n, S)` that `l` came about by looking at the extras `1..n`
in turn and taking those in `S`. While no file changes, each list is `Listed`
with its set up to the extra in hand, and stays so while the other is made
(`Lists`). An input of the command exists, so it has a chain, and of two lists
the one that takes more is the longer unless they are the same
(`ListsCompared`). ffmpeg runs only if it has an input for every number of the
graph, so when it has made an output the two lists are one (`OutputMeant`).

That the graphs hold together (`GraphWired`) is shown in two steps. A lemma for
each builder says of the chains it makes, for any number of extras, what each
reads and what it makes (`BakeWired`, `ClipWired`, `OverlayWired`, `MusicWired`,
`CrossfadeWired`). That labels do not clash comes from functions which find the
chain that makes a label, and the chain and the place that read it, from the
label alone. The invariant `NumbersInv` then says that a graph is made once, from
numbers that are strictly increasing extras, so that a bake has at most three
with different names, and an overlay job has at least one. A merge reaches its
graph only if an overlay was taken as an input, and a music or a crossfade job has
a second input by `JobsAssumption`, as these builders take two.
`GatesAlwaysSplit`: the sum in a gate is
not 0 exactly where one of its terms is 1, by a least counterexample (`GateSum`).

*Buffer pools.* `FreshSilent` proves `FreshIsSilent`, and needs that the stack
shared by the legacy pools holds cleared buffers only (`SharedIsClean`): a
class clears what it takes, a legacy pool does not. `AllocatesAtPeak` proves
`AllocatesAtPeakOnly` from two facts. A buffer of a class keeps the capacity it
was made with, on a stack and in a guard (`SizesInv`), so the tolerance of the
release never refuses it. And as long as no guard of the thread has strayed and
the stack has been large enough, what it allocated is what it had at its
busiest moment, and lies on its stack or in its hands (`AllBalanced`); the
lemma `GuardsAfter` says how a change of one handle changes the number of
guards.

*Probe caches.* `SlabUnique` needs that a thread which missed in its slab still
misses when it writes there (`StillMissing`): the slab is its own, and a call
keeps the key it began with. `StaleEntries` needs `PutIsCurrent`: what a call is
about to store is its file as it is now, or the key it would be stored under is
in `raced` already. `StaleAnswers` follows the metadata on its way through L2,
the call and the slab: at each place, if it is older than the stamp it stands
for, a key of the same path in `raced` is to blame (`CallsBlamed`,
`SlabsBlamed`), and `raced` only grows. Restarts and the eviction of any
entries are covered, as steps of the specification.

*Batched stat.* The invariant of `EachPathItsAnswer` says where the operations
are: unless a return was cut short, those the kernel works on or has completed
are operations of the chunk in hand, and as many as the phase says. So a wait
that saw as many completions as were submitted saw all of them (a cardinality
argument), and none of an earlier chunk is left to be taken for one of this
chunk. `NoOpOutlivesBuffers` follows from the same invariant.

*ffmpeg calls.* For `OwnSamples` the invariant `OwnFile` says that a decode
which met no other is alone at the temporary file, which has its samples from the
time it is opened; that a free inode can always be found is a matter of
counting (`FreeInode`). For `ReportsInBounds` each counter is what returned calls
have reported plus the number of runs that have written to it and not yet
returned, and what has happened is the same with the runs that have something
still to write; so a load, at whatever moment, gives no less than `floor` and no
more than `happened`, which only grows.

*Splice.* `RoundsSettle` needs what the pipe holds at each point of a round.
`SourcesAreCopied` proves the refinement of `WholeCopy`, for any number of
sources, with empty ones among them: the destination is a prefix of the sources
put together, the pipe holds what follows it, and the next read starts where
the two end. The sources put together are `FlattenSeq`, a recursive function;
what one source more adds to it is shown by a least counterexample, as below.

*Render graph.* What a caller would call a flaw (`Flawed`) is related to the
checks of the code stage by stage: the first error of a list is one exactly if a
check in the list holds (`FirstErrorFinds`), and the lists of a validation are
put together from parts whose ranges are known. `Sources` names the paths of the
graph and no other (`SourcesName`, which needs the range of a flattened
sequence). The invariant then says that a stage runs only when none before it has
a flaw (`Running`), that each path was seen or is still to be looked at
(`Probing`), that the only attempts not closed are the one of the stage that runs
and the one of validation (`Counted`), and that the stages so far took no more
than the time until the current one began (`Timed`): two stretches that are
rounded down never exceed their sum rounded down (`RoundedDown`). The files may
change and time may pass at every step.

The sum of the tracked sizes and `retain` are defined by recursive functions,
and induction over their arguments needs a theorem with an operator as
parameter. Where the recursion is over a number it is replaced by a least
counterexample: the set of the numbers for which the claim fails, if it is not
empty, has a least element (`LeastNatural`, from the well-foundedness of the
order on the naturals, which the library states for sets). That is how
`MediaCacheProofs`, `AudioProofs` and `CoreProofs` (for `FlattenSeq`) show that
such a function exists and what it does.

Left to TLC: liveness (`EveryJobReturns`, `CallsReturn`, `InitReturns`) and
everything with ENABLED, which are out of the prover's reach. Each safety
property of a passing run, and the three refinements among them, is a theorem; the
runs remain the check that the theorems speak of states that are reached, and
that the properties can fail.

## Not modelled

FFmpeg, redb, rayon and the kernel appear only as the code uses them (entries
marked external in the map). Floating-point arithmetic, text of filters and log
messages are left out. Jobs have different outputs that are no one's input.

* The Symphonia path of `native_decode.rs` and `simple_resample`: one loop over
  a library's packets without shared state, and arithmetic on reals.
* `encode_wav`, `io/sync_io.rs`, the advice calls: a single pass of I/O.
* Stage timers of a profiler, `PipelineResult`, the builders of plans, unit
  conversions: owned by one caller, each call a single assignment.
* Filters with one parameter (delay, pitch) and
  `build_intro_only_gate_expr`: text only.
* The command line and the server: argument parsing and start-up.

## Plan

1. Overlay cache, probe caches, concat jobs, batch scheduler, encoder buffer,
   thread pool, mixing kernels, buffer pools: done.
2. Filter jobs, ffmpeg calls with the counters, splice, batched `stat`, render
   graph with the validation of plans: done.
3. Compositions: `ProbeCache` on top of `MediaCache` instead of an arbitrary
   eviction; `ConcatJobs` under `BatchScheduler`.
4. Proofs of the overlay cache, probe caches, media cache, concat jobs, batch
   scheduler, thread pool, encoder, mixing kernels, filter jobs, buffer pools,
   ffmpeg calls, splice, batched `stat` and render graph: done.
5. Proofs of the compositions as the runs check them, of the copy of several
   sources, and of the wiring of the graphs: done.
6. Open: refinements across components (3), and liveness by hand-made rankings
   should a prover for it become available.
