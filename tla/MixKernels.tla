----------------------------- MODULE MixKernels -----------------------------
(***************************************************************************)
(* audio/hot_kernels.rs: one call of audio_mix, apply_volume or apply_gate.*)
(*                                                                         *)
(* The four SIMD kernels of each function differ in their width and in how *)
(* they treat what does not fill a vector, so they are one kernel here with*)
(* Lanes as its width.  A step of the body is one vector.  Memory beyond   *)
(* the buffer is modelled, because a vector may reach over its end, and so *)
(* may a load from an input that is shorter than the output.  Samples are  *)
(* integers, with One for full scale: rounding is left out.                *)
(***************************************************************************)
EXTENDS Integers, Sequences, FiniteSets

CONSTANTS
  Lanes,              \* Lanes[k]: width of kernel k, see Kernels
  One,                \* the sample 1.0
  Lens,               \* lengths of the output, or of the buffer
  Inputs,             \* the lists of inputs, each a sequence of samples
  Volumes,            \* the lists of volumes
  Gains,              \* gains of apply_volume, 1 for unity
  Garbage,            \* what memory the call does not own may hold
  Threshold,          \* PARALLEL_THRESHOLD
  ChunkSize,          \* CHUNK_SIZE
  Reach               \* bound on the memory a vector in the buffer reaches

Simd == {"sse41", "avx2", "avx512", "neon"}
Kernels == DOMAIN Lanes

(* What the constants must be. *)
KernelAssumption ==
  /\ Kernels \subseteq Simd \cup {"scalar"}
  /\ Lanes \in [Kernels -> Nat \ {0}]
  /\ One \in Nat \ {0} /\ Lens \subseteq Nat /\ Garbage \subseteq Int
  /\ Threshold \in Nat \ {0} /\ ChunkSize \in Nat \ {0}
  /\ Inputs \subseteq Seq(Seq(Int)) /\ Volumes \subseteq Seq(Int)
  /\ Gains \subseteq Int
  /\ Reach \in Nat /\ \A l \in Lens, k \in Kernels : l + Lanes[k] <= Reach

VARIABLES
  call,        \* the call: kernel, op, length and arguments
  before,      \* memory from the start of the buffer, as it was
  memory,      \* as it is
  input_idx,   \* inputs done
  at,          \* index of the next vector
  left,        \* starts of the chunks not done yet (scalar, parallel)
  pc

vars == <<call, before, memory, input_idx, at, left, pc>>
loops == <<input_idx, at, left>>

len == call.len
W == Lanes[call.kernel]
Goto(label) == pc' = label

min(a, b) == IF a < b THEN a ELSE b
max(a, b) == IF a > b THEN a ELSE b
clamp(x) == max(-One, min(One, x))

(* inputs.iter().zip(volumes.iter()) *)
Zipped == min(Len(call.inputs), Len(call.volumes))

(* Sample idx of the k-th input times its volume; silence after its end. *)
Scaled(k, idx) ==
  IF idx < Len(call.inputs[k]) THEN call.inputs[k][idx + 1] * call.volumes[k]
                               ELSE 0

(* The sum of the first n inputs at idx. *)
Sum(n, idx) ==
  LET sum[k \in 0..n] == IF k = 0 THEN 0 ELSE sum[k - 1] + Scaled(k, idx)
  IN  sum[n]

Store(base, n, value(_)) ==
  [a \in DOMAIN memory |->
     IF a \in base..(base + n - 1) THEN value(a) ELSE memory[a]]

-----------------------------------------------------------------------------
(* Dispatch                                                                *)

simd_len == (len \div W) * W

AudioMix ==
  /\ pc = "call" /\ call.op = "mix" /\ len > 0 /\ call.inputs # << >>
  /\ Goto(IF call.kernel \in Simd THEN "body" ELSE "chunks")
  /\ left' = IF len >= Threshold
             THEN {a \in 0..(len - 1) : a % ChunkSize = 0} ELSE {0}
  /\ UNCHANGED <<call, before, memory, input_idx, at>>

NoInputs ==
  /\ pc = "call" /\ call.op = "mix" /\ (len = 0 \/ call.inputs = << >>)
  /\ memory' = Store(0, len, LAMBDA a : 0)
  /\ Goto("done")
  /\ UNCHANGED <<call, before, loops>>

ApplyVolume ==
  /\ pc = "call" /\ call.op = "volume" /\ len > 0 /\ call.gain \notin {0, 1}
  /\ Goto(IF call.kernel \in Simd THEN "scale" ELSE "scale all")
  /\ UNCHANGED <<call, before, memory, loops>>

(* Empty, unity gain, zero gain. *)
VolumeFastPath ==
  /\ pc = "call" /\ call.op = "volume" /\ (len = 0 \/ call.gain \in {0, 1})
  /\ memory' = IF call.gain = 0 THEN Store(0, len, LAMBDA a : 0) ELSE memory
  /\ Goto("done")
  /\ UNCHANGED <<call, before, loops>>

ApplyGate ==
  /\ pc = "call" /\ call.op = "gate"
  /\ memory' = Store(call.start, max(0, min(call.end, len) - call.start),
                     LAMBDA a : 0)
  /\ Goto("done")
  /\ UNCHANGED <<call, before, loops>>

-----------------------------------------------------------------------------
(* audio_mix_scalar                                                        *)

(* mix_and_clip_chunk: its indices count from the start of the chunk, for  *)
(* the inputs too.                                                         *)
MixChunk(start) ==
  /\ pc = "chunks"
  /\ start \in left
  /\ LET n == IF len >= Threshold THEN min(ChunkSize, len - start) ELSE len
     IN  memory' = Store(start, n, LAMBDA a : clamp(Sum(Zipped, a - start)))
  /\ left' = left \ {start}
  /\ UNCHANGED <<call, before, input_idx, at, pc>>

ChunksDone ==
  /\ pc = "chunks" /\ left = {}
  /\ Goto("done")
  /\ UNCHANGED <<call, before, memory, loops>>

-----------------------------------------------------------------------------
(* audio_mix_sse41, _avx2, _avx512 and _neon                               *)

(* Variant: inputs are counted from 1. *)
LastInputCountedFromOne == Len(call.inputs)

last_input_idx == max(0, Len(call.inputs) - 1)

(* The vector at `at` of input k, a load that may run over its end. *)
Load(k, garbage) ==
  [j \in 0..(W - 1) |->
     IF at + j < Len(call.inputs[k]) THEN call.inputs[k][at + j + 1] ELSE garbage]

(* The first input is scaled, the last one clamped. *)
MixVector ==
  /\ pc = "body"
  /\ input_idx < Zipped /\ at < simd_len
  /\ call.kernel = "neon" \/ at < Len(call.inputs[input_idx + 1])
  /\ \E garbage \in Garbage :
       LET k == input_idx + 1
           scaled(a) == Load(k, garbage)[a - at] * call.volumes[k]
       IN  memory' = Store(at, W, LAMBDA a :
             IF input_idx = 0 THEN scaled(a)
             ELSE IF input_idx < last_input_idx THEN memory[a] + scaled(a)
             ELSE clamp(memory[a] + scaled(a)))
  /\ at' = at + W
  /\ UNCHANGED <<call, before, input_idx, left, pc>>

(* &input[i] behind the end of a slice; the NEON kernel does not look. *)
InputTooShort ==
  /\ pc = "body"
  /\ input_idx < Zipped /\ at < simd_len
  /\ call.kernel # "neon" /\ at >= Len(call.inputs[input_idx + 1])
  /\ Goto("panicked")
  /\ UNCHANGED <<call, before, memory, loops>>

(* Variant: the loop runs over the inputs without a volume, too. *)
NextInputUnzipped ==
  /\ pc = "body"
  /\ input_idx < Len(call.inputs) /\ at >= simd_len
  /\ input_idx' = input_idx + 1
  /\ at' = 0
  /\ UNCHANGED <<call, before, memory, left, pc>>

NextInput ==
  /\ pc = "body"
  /\ input_idx < Zipped /\ at >= simd_len
  /\ input_idx' = input_idx + 1
  /\ at' = 0
  /\ UNCHANGED <<call, before, memory, left, pc>>

BodyDone ==
  /\ pc = "body"
  /\ input_idx = Zipped
  /\ Goto(IF len = simd_len THEN "done"
          ELSE IF call.kernel = "avx512" THEN "masked tail" ELSE "tail")
  /\ input_idx' = 0 /\ at' = simd_len
  /\ UNCHANGED <<call, before, memory, left>>

(* The rest, one sample after the other. *)
ScalarTail ==
  /\ pc = "tail"
  /\ memory' = Store(simd_len, len - simd_len, LAMBDA a : clamp(Sum(Zipped, a)))
  /\ Goto("done")
  /\ UNCHANGED <<call, before, loops>>

(* The rest in one vector: stores under a mask ... *)
ZeroTail ==
  /\ pc = "masked tail"
  /\ memory' = Store(simd_len, len - simd_len, LAMBDA a : 0)
  /\ Goto("accumulate")
  /\ UNCHANGED <<call, before, loops>>

(* ... but for the sums: all lanes are stored, those behind the end with   *)
(* what was loaded from there, as masked lanes of the input are 0.         *)
AccumulateTail ==
  /\ pc = "accumulate"
  /\ input_idx < Zipped
  /\ at < Len(call.inputs[input_idx + 1])
  /\ \E garbage \in Garbage :
       LET k == input_idx + 1
           masked(a) == IF a < len THEN Load(k, garbage)[a - at] ELSE 0
       IN  memory' = Store(at, W, LAMBDA a :
                           memory[a] + masked(a) * call.volumes[k])
  /\ input_idx' = input_idx + 1
  /\ UNCHANGED <<call, before, at, left, pc>>

TailTooShort ==
  /\ pc = "accumulate"
  /\ input_idx < Zipped
  /\ at >= Len(call.inputs[input_idx + 1])
  /\ Goto("panicked")
  /\ UNCHANGED <<call, before, memory, loops>>

(* Variant: the last store is not masked either. *)
ClipVector ==
  /\ pc = "accumulate"
  /\ input_idx = Zipped
  /\ memory' = Store(at, W, LAMBDA a : clamp(memory[a]))
  /\ Goto("done")
  /\ UNCHANGED <<call, before, loops>>

ClipTail ==
  /\ pc = "accumulate"
  /\ input_idx = Zipped
  /\ memory' = Store(at, len - at, LAMBDA a : clamp(memory[a]))
  /\ Goto("done")
  /\ UNCHANGED <<call, before, loops>>

-----------------------------------------------------------------------------
(* apply_volume_scalar: every sample once, in parallel or not. *)
ScaleAll ==
  /\ pc = "scale all"
  /\ memory' = Store(0, len, LAMBDA a : memory[a] * call.gain)
  /\ Goto("done")
  /\ UNCHANGED <<call, before, loops>>

ScaleVector ==
  /\ pc = "scale"
  /\ at < simd_len
  /\ memory' = Store(at, W, LAMBDA a : memory[a] * call.gain)
  /\ at' = at + W
  /\ UNCHANGED <<call, before, input_idx, left, pc>>

ScaleTail ==
  /\ pc = "scale"
  /\ at >= simd_len
  /\ memory' = Store(simd_len, len - simd_len, LAMBDA a : memory[a] * call.gain)
  /\ Goto("done")
  /\ UNCHANGED <<call, before, loops>>

-----------------------------------------------------------------------------
Calls ==
  [op : {"mix"}, kernel : Kernels, len : Lens, inputs : Inputs,
   volumes : Volumes]
  \cup [op : {"volume"}, kernel : Kernels, len : Lens, gain : Gains]
  \cup [op : {"gate"}, kernel : Kernels, len : Lens, start : Lens, end : Lens]

Addresses == 0..Reach

Init ==
  /\ call \in Calls
  /\ \E g \in Garbage : memory = [a \in Addresses |-> g + a]
  /\ before = memory
  /\ input_idx = 0 /\ at = 0 /\ left = {}
  /\ pc = "call"

Mix ==
  \/ AudioMix \/ NoInputs
  \/ \E start \in left : MixChunk(start)
  \/ ChunksDone
  \/ MixVector \/ InputTooShort \/ NextInput \/ BodyDone \/ ScalarTail
  \/ ZeroTail \/ AccumulateTail \/ TailTooShort \/ ClipTail

Volume == ApplyVolume \/ VolumeFastPath \/ ScaleAll \/ ScaleVector \/ ScaleTail

Next ==
  \/ Mix \/ Volume \/ ApplyGate
  \/ pc \in {"done", "panicked"} /\ UNCHANGED vars

Spec == Init /\ [][Next]_vars

-----------------------------------------------------------------------------
TypeOK ==
  /\ call \in Calls
  /\ before \in [Addresses -> Int] /\ memory \in [Addresses -> Int]
  /\ input_idx \in 0..(IF call.op = "mix" THEN Zipped ELSE 0)
  /\ at \in 0..len
  /\ left \subseteq 0..len
  /\ pc \in {"call", "body", "chunks", "tail", "masked tail", "accumulate",
            "scale", "scale all", "done", "panicked"}

(* Are there samples and a volume for all of the output? *)
Matching ==
  /\ Len(call.volumes) >= Len(call.inputs)
  /\ \A k \in DOMAIN call.inputs : Len(call.inputs[k]) >= len

(* "Identical semantics" whatever the processor: every kernel, whatever is *)
(* left over by its vectors, gives each sample the clamped sum of the      *)
(* inputs at its index, or its own product with the gain, or silence.  The *)
(* scalar kernel takes inputs of any length, the others at least two that  *)
(* are as long as the output; of parallel chunks only the first is right.  *)
ResultIsReference ==
  pc = "done" => \A a \in 0..(len - 1) :
    CASE call.op = "mix" ->
           \/ call.kernel = "scalar" /\ len >= Threshold /\ a >= ChunkSize
           \/ call.kernel # "scalar" /\ ~(Matching /\ Len(call.inputs) # 1)
           \/ memory[a] = clamp(Sum(Zipped, a))
      [] call.op = "volume" -> memory[a] = before[a] * call.gain
      [] call.op = "gate" ->
           memory[a] = IF call.start <= a /\ a < call.end THEN 0 ELSE before[a]

(* Memory behind the buffer keeps its contents, in spite of whole vectors  *)
(* that are stored over its end.                                           *)
NeighboursKept ==
  \A a \in Addresses : a >= len => memory[a] = before[a]

(* "Mix multiple audio streams": every sample of the output is the mix of  *)
(* the inputs at the same index, in large buffers as in small ones.        *)
EverySampleMixed ==
  pc = "done" /\ call.op = "mix" /\ Matching =>
    \A a \in 0..(len - 1) : memory[a] = clamp(Sum(Zipped, a))

=============================================================================
