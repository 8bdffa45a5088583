----------------------------- MODULE AacEncoder -----------------------------
(***************************************************************************)
(* audio/audio_resample.rs, encode_aac and its SampleBuffer: decoded audio *)
(* goes through the resampler into a buffer, from which the AAC encoder is *)
(* fed frames of exactly FrameSize samples.                                *)
(*                                                                         *)
(* The buffer does not move its samples when a frame is taken: it advances *)
(* read_pos and throws the consumed prefix away once read_pos reaches a    *)
(* threshold.  All channels get the same number of samples at each step,   *)
(* so one channel stands for all.  The samples the resampler delivers are  *)
(* numbered 1, 2, ... in their order.  The resampler may keep samples back *)
(* and deliver them later, at the latest when it is flushed.               *)
(***************************************************************************)
EXTENDS Integers, Sequences

CONSTANTS
  FrameSize,    \* frame_size of the encoder
  Threshold,    \* COMPACTION_THRESHOLD
  MaxChunk,     \* bound on the samples of one resampled frame
  MaxSamples    \* bound on the samples of the file

ASSUME AacAssumption ==
  /\ FrameSize \in Nat \ {0} /\ Threshold \in Nat \ {0}
  /\ MaxChunk \in Nat /\ MaxSamples \in Nat

VARIABLES
  channel,      \* the samples in the buffer, consumed prefix included
  read_pos,
  phase,        \* "packets", "frames", "flush", "done"
  produced,     \* samples the resampler has delivered
  pts,          \* presentation time of the next frame
  sent          \* the samples sent to the encoder, padding included

vars == <<channel, read_pos, phase, produced, pts, sent>>

Silence == 0
Samples == 1..MaxSamples

-----------------------------------------------------------------------------
(* SampleBuffer                                                            *)

saturating_sub(a, b) == IF a >= b THEN a - b ELSE 0

Available == saturating_sub(Len(channel), read_pos)

extend(k) ==
  channel' = channel \o [i \in 1..k |-> produced + i]

(* The samples from read_pos on: what as_ptr points to. *)
Window(k) == SubSeq(channel, read_pos + 1, read_pos + k)

DropFront(s, k) == SubSeq(s, k + 1, Len(s))

(* Variant: the prefix is dropped, the offset into it stays. *)
consume_keeping_offset(k) ==
  IF read_pos + k >= Threshold
  THEN channel' = DropFront(channel, read_pos + k) /\ read_pos' = read_pos + k
  ELSE UNCHANGED channel /\ read_pos' = read_pos + k

(* Variant: the buffer is never compacted. *)
consume_without_compaction(k) ==
  UNCHANGED channel /\ read_pos' = read_pos + k

consume(k) ==
  IF read_pos + k >= Threshold
  THEN channel' = DropFront(channel, read_pos + k) /\ read_pos' = 0
  ELSE UNCHANGED channel /\ read_pos' = read_pos + k

(* resize: pads with silence, or truncates. *)
Resized(s, k) ==
  IF Len(s) < k THEN s \o [i \in 1..(k - Len(s)) |-> Silence]
  ELSE SubSeq(s, 1, k)

-----------------------------------------------------------------------------
(* encode_aac                                                              *)

(* A decoded frame, resampled: chunk samples, none if the resampler keeps  *)
(* them all.                                                               *)
Resample(chunk) ==
  /\ phase = "packets"
  /\ produced + chunk <= MaxSamples
  /\ extend(chunk)
  /\ produced' = produced + chunk
  /\ phase' = IF chunk > 0 THEN "frames" ELSE "packets"
  /\ UNCHANGED <<read_pos, pts, sent>>

(* while buffer.len(0) >= frame_size *)
EncodeFrame ==
  /\ phase = "frames"
  /\ Available >= FrameSize
  /\ sent' = sent \o Window(FrameSize)
  /\ pts' = pts + FrameSize
  /\ consume(FrameSize)
  /\ UNCHANGED <<phase, produced>>

FramesEncoded ==
  /\ phase = "frames"
  /\ Available < FrameSize
  /\ phase' = "packets"
  /\ UNCHANGED <<channel, read_pos, produced, pts, sent>>

SendEof ==
  /\ phase = "packets"
  /\ phase' = "flush"
  /\ UNCHANGED <<channel, read_pos, produced, pts, sent>>

(* Flushing the decoder and then the resampler: nothing is encoded here. *)
Flush(chunk) ==
  /\ phase = "flush"
  /\ chunk > 0 /\ produced + chunk <= MaxSamples
  /\ extend(chunk)
  /\ produced' = produced + chunk
  /\ UNCHANGED <<read_pos, phase, pts, sent>>

(* Variant: what is left is not compacted before it is resized. *)
FinishUncompacted ==
  /\ phase = "flush"
  /\ sent' = IF channel # << >> THEN sent \o Resized(channel, FrameSize) ELSE sent
  /\ channel' = << >> /\ read_pos' = 0
  /\ phase' = "done"
  /\ UNCHANGED <<produced, pts>>

(* compact, then one frame of what is left, resized to the frame size. *)
Finish ==
  /\ phase = "flush"
  /\ LET left == DropFront(channel, read_pos)
     IN  sent' = IF left # << >> THEN sent \o Resized(left, FrameSize) ELSE sent
  /\ channel' = << >> /\ read_pos' = 0
  /\ phase' = "done"
  /\ UNCHANGED <<produced, pts>>

Init ==
  /\ channel = << >> /\ read_pos = 0
  /\ phase = "packets"
  /\ produced = 0 /\ pts = 0 /\ sent = << >>

Next ==
  \/ \E chunk \in 0..MaxChunk : Resample(chunk) \/ Flush(chunk)
  \/ EncodeFrame \/ FramesEncoded \/ SendEof \/ Finish
  \/ phase = "done" /\ UNCHANGED vars

Spec == Init /\ [][Next]_vars

-----------------------------------------------------------------------------
TypeOK ==
  /\ channel \in Seq(Samples)
  /\ read_pos \in 0..Len(channel) /\ read_pos < Threshold
  /\ phase \in {"packets", "frames", "flush", "done"}
  /\ produced \in 0..MaxSamples
  /\ pts \in Nat
  /\ sent \in Seq(Samples \cup {Silence})

(* While packets are read, the encoder has got the delivered samples in    *)
(* their order, none twice and none left out, and the unread rest of the   *)
(* buffer continues where the encoder stands.                              *)
StreamIsContiguous ==
  phase # "done" =>
    sent \o DropFront(channel, read_pos) = [i \in 1..produced |-> i]

(* The encoder gets whole frames, and pts counts the samples before them.  *)
WholeFrames ==
  /\ Len(sent) % FrameSize = 0
  /\ phase # "done" => pts = Len(sent)

(* What the threshold is for: until the flush the buffer holds at most one *)
(* threshold, one frame and one chunk, however long the file is.           *)
BufferIsBounded ==
  phase \in {"packets", "frames"} =>
    Len(channel) < Threshold + FrameSize + MaxChunk

(* At the end the encoder has the samples from the first on, and then only *)
(* silence; it misses at most what the flushes delivered.                  *)
SentIsPrefix ==
  \A i \in 1..Len(sent) :
    sent[i] = IF i <= produced THEN i ELSE Silence

(* "Encode remaining samples with padding": in the end every sample has    *)
(* been sent.                                                              *)
EverySampleSent == phase = "done" => produced <= Len(sent)

=============================================================================
