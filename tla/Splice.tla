------------------------------- MODULE Splice -------------------------------
(***************************************************************************)
(* splice_copy and splice_concat (io/splice.rs): bytes go from each source *)
(* into a pipe and from the pipe into the output.  Either system call may  *)
(* move less than it was asked for, or fail.  splice_copy is the case of   *)
(* one source that is open already.                                        *)
(***************************************************************************)
EXTENDS Naturals, SequencesExt

CONSTANTS
  Sources,    \* the sources of the call, each a sequence of bytes
  Chunk,      \* SPLICE_CHUNK
  Capacity    \* of the pipe

SpliceAssumption ==
  /\ Sources \in Seq(Seq(Nat))
  /\ Chunk \in Nat \ {0} /\ Capacity \in Nat \ {0}

VARIABLES
  phase,
  at,         \* the source being copied
  offset,     \* how much of it has been read
  pipe,       \* the bytes in the pipe
  remaining,  \* what the inner loop still has to drain
  dst,        \* the bytes the output has got
  total,
  result,
  opened, closed  \* history: how often a pipe was opened and closed

vars == <<phase, at, offset, pipe, remaining, dst, total, result, opened, closed>>

Left == Len(Sources[at]) - offset
AtMost(a, b) == IF a <= b THEN a ELSE b
Result(kind, bytes) == [kind |-> kind, bytes |-> bytes]
Return(r) == phase' = "returned" /\ result' = r

(* The last source is dropped, and the pipe closed, on every way out. *)
ReturnClosing(r) == Return(r) /\ closed' = closed + 1

-----------------------------------------------------------------------------
NoSources ==
  /\ phase = "start" /\ Sources = << >>
  /\ Return(Result("ok", 0))
  /\ UNCHANGED <<at, offset, pipe, remaining, dst, total, opened, closed>>

MakePipe ==
  /\ phase = "start" /\ Sources # << >>
  /\ \/ phase' = "open" /\ opened' = opened + 1 /\ UNCHANGED result
     \/ Return(Result("error", 0)) /\ UNCHANGED opened
  /\ UNCHANGED <<at, offset, pipe, remaining, dst, total, closed>>

OpenSource ==
  /\ phase = "open" /\ at <= Len(Sources)
  /\ \/ phase' = "fill" /\ UNCHANGED <<result, closed>>
     \/ ReturnClosing(Result("error", 0))
  /\ offset' = 0
  /\ UNCHANGED <<at, pipe, remaining, dst, total, opened>>

(* A splice into a full pipe waits for a reader, and there is none. *)
Fill ==
  /\ phase = "fill" /\ Left > 0
  /\ Len(pipe) < Capacity
  /\ \E n \in 1..AtMost(AtMost(Chunk, Left), Capacity - Len(pipe)) :
       /\ pipe' = pipe \o SubSeq(Sources[at], offset + 1, offset + n)
       /\ offset' = offset + n
       /\ remaining' = n
  /\ phase' = "drain"
  /\ UNCHANGED <<at, dst, total, result, opened, closed>>

EndOfSource ==
  /\ phase = "fill" /\ Left = 0
  /\ at' = at + 1
  /\ phase' = "open"
  /\ UNCHANGED <<offset, pipe, remaining, dst, total, result, opened, closed>>

Drain ==
  /\ phase = "drain" /\ remaining > 0
  /\ \E n \in 1..AtMost(remaining, Len(pipe)) :
       /\ dst' = dst \o SubSeq(pipe, 1, n)
       /\ pipe' = SubSeq(pipe, n + 1, Len(pipe))
       /\ remaining' = remaining - n
       /\ total' = total + n
  /\ UNCHANGED <<phase, at, offset, result, opened, closed>>

(* Variant: one call to drain a round is taken to be enough. *)
DrainedOnce ==
  /\ phase = "drain"
  /\ phase' = "fill"
  /\ UNCHANGED <<at, offset, pipe, remaining, dst, total, result, opened, closed>>

Drained ==
  /\ phase = "drain" /\ remaining = 0
  /\ phase' = "fill"
  /\ UNCHANGED <<at, offset, pipe, remaining, dst, total, result, opened, closed>>

(* Either call fails: interrupted, no space, ... *)
SpliceFails ==
  /\ phase = "fill" \/ (phase = "drain" /\ remaining > 0)
  /\ ReturnClosing(Result("error", 0))
  /\ UNCHANGED <<at, offset, pipe, remaining, dst, total, opened>>

Finish ==
  /\ phase = "open" /\ at > Len(Sources)
  /\ ReturnClosing(Result("ok", total))
  /\ UNCHANGED <<at, offset, pipe, remaining, dst, total, opened>>

Returned == phase = "returned" /\ UNCHANGED vars

-----------------------------------------------------------------------------
Init ==
  /\ phase = "start" /\ at = 1 /\ offset = 0
  /\ pipe = << >> /\ remaining = 0
  /\ dst = << >> /\ total = 0 /\ result = Result("none", 0)
  /\ opened = 0 /\ closed = 0

Work ==
  \/ NoSources \/ MakePipe \/ OpenSource
  \/ Fill \/ EndOfSource \/ Drain \/ Drained \/ SpliceFails \/ Finish

Next == Work \/ Returned

Spec == Init /\ [][Next]_vars

-----------------------------------------------------------------------------
TypeOK ==
  /\ phase \in {"start", "open", "fill", "drain", "returned"}
  /\ at \in 1..Len(Sources) + 1 /\ offset \in Nat
  /\ pipe \in Seq(Nat) /\ dst \in Seq(Nat)
  /\ remaining \in 0..Chunk /\ total \in Nat
  /\ result \in [kind : {"none", "ok", "error"}, bytes : Nat]
  /\ opened \in 0..1 /\ closed \in 0..1

(* The output is always the beginning of the sources, and a call that      *)
(* returns a number has copied that many bytes, which is all of them.      *)
Copy == INSTANCE WholeCopy WITH
  Source <- FlattenSeq(Sources), copied <- dst, answer <- result
ImplementsWholeCopy == Copy!CopySpec

(* Each round leaves the pipe empty, so the next one neither waits for     *)
(* ever in a full pipe nor mixes two sources, and every way out closes the *)
(* pipe once: a second close could hit a descriptor of another thread.     *)
PipeSettled ==
  /\ phase \in {"open", "fill"} => pipe = << >>
  /\ phase = "drain" => Len(pipe) = remaining
  /\ closed = IF phase = "returned" THEN opened ELSE 0
=============================================================================
