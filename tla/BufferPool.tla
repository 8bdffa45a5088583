----------------------------- MODULE BufferPool -----------------------------
(***************************************************************************)
(* audio/buffer_pool.rs: PooledBuffer and its stacks, one per thread and   *)
(* size class, with the legacy BufferPool of audio/hot_kernels.rs, whose   *)
(* pools of any size share one more stack per thread.                      *)
(*                                                                         *)
(* A guard takes its buffer from the stack of the thread that acquires it  *)
(* and gives it to the stack of the thread that drops it.  Of the samples  *)
(* only this is kept: how many at the front may differ from 0.             *)
(***************************************************************************)
EXTENDS Naturals, Sequences, FiniteSets

CONSTANTS
  Threads,
  Classes,      \* size classes: frame, block, large
  Pools,        \* the BufferPools of the program
  Size,         \* Size[k]: samples of a buffer of class or pool k
  MaxPooled,    \* MAX_POOLED_PER_CLASS, and the limit of the shared stack
  Handles,      \* bounds the buffers in use at the same time
  MaxCalls      \* bound on the buffers acquired

Kinds == Classes \cup Pools
Stacks == Classes \cup {"shared"}
Owners == Threads \X Classes

(* What the constants must be. *)
PoolAssumption ==
  /\ Size \in [Kinds -> Nat]
  /\ \A c \in Classes : Size[c] > 0
  /\ Classes \cap Pools = {}
  /\ "shared" \notin Classes /\ "nothing" \notin Kinds
  /\ IsFiniteSet(Handles)
  /\ MaxPooled \in Nat /\ MaxCalls \in Nat

StackOf(k) == IF k \in Classes THEN k ELSE "shared"

VARIABLES
  cached,       \* cached[t][s]: stack s of thread t
  held,         \* held[h]: a guard, a raw Vec after into_inner, or Nothing
  calls,
  made,         \* history, made[t][c]: buffers of class c that t allocated
  peak,         \* history, peak[t][c]: most guards of c that t had at a time
  strayed       \* history: the <<t, c>> that a guard left, or was sent to

vars == <<cached, held, calls, made, peak, strayed>>

Nothing == [kind |-> "nothing"]
Buffer(n) == [capacity |-> n, len |-> n, dirty |-> 0]
larger(a, b) == IF a > b THEN a ELSE b
smaller(a, b) == IF a < b THEN a ELSE b

(* vec![0.0; size] *)
NewBuffer(k) == Buffer(Size[k])

clear(b) == [capacity |-> b.capacity, len |-> 0, dirty |-> 0]

(* Vec::resize(n, 0.0): cuts, or appends zeros; at least doubles to grow. *)
resize(b, n) ==
  [capacity |-> IF n > b.capacity THEN larger(2 * b.capacity, n) ELSE b.capacity,
   len |-> n,
   dirty |-> smaller(b.dirty, n)]

-----------------------------------------------------------------------------
(* Acquire                                                                 *)

(* A class clears what it takes; a BufferPool has cleared what it keeps. *)
Reused(k, b) ==
  resize(IF k \in Classes THEN clear(b) ELSE b, Size[k])

Guard(t, k, b) ==
  [kind |-> k, thread |-> t, raw |-> FALSE, fresh |-> TRUE, buf |-> b]

GuardsOf(t, c) ==
  {h \in Handles : held[h].kind = c /\ held[h].thread = t /\ ~held[h].raw}

Counted(t, k) ==
  peak' = IF k \in Classes
          THEN [peak EXCEPT ![t][k] = larger(@, Cardinality(GuardsOf(t, k)) + 1)]
          ELSE peak

AcquireNew(t, h, k) ==
  /\ calls < MaxCalls /\ held[h] = Nothing
  /\ cached[t][StackOf(k)] = << >>
  /\ held' = [held EXCEPT ![h] = Guard(t, k, NewBuffer(k))]
  /\ calls' = calls + 1
  /\ made' = IF k \in Classes THEN [made EXCEPT ![t][k] = @ + 1] ELSE made
  /\ Counted(t, k)
  /\ UNCHANGED <<cached, strayed>>

AcquireCached(t, h, k) ==
  LET stack == cached[t][StackOf(k)]
      top == Len(stack)
  IN  /\ calls < MaxCalls /\ held[h] = Nothing
      /\ stack # << >>
      /\ held' = [held EXCEPT ![h] = Guard(t, k, Reused(k, stack[top]))]
      /\ cached' = [cached EXCEPT ![t][StackOf(k)] = SubSeq(@, 1, top - 1)]
      /\ calls' = calls + 1
      /\ Counted(t, k)
      /\ UNCHANGED <<made, strayed>>

-----------------------------------------------------------------------------
(* Release                                                                 *)

Push(t, s, b) ==
  cached' = IF Len(cached[t][s]) < MaxPooled
            THEN [cached EXCEPT ![t][s] = Append(@, b)] ELSE cached

(* Variant: with the bounds of a BufferPool, off by one at the lower end. *)
FitsClassTooLarge(b, c) ==
  b.capacity > Size[c] /\ b.capacity <= 4 * Size[c]

(* A capacity within a quarter of the size of the class. *)
FitsClass(b, c) ==
  b.capacity \in (Size[c] - (Size[c] \div 4))..(Size[c] + (Size[c] \div 4))

tl_release(t, c, b) ==
  IF FitsClass(b, c) THEN Push(t, c, b) ELSE UNCHANGED cached

(* Variant: the buffer is kept with its samples. *)
releaseUncleared(t, p, b) ==
  IF b.capacity \in Size[p]..(4 * Size[p])
  THEN Push(t, "shared", b) ELSE UNCHANGED cached

release(t, p, b) ==
  IF b.capacity \in Size[p]..(4 * Size[p])
  THEN Push(t, "shared", clear(b)) ELSE UNCHANGED cached

(* Drop of a guard, on the thread that has it now. *)
Drop(h) ==
  LET g == held[h]
  IN  /\ g # Nothing /\ ~g.raw
      /\ IF g.buf.len = 0 THEN UNCHANGED cached
         ELSE IF g.kind \in Classes THEN tl_release(g.thread, g.kind, g.buf)
         ELSE release(g.thread, g.kind, g.buf)
      /\ held' = [held EXCEPT ![h] = Nothing]
      /\ UNCHANGED <<calls, made, peak, strayed>>

(* The guard is forgotten: what its caller has now is a Vec. *)
into_inner(h) ==
  LET g == held[h]
  IN  /\ g # Nothing /\ ~g.raw
      /\ held' = [held EXCEPT ![h].raw = TRUE]
      /\ strayed' = strayed \cup ({<<g.thread, g.kind>>} \cap Owners)
      /\ UNCHANGED <<cached, calls, made, peak>>

(* "Caller must release manually": to any pool, or by dropping it. *)
ReleaseRaw(h, p) ==
  LET g == held[h]
  IN  /\ g # Nothing /\ g.raw
      /\ release(g.thread, p, g.buf)
      /\ held' = [held EXCEPT ![h] = Nothing]
      /\ UNCHANGED <<calls, made, peak, strayed>>

DropRaw(h) ==
  /\ held[h] # Nothing /\ held[h].raw
  /\ held' = [held EXCEPT ![h] = Nothing]
  /\ UNCHANGED <<cached, calls, made, peak, strayed>>

-----------------------------------------------------------------------------
(* What the users of a buffer do with it.                                  *)

Written(g) ==
  [kind |-> g.kind, thread |-> g.thread, raw |-> g.raw, fresh |-> FALSE,
   buf |-> [g.buf EXCEPT !.dirty = g.buf.len]]

Write(h) ==
  /\ held[h] # Nothing /\ held[h].fresh
  /\ held' = [held EXCEPT ![h] = Written(held[h])]
  /\ UNCHANGED <<cached, calls, made, peak, strayed>>

(* A guard moves to another thread. *)
Send(h, t) ==
  LET g == held[h]
  IN  /\ g # Nothing /\ ~g.raw /\ t # g.thread
      /\ held' = [held EXCEPT ![h].thread = t]
      /\ strayed' = strayed \cup ({<<g.thread, g.kind>>, <<t, g.kind>>} \cap Owners)
      /\ UNCHANGED <<cached, calls, made, peak>>

Init ==
  /\ cached = [t \in Threads |-> [s \in Stacks |-> << >>]]
  /\ held = [h \in Handles |-> Nothing]
  /\ calls = 0
  /\ made = [t \in Threads |-> [c \in Classes |-> 0]]
  /\ peak = made
  /\ strayed = {}

Next ==
  \/ \E t \in Threads, h \in Handles, k \in Kinds :
       AcquireNew(t, h, k) \/ AcquireCached(t, h, k)
  \/ \E h \in Handles :
       \/ Drop(h) \/ into_inner(h) \/ DropRaw(h) \/ Write(h)
       \/ \E p \in Pools : ReleaseRaw(h, p)
       \/ \E t \in Threads : Send(h, t)
  \/ calls = MaxCalls /\ UNCHANGED vars

Spec == Init /\ [][Next]_vars

-----------------------------------------------------------------------------
Buffers == {b \in [capacity : Nat, len : Nat, dirty : Nat] :
              b.dirty <= b.len /\ b.len <= b.capacity}
Held == [kind : Kinds, thread : Threads, raw : BOOLEAN, fresh : BOOLEAN,
         buf : Buffers]

TypeOK ==
  /\ cached \in [Threads -> [Stacks -> Seq(Buffers)]]
  /\ held \in [Handles -> Held \cup {Nothing}]
  /\ calls \in 0..MaxCalls
  /\ made \in [Threads -> [Classes -> Nat]]
  /\ peak \in [Threads -> [Classes -> Nat]]
  /\ strayed \subseteq Owners

(* "zero-fill and resize to exact size": a buffer nobody has written to    *)
(* since it was acquired is silent and as long as asked for, whoever used  *)
(* it before, as a guard or as a Vec, and whatever pool took it back.      *)
FreshIsSilent ==
  \A h \in Handles : held[h] # Nothing /\ held[h].fresh =>
    held[h].buf.dirty = 0 /\ held[h].buf.len = Size[held[h].kind]

(* "zero-alloc": a thread that keeps its guards of a class, and no more at *)
(* a time than the stack holds, allocates one buffer for each of those it  *)
(* had at its busiest moment, and none ever after.                         *)
AllocatesAtPeakOnly ==
  \A t \in Threads, c \in Classes :
    <<t, c>> \notin strayed /\ peak[t][c] <= MaxPooled
      => made[t][c] = peak[t][c]

=============================================================================
