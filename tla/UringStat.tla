----------------------------- MODULE UringStat ------------------------------
(***************************************************************************)
(* stat_batch (io/uring.rs): statx of many paths through one ring.  The    *)
(* kernel takes the submissions in their order, completes them in any      *)
(* order and writes into the caller's buffers when it does.                *)
(***************************************************************************)
EXTENDS Naturals, Sequences, FiniteSetsExt

CONSTANTS
  Stats,      \* what statx says of each path: a name for a size or an error
  RING_SIZE

UringAssumption == RING_SIZE \in Nat \ {0} /\ Stats \in Seq(STRING)

VARIABLES
  phase,
  i,          \* where the chunk starts
  sq,         \* pushed, not submitted
  inflight,   \* the operations the kernel is working on
  cq,         \* completed, not reaped
  results,
  answer,
  short       \* history: a submit_and_wait came back early

uringVars == <<phase, i, sq, inflight, cq, results, answer, short>>

N == Len(Stats)
None == [kind |-> "none", list |-> << >>]
Error == [kind |-> "error", list |-> << >>]
Missing == "missing cqe"

RingCap == Min({N, RING_SIZE})
ChunkEnd == Min({i + RingCap - 1, N})
Chunk == i..ChunkEnd

Return(a) == phase' = "returned" /\ answer' = a

(* The first n of the queue: paths are pushed in their order. *)
Front(n) == {x \in sq : Cardinality({y \in sq : y < x}) < n}

-----------------------------------------------------------------------------
Setup ==
  /\ phase = "setup"
  /\ \/ N = 0 /\ Return([kind |-> "ok", list |-> << >>])
     \/ N > 0 /\ Return(Error)
     \/ N > 0 /\ phase' = "push" /\ UNCHANGED answer
  /\ UNCHANGED <<i, sq, inflight, cq, results, short>>

(* The queue still holds what an earlier submission left behind. *)
PushChunk ==
  /\ phase = "push"
  /\ IF Cardinality(sq \cup Chunk) > RingCap
     THEN Return(Error) /\ UNCHANGED sq
     ELSE phase' = "submit" /\ sq' = sq \cup Chunk /\ UNCHANGED answer
  /\ UNCHANGED <<i, inflight, cq, results, short>>

(* The kernel accepts all, a part, or nothing and says why. *)
Submit ==
  /\ phase = "submit"
  /\ \/ /\ Return(Error)
        /\ UNCHANGED <<sq, inflight, short>>
     \/ \E n \in 1..Cardinality(sq) :
          /\ inflight' = inflight \cup Front(n)
          /\ sq' = sq \ Front(n)
          /\ short' = (short \/ n < Cardinality(sq))
          /\ phase' = "wait"
          /\ UNCHANGED answer
  /\ UNCHANGED <<i, cq, results>>

Complete ==
  /\ \E x \in inflight : inflight' = inflight \ {x} /\ cq' = cq \cup {x}
  /\ UNCHANGED <<phase, i, sq, results, answer, short>>

(* Variant: one operation is not waited for. *)
WaitForLess ==
  /\ phase = "wait"
  /\ Cardinality(cq) + 1 >= Cardinality(Chunk)
  /\ phase' = "harvest"
  /\ UNCHANGED <<i, sq, inflight, cq, results, answer, short>>

WaitOver ==
  /\ phase = "wait"
  /\ Cardinality(cq) >= Cardinality(Chunk)
  /\ phase' = "harvest"
  /\ UNCHANGED <<i, sq, inflight, cq, results, answer, short>>

(* After a part, or after a signal, the call says Ok without waiting. *)
WaitCutShort ==
  /\ phase = "wait"
  /\ Cardinality(cq) < Cardinality(Chunk)
  /\ phase' = "harvest"
  /\ short' = TRUE
  /\ UNCHANGED <<i, sq, inflight, cq, results, answer>>

(* user_data brings back the place of the path in the caller's list. *)
Harvest ==
  /\ phase = "harvest"
  /\ results' = [x \in 1..N |-> IF x \in cq THEN Stats[x] ELSE results[x]]
  /\ cq' = {}
  /\ i' = ChunkEnd + 1
  /\ IF i' <= N
     THEN phase' = "push" /\ UNCHANGED answer
     ELSE Return([kind |-> "ok", list |-> results'])
  /\ UNCHANGED <<sq, inflight, short>>

Returned == phase = "returned" /\ UNCHANGED uringVars

-----------------------------------------------------------------------------
Init ==
  /\ phase = "setup" /\ i = 1
  /\ sq = {} /\ inflight = {} /\ cq = {}
  /\ results = [x \in 1..N |-> Missing]
  /\ answer = None /\ short = FALSE

Next ==
  \/ Setup \/ PushChunk \/ Submit \/ Complete
  \/ WaitOver \/ WaitCutShort \/ Harvest \/ Returned

Spec == Init /\ [][Next]_uringVars

-----------------------------------------------------------------------------
TypeOK ==
  /\ phase \in {"setup", "push", "submit", "wait", "harvest", "returned"}
  /\ i \in 1..(N + 1)
  /\ sq \subseteq 1..N /\ inflight \subseteq 1..N /\ cq \subseteq 1..N
  /\ DOMAIN results = 1..N
  /\ answer.kind \in {"none", "error", "ok"}
  /\ short \in BOOLEAN

(* "CStrings + statx buffers must stay alive until completions are         *)
(* reaped": a call frees them when it returns, and has reaped every        *)
(* operation by then unless the kernel let it go early.                    *)
BuffersOutliveOps ==
  phase = "returned" /\ ~short => inflight = {} /\ cq = {}

(* "Results are collected ... in the same order as paths", whatever the    *)
(* order of the completions and the chunk they are reaped in; a path is    *)
(* called missing only if the kernel let the call go early.                *)
AnswersInOrder ==
  answer.kind = "ok" =>
    /\ DOMAIN answer.list = 1..N
    /\ \A x \in 1..N :
         \/ answer.list[x] = Stats[x]
         \/ answer.list[x] = Missing /\ short
=============================================================================
