----------------------------- MODULE OrderedMap -----------------------------
(***************************************************************************)
(* What the batch functions of core/batch_scheduler.rs promise their       *)
(* callers: the function is applied to every job, in whatever order, once, *)
(* and the answer lists the results in the order of the jobs.              *)
(***************************************************************************)
EXTENDS Naturals, Sequences

CONSTANT ResultOf(_)

VARIABLES number,    \* how many jobs the caller brings
          applied,   \* the jobs the function has been applied to
          answer     \* << >> until the call returns

OrderedInit == number \in Nat /\ applied = {} /\ answer = << >>

Apply(i) ==
  /\ i \in (1..number) \ applied
  /\ applied' = applied \cup {i}
  /\ UNCHANGED <<number, answer>>

Answer ==
  /\ applied = 1..number
  /\ answer' = [i \in 1..number |-> ResultOf(i)]
  /\ UNCHANGED <<number, applied>>

OrderedNext == Answer \/ \E i \in 1..number : Apply(i)

OrderedSpec == OrderedInit /\ [][OrderedNext]_<<number, applied, answer>>
=============================================================================
