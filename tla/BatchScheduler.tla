--------------------------- MODULE BatchScheduler ---------------------------
(***************************************************************************)
(* core/batch_scheduler.rs: probe_scheduled, run_scheduled and, through    *)
(* it, concat_scheduled.  The jobs get their positions, are sorted by cost,*)
(* run on the rayon pool and come back; a second sort restores the order.  *)
(*                                                                         *)
(* Both sorts are unstable: jobs of the same key may end up in any order.  *)
(* The pool is modelled the way rayon cuts up a vector: a worker that      *)
(* holds more than one job splits its part while it may, queues the right  *)
(* half for itself or a thief, and goes on with the left one.  A worker    *)
(* takes the newest part of its own queue or the oldest of another's.      *)
(***************************************************************************)
EXTENDS Naturals, Sequences, FiniteSets, SequencesExt

CONSTANTS
  Workers,
  MaxJobs,    \* bound on the number of jobs
  Costs       \* cost hints

ASSUME SchedulerAssumption ==
  /\ IsFiniteSet(Workers) /\ Workers # {}
  /\ MaxJobs \in Nat /\ Costs \subseteq Nat

VARIABLES
  cost,      \* cost[i]: cost hint of the i-th job of the caller
  phase,     \* "call", "run", "restore", "done"
  indexed,   \* the original positions, in the order of the sort
  part,      \* part[w]: the part worker w holds, or Nothing
  queue,     \* queue[w]: its deque, oldest part first
  results,   \* results[x]: <<position, result>> of indexed[x], or Pending
  answer,    \* what the call returns
  started    \* history: original positions in the order they started

vars == <<cost, phase, indexed, part, queue, results, answer, started>>

Nothing == [from |-> 1, to |-> 0, splits |-> 0]
Pending == << >>
N == Len(cost)
Size(s) == s.to + 1 - s.from

(* What the caller's function returns for the i-th job. *)
F(i) == <<"result of", i>>

(* The orders an unstable sort by key may leave the elements in. *)
Sorted(S, sortKey) ==
  {s \in [1..Cardinality(S) -> S] :
     /\ \A x, y \in DOMAIN s : x # y => s[x] # s[y]
     /\ \A x, y \in DOMAIN s : x < y => sortKey[s[x]] <= sortKey[s[y]]}

-----------------------------------------------------------------------------
Empty ==
  /\ phase = "call"
  /\ N = 0
  /\ phase' = "done"
  /\ UNCHANGED <<cost, indexed, part, queue, results, answer, started>>

(* sort_unstable_by_key(cost); the whole vector is the part of one worker. *)
Schedule(w) ==
  /\ phase = "call"
  /\ N > 0
  /\ indexed' \in Sorted(1..N, cost)
  /\ results' = [x \in 1..N |-> Pending]
  /\ part' = [part EXCEPT ![w] = [from |-> 1, to |-> N,
                                  splits |-> Cardinality(Workers)]]
  /\ phase' = "run"
  /\ UNCHANGED <<cost, queue, answer, started>>

-----------------------------------------------------------------------------
(* rayon: bridge_producer_consumer and join_context                        *)

Half(s) == s.from + (Size(s) \div 2)

(* Variant: the halves overlap. *)
SplitTwice(w) ==
  /\ phase = "run"
  /\ Size(part[w]) > 1 /\ part[w].splits > 0
  /\ LET s == [part[w] EXCEPT !.splits = @ \div 2]
     IN  /\ part' = [part EXCEPT ![w] = [s EXCEPT !.to = Half(s)]]
         /\ queue' = [queue EXCEPT ![w] = Append(@, [s EXCEPT !.from = Half(s)])]
  /\ UNCHANGED <<cost, phase, indexed, results, answer, started>>

Split(w) ==
  /\ phase = "run"
  /\ Size(part[w]) > 1 /\ part[w].splits > 0
  /\ LET s == [part[w] EXCEPT !.splits = @ \div 2]
     IN  /\ part' = [part EXCEPT ![w] = [s EXCEPT !.to = Half(s) - 1]]
         /\ queue' = [queue EXCEPT ![w] = Append(@, [s EXCEPT !.from = Half(s)])]
  /\ UNCHANGED <<cost, phase, indexed, results, answer, started>>

(* Variant: the positions are counted from one too many. *)
RunJobOffByOne(w) ==
  /\ phase = "run"
  /\ Size(part[w]) = 1 \/ (Size(part[w]) > 1 /\ part[w].splits = 0)
  /\ LET x == part[w].from
     IN  /\ results' = [results EXCEPT ![x] = <<indexed[x] + 1, F(indexed[x])>>]
         /\ started' = Append(started, indexed[x])
  /\ part' = [part EXCEPT ![w].from = @ + 1]
  /\ UNCHANGED <<cost, phase, indexed, queue, answer>>

(* The next job of a part that is not split any more. *)
RunJob(w) ==
  /\ phase = "run"
  /\ Size(part[w]) = 1 \/ (Size(part[w]) > 1 /\ part[w].splits = 0)
  /\ LET x == part[w].from
     IN  /\ results' = [results EXCEPT ![x] = <<indexed[x], F(indexed[x])>>]
         /\ started' = Append(started, indexed[x])
  /\ part' = [part EXCEPT ![w].from = @ + 1]
  /\ UNCHANGED <<cost, phase, indexed, queue, answer>>

Pop(w) ==
  /\ phase = "run"
  /\ Size(part[w]) = 0 /\ queue[w] # << >>
  /\ part' = [part EXCEPT ![w] = Last(queue[w])]
  /\ queue' = [queue EXCEPT ![w] = Front(@)]
  /\ UNCHANGED <<cost, phase, indexed, results, answer, started>>

(* The first split of a stolen part leaves it with at least as many splits *)
(* as there are workers (twice as many here, as Split halves them).        *)
Steal(w, v) ==
  /\ phase = "run"
  /\ w # v /\ Size(part[w]) = 0 /\ queue[w] = << >> /\ queue[v] # << >>
  /\ LET s == Head(queue[v])
         again == IF s.splits \div 2 > Cardinality(Workers) THEN s.splits \div 2
                  ELSE Cardinality(Workers)
     IN  part' = [part EXCEPT ![w] = [s EXCEPT !.splits = 2 * again]]
  /\ queue' = [queue EXCEPT ![v] = Tail(@)]
  /\ UNCHANGED <<cost, phase, indexed, results, answer, started>>

Idle(w) == Size(part[w]) = 0 /\ queue[w] = << >>

Joined ==
  /\ phase = "run"
  /\ \A w \in Workers : Idle(w)
  /\ phase' = "restore"
  /\ UNCHANGED <<cost, indexed, part, queue, results, answer, started>>

-----------------------------------------------------------------------------
(* Variant: the results are returned as they were scheduled. *)
RestoreNothing ==
  /\ phase = "restore"
  /\ answer' = [x \in 1..N |-> results[x][2]]
  /\ phase' = "done"
  /\ UNCHANGED <<cost, indexed, part, queue, results, started>>

(* sort_unstable_by_key(position), then the positions are dropped. *)
Restore ==
  /\ phase = "restore"
  /\ \E r \in Sorted(ToSet(results), [a \in ToSet(results) |-> a[1]]) :
       answer' = [x \in DOMAIN r |-> r[x][2]]
  /\ phase' = "done"
  /\ UNCHANGED <<cost, indexed, part, queue, results, started>>

Init ==
  /\ \E k \in 0..MaxJobs : cost \in [1..k -> Costs]
  /\ phase = "call"
  /\ indexed = << >>
  /\ part = [w \in Workers |-> Nothing]
  /\ queue = [w \in Workers |-> << >>]
  /\ results = << >> /\ answer = << >> /\ started = << >>

Work(w) ==
  Split(w) \/ RunJob(w) \/ Pop(w) \/ \E v \in Workers : Steal(w, v)

Next ==
  \/ Empty \/ Joined \/ Restore
  \/ \E w \in Workers : Schedule(w) \/ Work(w)
  \/ phase = "done" /\ UNCHANGED vars

Spec == Init /\ [][Next]_vars

(* A worker that has something to do does it, and so does the caller. *)
Fairness ==
  /\ WF_vars(Empty \/ Joined \/ Restore \/ \E w \in Workers : Schedule(w))
  /\ \A w \in Workers : WF_vars(Work(w))
FairSpec == Spec /\ Fairness

-----------------------------------------------------------------------------
Parts == [from : Nat, to : Nat, splits : Nat]

TypeOK ==
  /\ cost \in Seq(Costs)
  /\ phase \in {"call", "run", "restore", "done"}
  /\ indexed \in Seq(1..N)
  /\ part \in [Workers -> Parts]
  /\ queue \in [Workers -> Seq(Parts)]
  /\ started \in Seq(1..N)
  /\ DOMAIN results = DOMAIN indexed
  /\ \A x \in DOMAIN results :
       results[x] = Pending \/ results[x][1] \in 1..N
  /\ DOMAIN answer \subseteq 1..N

(* The places of the sorted vector that a part covers. *)
Places(s) == s.from..s.to

(* The parts of all workers: a worker's own at 0, and those in its queue.  *)
Handles == UNION {{w} \X (0..Len(queue[w])) : w \in Workers}
PartAt(h) == IF h[2] = 0 THEN part[h[1]] ELSE queue[h[1]][h[2]]

(* However the vector is cut up and stolen, every place of it is in one    *)
(* part or has its result, and never both: no job is lost or run twice.    *)
PartsCoverPending ==
  phase = "run" =>
    /\ \A g, h \in Handles :
         g # h => Places(PartAt(g)) \cap Places(PartAt(h)) = {}
    /\ UNION {Places(PartAt(h)) : h \in Handles}
         = {x \in 1..N : results[x] = Pending}

(* "returns results in the original input order": the answer lists the     *)
(* results in the order of the caller's jobs, each run exactly once.       *)
Ordered == INSTANCE OrderedMap WITH
             ResultOf <- F, number <- N, applied <- ToSet(started),
             answer <- answer
ImplementsOrderedMap == Ordered!OrderedSpec

(* Every call returns: no part is left behind in a queue. *)
Returns == <>(phase = "done")

=============================================================================
