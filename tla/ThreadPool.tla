----------------------------- MODULE ThreadPool -----------------------------
(***************************************************************************)
(* core/thread_pool.rs and io/affinity.rs: the global rayon pool, tuned and*)
(* warmed by the first call of init_thread_pool, pool_info or worker_count.*)
(*                                                                         *)
(* POOL_INFO is a OnceLock: the first thread that asks for it computes it, *)
(* the others block until it is there.  The computation builds the pool,   *)
(* unless some parallel iterator has already made rayon start its default  *)
(* one or a worker cannot be spawned, and then runs the warm-up tasks on it*)
(* and waits for them.  Parallel jobs of other threads share the workers,  *)
(* and their tasks may themselves ask for the pool info.                   *)
(*                                                                         *)
(* A worker that has a part of a job begins its tasks one by one; other    *)
(* workers steal from the end of what it has not begun.  It leaves the part*)
(* when the stolen pieces have been left too, and while it waits for them  *)
(* it takes other work, on top of the part: so it has a stack of frames.   *)
(***************************************************************************)
EXTENDS Integers, Sequences, FiniteSets

CONSTANTS
  Callers,         \* threads outside the pool
  Physical,        \* num_cpus::get_physical()
  DefaultWorkers,  \* workers of rayon's default pool, as many as the process
                   \* may use: fewer than the cores under a quota or taskset
  Tasks,           \* tasks of a parallel job
  TasksAsk,        \* do the tasks of a job ask for the pool info?
  MaxJobs          \* bound on the parallel jobs

(* Variant: as many workers as cores. *)
one_per_core == IF Physical = 0 THEN 1 ELSE Physical

num_threads == IF Physical <= 2 THEN 1 ELSE Physical - 1

PoolWorkers ==
  1..(IF num_threads > DefaultWorkers THEN num_threads ELSE DefaultWorkers)

PoolAssumption ==
  /\ Physical \in Nat /\ DefaultWorkers \in Nat \ {0}
  /\ Tasks \in Nat \ {0} /\ TasksAsk \in BOOLEAN /\ MaxJobs \in Nat
  /\ Callers \cap PoolWorkers = {} /\ "warm" \notin Callers

VARIABLES
  lock,       \* POOL_INFO: "empty", "running" or "ready"
  info,       \* what it holds then: number of threads and initialised
  registry,   \* rayon's global pool: "none", "tuned", "default" or "failed"
  pool,       \* workers that have been spawned for it
  counter,    \* CORE_COUNTER
  core,       \* core[w]: the core worker w is pinned to, -1 if none
  injected,   \* the jobs that no worker has taken yet
  left,       \* left[k]: the pieces of k, by first task, that were left
  stack,      \* stack[w]: frames of worker w, the innermost first
  pc,         \* of callers and workers
  jobs

vars == <<lock, info, registry, pool, counter, core, injected, left, stack, pc,
          jobs>>
once == <<lock, info>>
spawned == <<registry, pool>>
pins == <<counter, core>>
work == <<injected, left, stack>>

NoInfo == [threads |-> 0, initialised |-> FALSE]
Actors == Callers \cup PoolWorkers
Kinds == Callers \cup {"warm"}      \* whose job: the warm-up, or a caller's
Goto(x, label) == pc' = [pc EXCEPT ![x] = label]

(* A call of init_thread_pool is over: a task that made it is done. *)
Return(x) == Goto(x, IF x \in PoolWorkers THEN "finish" ELSE "idle")

-----------------------------------------------------------------------------
(* init_thread_pool                                                        *)

Init_thread_pool(c) ==
  /\ pc[c] = "idle"
  /\ Goto(c, "init")
  /\ UNCHANGED <<once, spawned, pins, work, jobs>>

Known(x) ==
  /\ pc[x] = "init"
  /\ lock = "ready"
  /\ Return(x)
  /\ UNCHANGED <<once, spawned, pins, work, jobs>>

Compute(x) ==
  /\ pc[x] = "init"
  /\ lock = "empty"
  /\ lock' = "running"
  /\ Goto(x, "build")
  /\ UNCHANGED <<info, spawned, pins, work, jobs>>

(* A parallel iterator of job k is called: one entry for the whole range. *)
Inject(k) ==
  /\ injected' = injected \cup {k}
  /\ left' = [left EXCEPT ![k] = {}]

(* build_global spawns the workers, and the warm-up tasks are queued. *)
BuildGlobal(x) ==
  /\ pc[x] = "build"
  /\ registry = "none"
  /\ registry' = "tuned" /\ pool' = num_threads
  /\ Inject("warm")
  /\ Goto(x, "warm")
  /\ UNCHANGED <<once, pins, stack, jobs>>

(* A worker cannot be spawned: rayon does not try again and has no pool.   *)
(* The workers before it still run their start handler, and end.           *)
SpawnFails(x) ==
  /\ pc[x] = "build"
  /\ registry = "none"
  /\ registry' = "failed" /\ pool' \in 0..(num_threads - 1)
  /\ Goto(x, "unwarmed")
  /\ UNCHANGED <<once, pins, work, jobs>>

(* It is an error if rayon has a pool already, or has failed to make one. *)
AlreadyBuilt(x) ==
  /\ pc[x] = "build"
  /\ registry # "none"
  /\ Goto(x, "unwarmed")
  /\ UNCHANGED <<once, spawned, pins, work, jobs>>

(* No task is queued after an error; the warm-up is over when the worker   *)
(* that took it has left its first piece.                                  *)
WarmupOver(x) ==
  \/ pc[x] = "unwarmed"
  \/ pc[x] = "warm" /\ 1 \in left["warm"]

(* Variant: POOL_INFO is not set. *)
WarmedOnly(x) ==
  /\ WarmupOver(x)
  /\ Return(x)
  /\ UNCHANGED <<once, spawned, pins, work, jobs>>

(* Variant: the error of build_global is forgotten. *)
WarmedRegardless(x) ==
  /\ WarmupOver(x)
  /\ lock' = "ready"
  /\ info' = [threads |-> num_threads, initialised |-> TRUE]
  /\ Return(x)
  /\ UNCHANGED <<spawned, pins, work, jobs>>

(* The warm-up is over, and POOL_INFO is set. *)
Warmed(x) ==
  /\ WarmupOver(x)
  /\ lock' = "ready"
  /\ info' = [threads |-> num_threads, initialised |-> registry = "tuned"]
  /\ Return(x)
  /\ UNCHANGED <<spawned, pins, work, jobs>>

-----------------------------------------------------------------------------
(* Parallel jobs of the callers: rayon starts its default pool if need be. *)

Submit(c) ==
  /\ pc[c] = "idle"
  /\ jobs < MaxJobs /\ jobs' = jobs + 1
  /\ \/ registry = "none" /\ registry' = "default" /\ pool' = DefaultWorkers
     \/ registry \in {"tuned", "default"} /\ UNCHANGED spawned
  /\ Inject(c)
  /\ Goto(c, "join")
  /\ UNCHANGED <<once, pins, stack>>

(* Without a pool the iterator panics; the caller, or its successor, may   *)
(* call again.  The workers of the default pool have no start handler.     *)
SubmitPanics(c) ==
  /\ pc[c] = "idle"
  /\ jobs < MaxJobs /\ jobs' = jobs + 1
  /\ registry \in {"none", "failed"} /\ registry' = "failed"
  /\ UNCHANGED <<once, pool, pins, work, pc>>

Joined(c) ==
  /\ pc[c] = "join"
  /\ 1 \in left[c]
  /\ Goto(c, "idle")
  /\ UNCHANGED <<once, spawned, pins, work, jobs>>

-----------------------------------------------------------------------------
(* The workers                                                             *)

(* Round robin over the cores; a failing sched_setaffinity is only logged. *)
pin_to_physical_core(w) ==
  IF Physical = 0 THEN UNCHANGED pins
  ELSE /\ core' \in {core, [core EXCEPT ![w] = counter % Physical]}
       /\ counter' = counter + 1

(* The start handler is one of build_global. *)
StartWorker(w) ==
  /\ pc[w] = "off"
  /\ w <= pool
  /\ IF registry = "default" THEN UNCHANGED pins ELSE pin_to_physical_core(w)
  /\ Goto(w, "idle")
  /\ UNCHANGED <<once, spawned, work, jobs>>

(* Part of a job: its tasks that have not begun, and the pieces stolen     *)
(* from it.  A piece is named by its first task.                           *)
Frame == [job : Kinds, piece : Nat, rest : SUBSET Nat, stolen : SUBSET Nat]
Top(w) == stack[w][1]

(* A worker without frames, or one that waits for stolen pieces, looks for *)
(* work.                                                                   *)
Searching(w) ==
  \/ pc[w] = "idle"
  \/ pc[w] = "join" /\ Top(w).rest = {} /\ Top(w).stolen # {}

(* A task begins: one of a job may ask for the pool info, a warm-up task   *)
(* touches its stack.                                                      *)
Begin(w, k) ==
  Goto(w, IF k # "warm" /\ TasksAsk THEN "init" ELSE "finish")

(* The first task of a piece begins at once, on top of what w waits for. *)
Enter(w, k, i, rest) ==
  LET frame == [job |-> k, piece |-> i, rest |-> rest, stolen |-> {}]
  IN  <<frame>> \o stack[w]

TasksOf(k) == 1..(IF k = "warm" THEN num_threads ELSE Tasks)

Take(w, k) ==
  /\ Searching(w)
  /\ k \in injected
  /\ injected' = injected \ {k}
  /\ stack' = [stack EXCEPT ![w] = Enter(w, k, 1, TasksOf(k) \ {1})]
  /\ Begin(w, k)
  /\ UNCHANGED <<once, spawned, pins, left, jobs>>

(* A piece may begin at any task that v has not begun. *)
Steal(w, v) ==
  /\ Searching(w)
  /\ v # w /\ stack[v] # << >>
  /\ \E i \in Top(v).rest :
       LET before == {j \in Top(v).rest : j < i}
           later == {j \in Top(v).rest : j > i}
       IN  stack' = [stack EXCEPT
             ![v] = <<[Top(v) EXCEPT !.rest = before, !.stolen = @ \cup {i}]>>
                      \o Tail(stack[v]),
             ![w] = Enter(w, Top(v).job, i, later)]
  /\ Begin(w, Top(v).job)
  /\ UNCHANGED <<once, spawned, pins, injected, left, jobs>>

FinishTask(w) ==
  /\ pc[w] = "finish"
  /\ Goto(w, "join")
  /\ UNCHANGED <<once, spawned, pins, work, jobs>>

NextTask(w) ==
  /\ pc[w] = "join"
  /\ \E i \in Top(w).rest :
       /\ \A j \in Top(w).rest : i <= j
       /\ stack' = [stack EXCEPT
            ![w] = <<[Top(w) EXCEPT !.rest = @ \ {i}]>> \o Tail(stack[w])]
  /\ Begin(w, Top(w).job)
  /\ UNCHANGED <<once, spawned, pins, injected, left, jobs>>

(* A part is left when nothing of it has to be begun, and the pieces that  *)
(* were stolen from it have been left.                                     *)
Leave(w) ==
  /\ pc[w] = "join"
  /\ Top(w).rest = {} /\ Top(w).stolen \subseteq left[Top(w).job]
  /\ left' = [left EXCEPT ![Top(w).job] = @ \cup {Top(w).piece}]
  /\ stack' = [stack EXCEPT ![w] = Tail(@)]
  /\ Goto(w, IF Tail(stack[w]) = << >> THEN "idle" ELSE "join")
  /\ UNCHANGED <<once, spawned, pins, injected, jobs>>

-----------------------------------------------------------------------------
Init ==
  /\ lock = "empty" /\ info = NoInfo
  /\ registry = "none" /\ pool = 0
  /\ counter = 0 /\ core = [w \in PoolWorkers |-> -1]
  /\ injected = {} /\ left = [k \in Kinds |-> {}]
  /\ stack = [w \in PoolWorkers |-> << >>]
  /\ pc = [x \in Actors |-> IF x \in PoolWorkers THEN "off" ELSE "idle"]
  /\ jobs = 0

(* A call of the initialisation that has begun goes on ... *)
Continue(x) ==
  \/ Known(x) \/ Compute(x) \/ BuildGlobal(x) \/ SpawnFails(x)
  \/ AlreadyBuilt(x) \/ Warmed(x)

(* ... and so do the workers. *)
Serve(w) ==
  \/ StartWorker(w) \/ FinishTask(w) \/ NextTask(w) \/ Leave(w)
  \/ \E k \in Kinds : Take(w, k)
  \/ \E v \in PoolWorkers : Steal(w, v)

(* The warm-up cannot end: a worker that has a part of it has taken, on top*)
(* of that, a task that waits for the pool info, and so for the warm-up; or*)
(* every worker has such a task.                                           *)
Asking(w) == pc[w] = "init" /\ lock = "running"
Deadlocked ==
  /\ registry = "tuned" /\ 1 \notin left["warm"]
  /\ \/ \E w \in PoolWorkers :
          Asking(w) /\ \E n \in DOMAIN stack[w] : stack[w][n].job = "warm"
     \/ \A w \in 1..pool : Asking(w)
Hang == Deadlocked /\ UNCHANGED vars

Next ==
  \/ \E c \in Callers :
       Init_thread_pool(c) \/ Submit(c) \/ SubmitPanics(c) \/ Joined(c)
  \/ \E x \in Actors : Continue(x)
  \/ \E w \in PoolWorkers : Serve(w)
  \/ Hang

Spec == Init /\ [][Next]_vars

Fairness ==
  /\ \A x \in Actors : WF_vars(Continue(x))
  /\ \A w \in PoolWorkers : WF_vars(Serve(w))
  /\ \A c \in Callers : WF_vars(Joined(c))
FairSpec == Spec /\ Fairness

-----------------------------------------------------------------------------
TypeOK ==
  /\ lock \in {"empty", "running", "ready"}
  /\ info \in [threads : {0, num_threads}, initialised : BOOLEAN]
  /\ registry \in {"none", "tuned", "default", "failed"}
  /\ pool \in 0..Cardinality(PoolWorkers)
  /\ counter \in 0..Cardinality(PoolWorkers)
  /\ core \in [PoolWorkers -> -1..(Physical - 1)]
  /\ injected \subseteq Kinds /\ left \in [Kinds -> SUBSET Nat]
  /\ stack \in [PoolWorkers -> Seq(Frame)]
  /\ pc \in [Actors -> {"off", "idle", "init", "build", "warm", "unwarmed",
                        "join", "finish"}]
  /\ jobs \in 0..MaxJobs

(* While the pool info is computed exactly one thread computes it, and a   *)
(* task of the tuned pool never does.  What it says is true: the tuned pool*)
(* runs, with as many workers as it says, exactly if it says initialised;  *)
(* otherwise rayon has its default pool, or none, whatever worker_count    *)
(* reports.                                                                *)
Computing == {x \in Actors : pc[x] \in {"build", "warm", "unwarmed"}}
InfoHolds ==
  /\ Cardinality(Computing) = IF lock = "running" THEN 1 ELSE 0
  /\ registry = "tuned" => Computing \subseteq Callers
  /\ lock = "ready" =>
       IF info.initialised THEN registry = "tuned" /\ pool = info.threads
       ELSE registry \in {"default", "failed"}

(* "Prevents OS from migrating the thread ...": the workers of the tuned   *)
(* pool have a core each, and one core is left to the others.              *)
PinnedApart ==
  /\ \A v, w \in PoolWorkers : v # w /\ core[v] # -1 => core[v] # core[w]
  /\ Physical > 1 =>
       \E i \in 0..(Physical - 1) : \A w \in PoolWorkers : core[w] # i

(* Every call of the initialisation returns, unless tasks that wait for it *)
(* hold up its warm-up in one of the two ways of Deadlocked.               *)
InitReturns ==
  \A c \in Callers : pc[c] = "init" ~> pc[c] = "idle" \/ Deadlocked

(* "Safe to call multiple times": every call returns. *)
EveryInitReturns ==
  \A c \in Callers : pc[c] = "init" ~> pc[c] = "idle"
=============================================================================
