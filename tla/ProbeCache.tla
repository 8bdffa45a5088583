----------------------------- MODULE ProbeCache -----------------------------
(***************************************************************************)
(* Cached probing, probe/mod.rs and probe/hot_cache.rs: every thread has a *)
(* slab of its last answers (L1) in front of the process-wide MediaCache   *)
(* (L2), and a miss in both opens the file.                                *)
(*                                                                         *)
(* L2 is the map MediaCache keeps in its database.  probe_cached holds the *)
(* mutex of L2 during a get and during a put but not while it probes, so a *)
(* get and a put are one action each and a probe lies between the two.  A  *)
(* put may evict any entries: which ones is the business of MediaCache.    *)
(* An answer is the version of the file it was read from.                  *)
(***************************************************************************)
EXTENDS AssetFiles, Integers, FiniteSets

CONSTANTS
  Threads,
  SlabSize,      \* SLAB_SIZE
  MaxCalls,      \* bound on the calls of the two probing functions
  MaxRestarts    \* bound on the restarts of the process

ProbeAssumption ==
  /\ SlabSize \in Nat \ {0}
  /\ MaxCalls \in Nat /\ MaxRestarts \in Nat

VARIABLES
  slab, next,    \* slab[t][i]: a key and its answer; next[t]: slot to write
  l2,            \* l2[k]: the version whose metadata is stored, or NoMeta
  pc,
  key,           \* the key probe_cached_l1 computed when it was called
  path,          \* the path of the call
  meta,          \* the answer the call has found so far
  calls, restarts,
  asOf,          \* history: version of the file when the call began, 0 if none
  raced          \* history: keys that a file took while it was being probed

vars == <<file, slab, next, l2, pc, key, path, meta, calls, restarts,
          asOf, raced>>
thread == <<pc, key, path, meta, asOf>>
caches == <<slab, next, l2>>
bounds == <<calls, restarts>>

NoMeta == 0
NoKey == << >>
NoPath == "none"
Metas == 1..MaxVersion
Slots == 0..(SlabSize - 1)
EmptySlot == [key |-> NoKey, meta |-> NoMeta]

Goto(t, label) == pc' = [pc EXCEPT ![t] = label]

Return(t) ==
  /\ Goto(t, "idle")
  /\ key' = [key EXCEPT ![t] = NoKey]
  /\ path' = [path EXCEPT ![t] = NoPath]
  /\ meta' = [meta EXCEPT ![t] = NoMeta]
  /\ asOf' = [asOf EXCEPT ![t] = 0]

Begin(t, p) ==
  /\ pc[t] = "idle"
  /\ calls < MaxCalls
  /\ calls' = calls + 1
  /\ path' = [path EXCEPT ![t] = p]
  /\ asOf' = [asOf EXCEPT ![t] =
                IF file[p].present THEN file[p].version ELSE 0]

-----------------------------------------------------------------------------
(* HotSlab *)

(* Variant: the search stops before the last slot. *)
HoldingButLast(t, k) == {i \in Slots \ {SlabSize - 1} : slab[t][i].key = k}

Holding(t, k) == {i \in Slots : slab[t][i].key = k}

(* insert: the ring overwrites its oldest slot and looks for no duplicate. *)
SlabInsert(t, k, m) ==
  /\ slab' = [slab EXCEPT ![t][next[t]] = [key |-> k, meta |-> m]]
  /\ next' = [next EXCEPT ![t] = (next[t] + 1) % SlabSize]

-----------------------------------------------------------------------------
(* probe_cached_l1 *)

ProbeCachedL1(t, p) ==
  /\ Begin(t, p)
  /\ key' = [key EXCEPT ![t] = cache_key(p)]
  /\ Goto(t, "l1")
  /\ UNCHANGED <<file, caches, meta, restarts, raced>>

L1Hit(t) ==
  /\ pc[t] = "l1"
  /\ \E i \in Holding(t, key[t]) :
       /\ \A j \in Holding(t, key[t]) : i <= j
       /\ meta' = [meta EXCEPT ![t] = slab[t][i].meta]
  /\ Goto(t, "answer")
  /\ UNCHANGED <<file, caches, key, path, bounds, asOf, raced>>

L1Miss(t) ==
  /\ pc[t] = "l1"
  /\ Holding(t, key[t]) = {}
  /\ Goto(t, "l2")
  /\ UNCHANGED <<file, caches, key, path, meta, bounds, asOf, raced>>

(* Variant: the key is taken when the answer is there. *)
FillUnderNewKey(t) ==
  /\ pc[t] = "fill"
  /\ SlabInsert(t, cache_key(path[t]), meta[t])
  /\ Goto(t, "answer")
  /\ UNCHANGED <<file, l2, key, path, meta, bounds, asOf, raced>>

(* The answer goes into the slab under the key the call started with. *)
Fill(t) ==
  /\ pc[t] = "fill"
  /\ SlabInsert(t, key[t], meta[t])
  /\ Goto(t, "answer")
  /\ UNCHANGED <<file, l2, key, path, meta, bounds, asOf, raced>>

Answer(t) ==
  /\ pc[t] = "answer"
  /\ Return(t)
  /\ UNCHANGED <<file, caches, bounds, raced>>

-----------------------------------------------------------------------------
(* probe_cached, called by probe_cached_l1 or on its own (no key then).    *)

ProbeCached(t, p) ==
  /\ Begin(t, p)
  /\ Goto(t, "l2")
  /\ UNCHANGED <<file, caches, key, meta, restarts, raced>>

Found(t) == Goto(t, IF key[t] = NoKey THEN "answer" ELSE "fill")

(* MediaCache::get computes the key again. *)
L2Hit(t) ==
  /\ pc[t] = "l2"
  /\ l2[cache_key(path[t])] # NoMeta
  /\ meta' = [meta EXCEPT ![t] = l2[cache_key(path[t])]]
  /\ Found(t)
  /\ UNCHANGED <<file, caches, key, path, bounds, asOf, raced>>

L2Miss(t) ==
  /\ pc[t] = "l2"
  /\ l2[cache_key(path[t])] = NoMeta
  /\ Goto(t, "probe")
  /\ UNCHANGED <<file, caches, key, path, meta, bounds, asOf, raced>>

(* The error of a get counts as a miss, whatever is stored. *)
L2Fails(t) ==
  /\ pc[t] = "l2"
  /\ l2[cache_key(path[t])] # NoMeta
  /\ Goto(t, "probe")
  /\ UNCHANGED <<file, caches, key, path, meta, bounds, asOf, raced>>

(* Variant: a file that is not there passes for a probed one. *)
ProbeUnchecked(t) ==
  /\ pc[t] = "probe"
  /\ meta' = [meta EXCEPT ![t] =
                IF file[path[t]].present THEN file[path[t]].version ELSE NoMeta]
  /\ Goto(t, "put")
  /\ UNCHANGED <<file, caches, key, path, bounds, asOf, raced>>

(* probe_full *)
Probe(t) ==
  /\ pc[t] = "probe"
  /\ file[path[t]].present
  /\ meta' = [meta EXCEPT ![t] = file[path[t]].version]
  /\ Goto(t, "put")
  /\ UNCHANGED <<file, caches, key, path, bounds, asOf, raced>>

ProbeFails(t) ==
  /\ pc[t] = "probe"
  /\ Return(t)
  /\ UNCHANGED <<file, caches, bounds, raced>>

(* MediaCache::put computes the key once more, after the probe. *)
Put(t) ==
  /\ pc[t] = "put"
  /\ \E evicted \in SUBSET ({k \in Keys : l2[k] # NoMeta}
                             \cup {cache_key(path[t])}) :
       l2' = [k \in Keys |->
                IF k \in evicted THEN NoMeta
                ELSE IF k = cache_key(path[t]) THEN meta[t] ELSE l2[k]]
  /\ Found(t)
  /\ UNCHANGED <<file, slab, next, key, path, meta, bounds, asOf, raced>>

(* The error of a put is ignored. *)
PutFails(t) ==
  /\ pc[t] = "put"
  /\ Found(t)
  /\ UNCHANGED <<file, caches, key, path, meta, bounds, asOf, raced>>

-----------------------------------------------------------------------------
L1Invalidate(t, p) ==
  /\ pc[t] = "idle"
  /\ slab' = [slab EXCEPT ![t] =
                [i \in Slots |-> IF i \in Holding(t, cache_key(p))
                                 THEN EmptySlot ELSE slab[t][i]]]
  /\ UNCHANGED <<file, next, l2, thread, bounds, raced>>

(* A replacement, or a deletion, is a race when it comes between a probe   *)
(* of the file and the put that stores what the probe saw.                 *)
Environment(p) ==
  /\ ReplaceFile(p) \/ DeleteFile(p)
  /\ raced' = IF \E t \in Threads : pc[t] = "put" /\ path[t] = p
              THEN raced \cup {cache_key(p)'} ELSE raced
  /\ UNCHANGED <<caches, thread, bounds>>

(* A new process has empty slabs and the database of the old one. *)
Restart ==
  /\ restarts < MaxRestarts
  /\ restarts' = restarts + 1
  /\ slab' = [t \in Threads |-> [i \in Slots |-> EmptySlot]]
  /\ next' = [t \in Threads |-> 0]
  /\ pc' = [t \in Threads |-> "idle"]
  /\ key' = [t \in Threads |-> NoKey]
  /\ path' = [t \in Threads |-> NoPath]
  /\ meta' = [t \in Threads |-> NoMeta]
  /\ asOf' = [t \in Threads |-> 0]
  /\ UNCHANGED <<file, l2, calls, raced>>

-----------------------------------------------------------------------------
Init ==
  /\ FilesInit
  /\ slab = [t \in Threads |-> [i \in Slots |-> EmptySlot]]
  /\ next = [t \in Threads |-> 0]
  /\ l2 = [k \in Keys |-> NoMeta]
  /\ pc = [t \in Threads |-> "idle"]
  /\ key = [t \in Threads |-> NoKey]
  /\ path = [t \in Threads |-> NoPath]
  /\ meta = [t \in Threads |-> NoMeta]
  /\ calls = 0 /\ restarts = 0
  /\ asOf = [t \in Threads |-> 0]
  /\ raced = {}

Step(t) ==
  \/ \E p \in Paths :
       ProbeCachedL1(t, p) \/ ProbeCached(t, p) \/ L1Invalidate(t, p)
  \/ L1Hit(t) \/ L1Miss(t) \/ Fill(t) \/ Answer(t)
  \/ L2Hit(t) \/ L2Miss(t) \/ L2Fails(t)
  \/ Probe(t) \/ ProbeFails(t) \/ Put(t) \/ PutFails(t)

Next ==
  \/ \E t \in Threads : Step(t)
  \/ \E p \in Paths : Environment(p)
  \/ Restart

Spec == Init /\ [][Next]_vars

-----------------------------------------------------------------------------
TypeOK ==
  /\ FilesTypeOK
  /\ slab \in [Threads -> [Slots -> [key : Keys \cup {NoKey},
                                     meta : Metas \cup {NoMeta}]]]
  /\ next \in [Threads -> Slots]
  /\ l2 \in [Keys -> Metas \cup {NoMeta}]
  /\ pc \in [Threads ->
       {"idle", "l1", "l2", "probe", "put", "fill", "answer"}]
  /\ key \in [Threads -> Keys \cup {NoKey}]
  /\ path \in [Threads -> Paths \cup {NoPath}]
  /\ meta \in [Threads -> Metas \cup {NoMeta}]
  /\ calls \in 0..MaxCalls /\ restarts \in 0..MaxRestarts
  /\ asOf \in [Threads -> 0..MaxVersion]
  /\ raced \subseteq Keys
  /\ \A t \in Threads :
       /\ pc[t] # "idle" => path[t] \in Paths
       /\ pc[t] \in {"put", "fill", "answer"} => meta[t] \in Metas

(* A slab never holds a key twice although insert does not look for it: a  *)
(* stale second copy would come back when the first one is overwritten.    *)
SlabKeysUnique ==
  \A t \in Threads : \A i, j \in Slots :
    slab[t][i].key = slab[t][j].key /\ slab[t][i].key # NoKey => i = j

(* L2 holds metadata older than its key says, or under a key without a     *)
(* stamp, only where the file changed between the probe and the put.       *)
StaleEntryOnlyIfRaced ==
  \A k \in Keys :
    /\ l2[k] # NoMeta
    /\ StampIn(k) = NoStamp \/ Stamp[l2[k]] < StampIn(k)
    => k \in raced

Answered(t) == pc[t] = "answer" /\ asOf[t] # 0

(* An answer older, by its modification time, than the file was when the   *)
(* call began also goes back to such a race and to nothing else.           *)
StaleAnswerOnlyIfRaced ==
  \A t \in Threads :
    Answered(t) /\ Stamp[meta[t]] < Stamp[asOf[t]]
      => \E k \in raced :
           /\ PathOf(k) = path[t]
           /\ StampIn(k) = NoStamp \/ StampIn(k) >= Stamp[asOf[t]]

=============================================================================
