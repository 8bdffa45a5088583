----------------------------- MODULE MediaCache -----------------------------
(***************************************************************************)
(* probe/cache.rs: probe results in an embedded database, with an index in *)
(* memory (LruIndex) that orders the entries by use, adds up their sizes   *)
(* and decides what to evict.  The database outlives the process, the      *)
(* index does not: open() starts with an empty one.                        *)
(*                                                                         *)
(* A database transaction and a section under the lock of the index are    *)
(* one action each, so a put is a commit, an update of the index and, when *)
(* the cache is over its limit, the choice of the victims, a second commit *)
(* and a second update.  probe_cached calls all this under one mutex, which*)
(* is a single thread here; MediaCache itself may also be shared.          *)
(***************************************************************************)
EXTENDS Integers, Sequences, FiniteSets, SequencesExt

CONSTANTS
  Threads,
  MediaKeys,
  Sizes,         \* encoded sizes of an entry, in bytes
  MaxBytes,      \* max_size_mb, in bytes
  EvictBatch,    \* the 100 of enforce_size_limit
  IoMayFail,     \* may the transaction of an eviction fail?
  MaxPuts,       \* bound on the calls of put
  MaxRestarts    \* bound on the restarts of the process

ASSUME MediaAssumption ==
  /\ IsFiniteSet(MediaKeys)
  /\ Sizes \subseteq Nat \ {0}
  /\ MaxBytes \in Nat
  /\ EvictBatch \in Nat \ {0}
  /\ IoMayFail \in BOOLEAN
  /\ MaxPuts \in Nat /\ MaxRestarts \in Nat

VARIABLES
  table,     \* table[k]: size of the entry in the database, 0 if none
  order,     \* LruIndex.order: most recently used first
  sizes,     \* LruIndex.sizes, 0 if the key is not tracked
  total,     \* LruIndex.total_size_bytes
  pc,
  key,       \* the key of the call
  size,      \* the size put has encoded
  victims,   \* the keys an eviction has chosen
  puts, restarts,
  overlapped, \* history: has a call begun, in this process, while another ran?
  failed      \* history: has an eviction failed in this process?

vars == <<table, order, sizes, total, pc, key, size, victims, puts, restarts,
          overlapped, failed>>
index == <<order, sizes, total>>
bounds == <<puts, restarts, overlapped, failed>>

NoKey == "none"
Tracked == {k \in MediaKeys : sizes[k] # 0}
Stored == {k \in MediaKeys : table[k] # 0}

-----------------------------------------------------------------------------
(* LruIndex                                                                *)

saturating_sub(a, b) == IF a >= b THEN a - b ELSE 0

(* VecDeque::retain: what is left of s without the keys in K. *)
retain(s, K) ==
  LET kept[i \in 0..Len(s)] ==
        IF i = 0 THEN << >>
        ELSE IF s[i] \in K THEN kept[i - 1] ELSE Append(kept[i - 1], s[i])
  IN  kept[Len(s)]

(* touch: the key moves to the front, tracked or not. *)
IndexTouch(k) ==
  /\ order' = <<k>> \o retain(order, {k})
  /\ UNCHANGED <<sizes, total>>

(* Variant: an entry that is written again keeps its old place as well. *)
IndexInsertTwice(k, s) ==
  /\ order' = <<k>> \o order
  /\ sizes' = [sizes EXCEPT ![k] = s]
  /\ total' = saturating_sub(total, sizes[k]) + s

(* Variant: its old size stays in the total. *)
IndexInsertAddsAgain(k, s) ==
  /\ order' = <<k>> \o (IF sizes[k] # 0 THEN retain(order, {k}) ELSE order)
  /\ sizes' = [sizes EXCEPT ![k] = s]
  /\ total' = total + s

IndexInsert(k, s) ==
  /\ order' = <<k>> \o (IF sizes[k] # 0 THEN retain(order, {k}) ELSE order)
  /\ sizes' = [sizes EXCEPT ![k] = s]
  /\ total' = saturating_sub(total, sizes[k]) + s

(* Variant: the order forgets the keys, the sizes do not. *)
IndexRemoveFromOrder(K) ==
  /\ order' = retain(order, K)
  /\ UNCHANGED <<sizes, total>>

(* remove: only what is tracked leaves the order. *)
IndexRemove(K) ==
  LET gone == K \cap Tracked
      freed == SumFunctionOnSet(sizes, gone)
  IN  /\ order' = retain(order, gone)
      /\ sizes' = [k \in MediaKeys |-> IF k \in gone THEN 0 ELSE sizes[k]]
      /\ total' = saturating_sub(total, freed)

IndexClear ==
  /\ order' = << >>
  /\ sizes' = [k \in MediaKeys |-> 0]
  /\ total' = 0

(* Variant: one key short. *)
KeysToEvictShort ==
  {order[i] : i \in {j \in 1..Len(order) : j > Len(order) - EvictBatch + 1}}

(* keys_to_evict: up to EvictBatch keys from the old end. *)
KeysToEvict ==
  {order[i] : i \in {j \in 1..Len(order) : j > Len(order) - EvictBatch}}

-----------------------------------------------------------------------------
Goto(t, label) == pc' = [pc EXCEPT ![t] = label]

Return(t) ==
  /\ Goto(t, "idle")
  /\ key' = [key EXCEPT ![t] = NoKey]
  /\ size' = [size EXCEPT ![t] = 0]
  /\ victims' = [victims EXCEPT ![t] = {}]

Begin(t, label) ==
  /\ pc[t] = "idle"
  /\ Goto(t, label)
  /\ overlapped' = (overlapped \/ \E u \in Threads \ {t} : pc[u] # "idle")

(* get: a miss changes nothing, a hit goes on to mark the key as used. *)
Get(t, k) ==
  /\ table[k] # 0
  /\ Begin(t, "touch")
  /\ key' = [key EXCEPT ![t] = k]
  /\ UNCHANGED <<table, index, size, victims, puts, restarts, failed>>

Touch(t) ==
  /\ pc[t] = "touch"
  /\ IndexTouch(key[t])
  /\ Return(t)
  /\ UNCHANGED <<table, bounds>>

(* put: the entry is committed first. *)
Put(t, k, s) ==
  /\ puts < MaxPuts
  /\ puts' = puts + 1
  /\ Begin(t, "index")
  /\ table' = [table EXCEPT ![k] = s]
  /\ key' = [key EXCEPT ![t] = k]
  /\ size' = [size EXCEPT ![t] = s]
  /\ UNCHANGED <<index, victims, restarts, failed>>

Index(t) ==
  /\ pc[t] = "index"
  /\ IndexInsert(key[t], size[t])
  /\ Goto(t, "enforce")
  /\ UNCHANGED <<table, key, size, victims, bounds>>

(* enforce_size_limit *)
WithinBudget(t) ==
  /\ pc[t] = "enforce"
  /\ total <= MaxBytes
  /\ Return(t)
  /\ UNCHANGED <<table, index, bounds>>

OverBudget(t) ==
  /\ pc[t] = "enforce"
  /\ total > MaxBytes
  /\ Goto(t, "choose")
  /\ UNCHANGED <<table, index, key, size, victims, bounds>>

Choose(t) ==
  /\ pc[t] = "choose"
  /\ IF order = << >>
     THEN Return(t)
     ELSE /\ victims' = [victims EXCEPT ![t] = KeysToEvict]
          /\ Goto(t, "delete")
          /\ UNCHANGED <<key, size>>
  /\ UNCHANGED <<table, index, bounds>>

Delete(t) ==
  /\ pc[t] = "delete"
  /\ table' = [k \in MediaKeys |-> IF k \in victims[t] THEN 0 ELSE table[k]]
  /\ Goto(t, "forget")
  /\ UNCHANGED <<index, key, size, victims, bounds>>

(* The error of the transaction is returned before the index is updated. *)
DeleteFails(t) ==
  /\ IoMayFail
  /\ pc[t] = "delete"
  /\ failed' = TRUE
  /\ Return(t)
  /\ UNCHANGED <<table, index, puts, restarts, overlapped>>

Forget(t) ==
  /\ pc[t] = "forget"
  /\ IndexRemove(victims[t])
  /\ Return(t)
  /\ UNCHANGED <<table, bounds>>

(* clear: the table is drained, then the index. *)
Clear(t) ==
  /\ Begin(t, "wipe")
  /\ table' = [k \in MediaKeys |-> 0]
  /\ UNCHANGED <<index, key, size, victims, puts, restarts, failed>>

Wipe(t) ==
  /\ pc[t] = "wipe"
  /\ IndexClear
  /\ Return(t)
  /\ UNCHANGED <<table, bounds>>

(* The process stops anywhere, and open() finds the database as it was. *)
Restart ==
  /\ restarts < MaxRestarts
  /\ restarts' = restarts + 1
  /\ IndexClear
  /\ pc' = [t \in Threads |-> "idle"]
  /\ key' = [t \in Threads |-> NoKey]
  /\ size' = [t \in Threads |-> 0]
  /\ victims' = [t \in Threads |-> {}]
  /\ overlapped' = FALSE /\ failed' = FALSE
  /\ UNCHANGED <<table, puts>>

-----------------------------------------------------------------------------
Init ==
  /\ table = [k \in MediaKeys |-> 0]
  /\ order = << >>
  /\ sizes = [k \in MediaKeys |-> 0]
  /\ total = 0
  /\ pc = [t \in Threads |-> "idle"]
  /\ key = [t \in Threads |-> NoKey]
  /\ size = [t \in Threads |-> 0]
  /\ victims = [t \in Threads |-> {}]
  /\ puts = 0 /\ restarts = 0 /\ overlapped = FALSE /\ failed = FALSE

Step(t) ==
  \/ \E k \in MediaKeys : Get(t, k) \/ \E s \in Sizes : Put(t, k, s)
  \/ Touch(t) \/ Index(t)
  \/ WithinBudget(t) \/ OverBudget(t) \/ Choose(t)
  \/ Delete(t) \/ DeleteFails(t) \/ Forget(t)
  \/ Clear(t) \/ Wipe(t)

Next == Restart \/ \E t \in Threads : Step(t)

Spec == Init /\ [][Next]_vars

-----------------------------------------------------------------------------
TypeOK ==
  /\ table \in [MediaKeys -> Sizes \cup {0}]
  /\ order \in Seq(MediaKeys)
  /\ sizes \in [MediaKeys -> Sizes \cup {0}]
  /\ total \in Nat
  /\ pc \in [Threads -> {"idle", "touch", "index", "enforce", "choose",
                         "delete", "forget", "wipe"}]
  /\ key \in [Threads -> MediaKeys \cup {NoKey}]
  /\ size \in [Threads -> Sizes \cup {0}]
  /\ victims \in [Threads -> SUBSET MediaKeys]
  /\ puts \in 0..MaxPuts /\ restarts \in 0..MaxRestarts
  /\ overlapped \in BOOLEAN /\ failed \in BOOLEAN

AtRest == \A t \in Threads : pc[t] = "idle"

(* The running total is the sum of the tracked sizes: no update loses or   *)
(* counts an entry twice, so the saturating subtraction never saturates.   *)
TotalIsSum == total = SumFunction(sizes)

(* Every tracked key is in the order, where an eviction can find it. *)
TrackedIsListed == Tracked \subseteq ToSet(order)

(* Between calls the index describes entries that are in the database,     *)
(* with the sizes they have there, wherever the process stopped before and *)
(* whichever evictions failed; in the process that created the database it *)
(* is an exact picture, each entry listed once.  Only calls that overlap   *)
(* can break this.                                                         *)
IndexMirrorsTable ==
  AtRest /\ ~overlapped =>
    /\ \A k \in Tracked : table[k] = sizes[k]
    /\ restarts = 0 => /\ sizes = table
                      /\ ToSet(order) = Stored
                      /\ Len(order) = Cardinality(Stored)

(* One batch of victims makes room for any entry, as with the 100 of the   *)
(* code if the largest entry is no larger than 100 of the smallest.        *)
VictimsMakeRoom == \A s, r \in Sizes : s <= EvictBatch * r

(* In that process what it adds up is within the limit, if no eviction failed. *)
TrackedWithinLimit ==
  AtRest /\ ~overlapped /\ ~failed /\ restarts = 0 =>
    total <= MaxBytes

(* "Implements LRU eviction when cache exceeds max_size_mb": between calls *)
(* the entries in the database are within the limit.                       *)
StoredWithinLimit == AtRest => SumFunction(table) <= MaxBytes

=============================================================================
