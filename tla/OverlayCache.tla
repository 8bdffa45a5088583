---------------------------- MODULE OverlayCache ----------------------------
(***************************************************************************)
(* filters/overlay_cache.rs: decoded overlay images, shared by all the     *)
(* threads of the process behind one read-write lock.                      *)
(*                                                                         *)
(* get_or_decode looks the key up under the read lock and lets go of it;   *)
(* a hit takes the write lock to mark the entry as used, a miss decodes    *)
(* with no lock held and takes the write lock to insert.  Every section    *)
(* that runs under the lock is one action, and what runs between two       *)
(* sections is where the other threads, and the programs that replace the  *)
(* files, get in.  An asset is the version of the file it was decoded      *)
(* from.                                                                   *)
(***************************************************************************)
EXTENDS AssetFiles, Integers, Sequences, FiniteSets, SequencesExt

CONSTANTS
  Threads,      \* the threads that call the cache
  MaxEntries,   \* max_entries
  MaxLookups    \* bound on the calls of get_or_decode

ASSUME OverlayAssumption == MaxEntries \in Nat \ {0} /\ MaxLookups \in Nat

VARIABLES
  store,       \* store[k]: the asset cached under k, or NoAsset
  order,       \* recency order of the keys, next to be evicted first
  hits, misses, evictions,  \* the counters stats() reports
  pc,          \* where each thread is in its call
  key,         \* the key the call computed when it began
  asset,       \* what the call found or decoded
  asOf,        \* history: version of the file when the call began, 0 if none
  redundant    \* history: inserts of a key that was already there

vars == <<file, store, order, hits, misses, evictions,
          pc, key, asset, asOf, redundant>>
thread == <<pc, key, asset, asOf>>
counters == <<hits, misses, evictions>>

NoAsset == 0
NoKey == << >>
Assets == 1..MaxVersion

Cached == {k \in Keys : store[k] # NoAsset}

-----------------------------------------------------------------------------
(* CacheState: the operations done under the lock.                         *)

IndexOf(seq, k) ==
  CHOOSE i \in 1..Len(seq) : seq[i] = k /\ \A j \in 1..(i-1) : seq[j] # k

(* VecDeque::remove of the first position that holds k. *)
Unlist(seq, k) ==
  IF k \in ToSet(seq) THEN RemoveAt(seq, IndexOf(seq, k)) ELSE seq

(* Variant: the key leaves the list and is not pushed back. *)
touch_without_push(seq, k) == Unlist(seq, k)

(* Variant: a use does not count, which makes the list a FIFO queue. *)
touch_as_fifo(seq, k) == seq

touch(seq, k) ==
  IF k \in ToSet(seq) THEN Append(Unlist(seq, k), k) ELSE seq

(* Variant: the comparison is off by one. *)
MustEvictLate == Cardinality(Cached) > MaxEntries /\ order # << >>

(* evict_lru runs first when insert finds the store full. *)
MustEvict == Cardinality(Cached) >= MaxEntries /\ order # << >>

AfterEvict ==
  IF MustEvict
  THEN [store |-> [store EXCEPT ![Head(order)] = NoAsset],
        order |-> Tail(order)]
  ELSE [store |-> store, order |-> order]

insert(k, a) ==
  /\ store' = [AfterEvict.store EXCEPT ![k] = a]
  /\ order' = Append(AfterEvict.order, k)
  /\ evictions' = IF MustEvict THEN evictions + 1 ELSE evictions
  /\ redundant' = IF AfterEvict.store[k] # NoAsset
                  THEN redundant + 1 ELSE redundant

-----------------------------------------------------------------------------
(* get_or_decode                                                           *)

Finish(t) ==
  /\ pc' = [pc EXCEPT ![t] = "idle"]
  /\ key' = [key EXCEPT ![t] = NoKey]
  /\ asset' = [asset EXCEPT ![t] = NoAsset]
  /\ asOf' = [asOf EXCEPT ![t] = 0]

Looking == {t \in Threads : pc[t] = "lookup"}

(* The key is computed once, from one stat(), before any lock is taken. *)
GetOrDecode(t, p) ==
  /\ pc[t] = "idle"
  /\ hits + misses + Cardinality(Looking) < MaxLookups
  /\ pc' = [pc EXCEPT ![t] = "lookup"]
  /\ key' = [key EXCEPT ![t] = cache_key(p)]
  /\ asOf' = [asOf EXCEPT ![t] =
                IF file[p].present THEN file[p].version ELSE 0]
  /\ UNCHANGED <<file, store, order, counters, asset, redundant>>

(* Variant: a hit that does not look whether there is an asset. *)
LookupHitUnchecked(t) ==
  /\ pc[t] = "lookup"
  /\ asset' = [asset EXCEPT ![t] = store[key[t]]]
  /\ hits' = hits + 1
  /\ pc' = [pc EXCEPT ![t] = "touch"]
  /\ UNCHANGED <<file, store, order, misses, evictions, key, asOf, redundant>>

LookupHit(t) ==
  /\ pc[t] = "lookup"
  /\ store[key[t]] # NoAsset
  /\ asset' = [asset EXCEPT ![t] = store[key[t]]]
  /\ hits' = hits + 1
  /\ pc' = [pc EXCEPT ![t] = "touch"]
  /\ UNCHANGED <<file, store, order, misses, evictions, key, asOf, redundant>>

LookupMiss(t) ==
  /\ pc[t] = "lookup"
  /\ store[key[t]] = NoAsset
  /\ misses' = misses + 1
  /\ pc' = [pc EXCEPT ![t] = "decode"]
  /\ UNCHANGED <<file, store, order, hits, evictions, key, asset, asOf, redundant>>

(* Under the write lock; the entry may have gone since the lookup. *)
Touch(t) ==
  /\ pc[t] = "touch"
  /\ order' = touch(order, key[t])
  /\ Finish(t)
  /\ UNCHANGED <<file, store, counters, redundant>>

Decode(t) ==
  /\ pc[t] = "decode"
  /\ file[PathOf(key[t])].present
  /\ asset' = [asset EXCEPT ![t] = file[PathOf(key[t])].version]
  /\ pc' = [pc EXCEPT ![t] = "insert"]
  /\ UNCHANGED <<file, store, order, counters, key, asOf, redundant>>

(* The file is missing, or the caller's decoder fails on it. *)
DecodeFails(t) ==
  /\ pc[t] = "decode"
  /\ Finish(t)
  /\ UNCHANGED <<file, store, order, counters, redundant>>

Insert(t) ==
  /\ pc[t] = "insert"
  /\ insert(key[t], asset[t])
  /\ Finish(t)
  /\ UNCHANGED <<file, hits, misses>>

-----------------------------------------------------------------------------
(* invalidate and clear                                                    *)

BeginInvalidate(t, p) ==
  /\ pc[t] = "idle"
  /\ pc' = [pc EXCEPT ![t] = "remove"]
  /\ key' = [key EXCEPT ![t] = cache_key(p)]
  /\ UNCHANGED <<file, store, order, counters, asset, asOf, redundant>>

Invalidate(t) ==
  /\ pc[t] = "remove"
  /\ IF store[key[t]] # NoAsset
     THEN /\ store' = [store EXCEPT ![key[t]] = NoAsset]
          /\ order' = Unlist(order, key[t])
     ELSE UNCHANGED <<store, order>>
  /\ Finish(t)
  /\ UNCHANGED <<file, counters, redundant>>

Clear(t) ==
  /\ pc[t] = "idle"
  /\ store' = [k \in Keys |-> NoAsset]
  /\ order' = << >>
  /\ UNCHANGED <<file, counters, thread, redundant>>

Environment(p) ==
  /\ ReplaceFile(p) \/ DeleteFile(p)
  /\ UNCHANGED <<store, order, counters, thread, redundant>>

-----------------------------------------------------------------------------
Init ==
  /\ FilesInit
  /\ store = [k \in Keys |-> NoAsset]
  /\ order = << >>
  /\ hits = 0 /\ misses = 0 /\ evictions = 0
  /\ pc = [t \in Threads |-> "idle"]
  /\ key = [t \in Threads |-> NoKey]
  /\ asset = [t \in Threads |-> NoAsset]
  /\ asOf = [t \in Threads |-> 0]
  /\ redundant = 0

Step(t) ==
  \/ \E p \in Paths : GetOrDecode(t, p) \/ BeginInvalidate(t, p)
  \/ LookupHit(t) \/ LookupMiss(t) \/ Touch(t)
  \/ Decode(t) \/ DecodeFails(t) \/ Insert(t)
  \/ Invalidate(t) \/ Clear(t)

Next ==
  \/ \E t \in Threads : Step(t)
  \/ \E p \in Paths : Environment(p)

Spec == Init /\ [][Next]_vars

-----------------------------------------------------------------------------
TypeOK ==
  /\ FilesTypeOK
  /\ store \in [Keys -> Assets \cup {NoAsset}]
  /\ order \in Seq(Keys)
  /\ hits \in Nat /\ misses \in Nat /\ evictions \in Nat /\ redundant \in Nat
  /\ pc \in [Threads ->
       {"idle", "lookup", "touch", "decode", "insert", "remove"}]
  /\ key \in [Threads -> Keys \cup {NoKey}]
  /\ asset \in [Threads -> Assets \cup {NoAsset}]
  /\ asOf \in [Threads -> 0..MaxVersion]
  /\ \A t \in Threads :
       /\ pc[t] # "idle" => key[t] \in Keys
       /\ pc[t] \in {"touch", "insert"} => asset[t] \in Assets

(* Every cached asset is on the recency list.  One that is not could never *)
(* be evicted and would stay in memory for ever.                           *)
CachedIsListed == Cached \subseteq ToSet(order)

(* The recency list is longer than the store by at most the redundant      *)
(* inserts, and it is what bounds the store.                               *)
ListBound ==
  /\ Len(order) <= Cardinality(Cached) + redundant
  /\ Len(order) <= MaxEntries + redundant

(* The store outgrows max_entries only by the inserts of keys that another *)
(* thread had inserted since the lookup: nothing else leaks an entry.      *)
OvershootIsRedundant == Cardinality(Cached) <= MaxEntries + redundant

(* The limit as the constant's comment states it: "Maximum number of       *)
(* overlay assets kept in memory simultaneously".                          *)
WithinMaxEntries == Cardinality(Cached) <= MaxEntries

(* A call that began when the file was there never answers with an asset   *)
(* decoded from a version with an older modification time.                 *)
FreshAnswer ==
  \A t \in Threads :
    pc[t] \in {"touch", "insert"} /\ asOf[t] # 0
      => Stamp[asset[t]] >= Stamp[asOf[t]]

(* With one caller get_or_decode, invalidate and clear are those of an LRU *)
(* cache: an entry leaves when a new key needs its place and it is the     *)
(* least recently used, where a hit counts as a use.                       *)
InUse == {t \in Threads : pc[t] = "touch"}

Using == IF InUse = {} THEN NoKey ELSE key[CHOOSE t \in InUse : TRUE]

Lru == INSTANCE LruCache WITH
         Key <- Keys, Value <- Assets, Capacity <- MaxEntries,
         NoValue <- NoAsset, recency <- order, held <- store, using <- Using

ImplementsLru == Lru!LruSpec

=============================================================================
