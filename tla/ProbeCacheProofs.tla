-------------------------- MODULE ProbeCacheProofs --------------------------
(***************************************************************************)
(* Theorems about ProbeCache for any threads, paths, stamps, slabs and     *)
(* numbers of calls and restarts.                                          *)
(***************************************************************************)
EXTENDS ProbeCache, TLAPS

Answers == Metas \cup {NoMeta}
Entries == [key : Keys \cup {NoKey}, meta : Answers]

-----------------------------------------------------------------------------
(* Files and keys                                                          *)

LEMMA KeyOfPath ==
  ASSUME FilesTypeOK, NEW p \in Paths
  PROVE  /\ cache_key(p) \in Keys /\ cache_key(p) # NoKey
         /\ PathOf(cache_key(p)) = p
         /\ StampIn(cache_key(p)) =
              IF file[p].present THEN Stamp[file[p].version] ELSE NoStamp
         /\ file[p].present => file[p].version \in Metas
<1>1. file[p].present => file[p].version \in Metas
  BY FilesAssumption DEF FilesTypeOK, File, Metas
<1>2. file[p].present => Stamp[file[p].version] \in 0..MaxVersion
  BY <1>1, FilesAssumption DEF Metas
<1>3. cache_key(p) \in Keys /\ PathOf(cache_key(p)) = p
  BY <1>2, FilesAssumption DEF cache_key, Keys, PathOf, NoStamp
<1>4. cache_key(p) # NoKey
  BY DEF cache_key, NoKey
<1>5. StampIn(cache_key(p)) =
        IF file[p].present THEN Stamp[file[p].version] ELSE NoStamp
  BY DEF cache_key, StampIn
<1> QED BY <1>1, <1>3, <1>4, <1>5

(* A file that is changed has its type and a version that is no smaller.   *)
LEMMA FileChange ==
  ASSUME FilesTypeOK, NEW p \in Paths, ReplaceFile(p) \/ DeleteFile(p)
  PROVE  /\ FilesTypeOK'
         /\ \A q \in Paths : file'[q].version >= file[q].version
         /\ \A q \in Paths \ {p} : file'[q] = file[q]
<1>1. CASE ReplaceFile(p)
  <2>1. file[p].version \in 0..MaxVersion /\ file[p].version < MaxVersion
    BY <1>1 DEF FilesTypeOK, File, ReplaceFile
  <2>2. /\ file[p].version + 1 \in 0..MaxVersion
        /\ file[p].version + 1 > 0
    <3>1. MaxVersion \in Nat
      BY FilesAssumption
    <3> QED BY <2>1, <3>1
  <2>3. file' = [file EXCEPT ![p] =
                   [version |-> file[p].version + 1, present |-> TRUE]]
    BY <1>1 DEF ReplaceFile
  <2>4. \A q \in Paths : file[q].version \in Nat
    BY FilesAssumption DEF FilesTypeOK, File
  <2>5. \A q \in Paths : file'[q].version >= file[q].version
    BY <2>3, <2>4 DEF FilesTypeOK, File
  <2> QED BY <2>2, <2>3, <2>5 DEF FilesTypeOK, File
<1>2. CASE DeleteFile(p)
  <2>1. file' = [file EXCEPT ![p].present = FALSE]
    BY <1>2 DEF DeleteFile
  <2>2. \A q \in Paths : file[q].version \in Nat
    BY FilesAssumption DEF FilesTypeOK, File
  <2>3. FilesTypeOK'
    BY <2>1 DEF FilesTypeOK, File
  <2>4. \A q \in Paths : file'[q].version = file[q].version
    BY <2>1 DEF FilesTypeOK, File
  <2>5. \A q \in Paths \ {p} : file'[q] = file[q]
    BY <2>1 DEF FilesTypeOK
  <2> QED BY <2>2, <2>3, <2>4, <2>5
<1> QED BY <1>1, <1>2

-----------------------------------------------------------------------------
(* Types.  A hit in the slab has an answer because slots in use have one,  *)
(* and because a thread that looks there, or writes there, has a key.      *)
EntriesKnown ==
  \A t \in Threads : \A i \in Slots :
    slab[t][i].key # NoKey => slab[t][i].meta \in Metas

KeyTaken ==
  \A t \in Threads :
    /\ pc[t] = "idle" => key[t] = NoKey
    /\ pc[t] \in {"l1", "fill"} => key[t] # NoKey

TypeInv == TypeOK /\ EntriesKnown /\ KeyTaken

(* What a thread that ends its call leaves behind. *)
LEMMA ReturnType ==
  ASSUME TypeOK, NEW t \in Threads, Return(t)
  PROVE  /\ pc' \in [Threads -> {"idle", "l1", "l2", "probe", "put", "fill", "answer"}]
         /\ key' \in [Threads -> Keys \cup {NoKey}]
         /\ path' \in [Threads -> Paths \cup {NoPath}]
         /\ meta' \in [Threads -> Answers]
         /\ asOf' \in [Threads -> 0..MaxVersion]
         /\ \A u \in Threads :
              /\ pc'[u] # "idle" => path'[u] \in Paths
              /\ pc'[u] \in {"put", "fill", "answer"} => meta'[u] \in Metas
<1>1. 0 \in 0..MaxVersion
  BY FilesAssumption
<1> QED BY <1>1 DEF TypeOK, Return, Goto, Answers

LEMMA BeginType ==
  ASSUME ProbeAssumption, TypeOK, NEW t \in Threads, NEW p \in Paths, Begin(t, p)
  PROVE  /\ path' \in [Threads -> Paths \cup {NoPath}]
         /\ asOf' \in [Threads -> 0..MaxVersion]
         /\ calls' \in 0..MaxCalls
         /\ path'[t] = p /\ \A u \in Threads \ {t} : path'[u] = path[u]
<1>1. IF file[p].present THEN file[p].version \in 0..MaxVersion ELSE TRUE
  BY DEF TypeOK, FilesTypeOK, File
<1>2. 0 \in 0..MaxVersion
  BY FilesAssumption
<1>3. asOf' \in [Threads -> 0..MaxVersion]
  BY <1>1, <1>2 DEF TypeOK, Begin
<1>4. calls' \in 0..MaxCalls
  BY DEF TypeOK, Begin, ProbeAssumption
<1> QED BY <1>3, <1>4 DEF TypeOK, Begin

LEMMA InsertType ==
  ASSUME ProbeAssumption, TypeOK, NEW t \in Threads, NEW k \in Keys \cup {NoKey},
         NEW m \in Answers, SlabInsert(t, k, m)
  PROVE  slab' \in [Threads -> [Slots -> Entries]] /\ next' \in [Threads -> Slots]
<1>1. next[t] \in 0..(SlabSize - 1) /\ SlabSize \in Nat \ {0}
  BY DEF TypeOK, Slots, ProbeAssumption
<1>2. (next[t] + 1) % SlabSize \in Slots
  BY <1>1 DEF Slots
<1>3. [key |-> k, meta |-> m] \in Entries
  BY DEF Entries
<1>4. slab \in [Threads -> [Slots -> Entries]]
  BY DEF TypeOK, Entries, Answers
<1> QED BY <1>1, <1>2, <1>3, <1>4 DEF SlabInsert, TypeOK, Slots

LEMMA InitType == ASSUME ProbeAssumption, Init PROVE TypeInv
<1>1. FilesTypeOK
  BY FilesAssumption DEF Init, FilesInit, FilesTypeOK, File
<1>2. 0 \in Slots /\ 0 \in 0..MaxVersion
  BY FilesAssumption DEF ProbeAssumption, Slots
<1>3. TypeOK
  BY <1>1, <1>2 DEF Init, TypeOK, EmptySlot, ProbeAssumption
<1>4. EntriesKnown /\ KeyTaken
  BY DEF Init, EntriesKnown, KeyTaken, EmptySlot
<1> QED BY <1>3, <1>4 DEF TypeInv

LEMMA StepType ==
  ASSUME ProbeAssumption, TypeInv, NEW t \in Threads, Step(t)
  PROVE  TypeOK'
<1> USE DEF Goto, TypeInv
<1>f. FilesTypeOK /\ (pc[t] # "idle" => path[t] \in Paths)
  BY DEF TypeOK
<1>1. ASSUME NEW p \in Paths, ProbeCachedL1(t, p) PROVE TypeOK'
  <2>1. cache_key(p) \in Keys
    BY <1>f, KeyOfPath
  <2> QED BY <1>1, <2>1, BeginType DEF ProbeCachedL1, TypeOK, FilesTypeOK, caches
<1>2. ASSUME NEW p \in Paths, ProbeCached(t, p) PROVE TypeOK'
  BY <1>2, BeginType DEF ProbeCached, TypeOK, FilesTypeOK, caches
<1>3. ASSUME NEW p \in Paths, L1Invalidate(t, p) PROVE TypeOK'
  <2>1. slab' \in [Threads -> [Slots -> [key : Keys \cup {NoKey},
                                         meta : Metas \cup {NoMeta}]]]
    BY <1>3 DEF L1Invalidate, TypeOK, EmptySlot
  <2> QED BY <1>3, <2>1 DEF L1Invalidate, TypeOK, FilesTypeOK, thread, bounds
<1>4. CASE L1Hit(t)
  <2> PICK i \in Holding(t, key[t]) : meta' = [meta EXCEPT ![t] = slab[t][i].meta]
    BY <1>4 DEF L1Hit
  <2>1. slab[t][i].meta \in Metas
    BY <1>4 DEF L1Hit, EntriesKnown, KeyTaken, Holding
  <2> QED BY <1>4, <2>1 DEF L1Hit, TypeOK, FilesTypeOK, caches, bounds
<1>5. CASE L1Miss(t)
  BY <1>5 DEF L1Miss, TypeOK, FilesTypeOK, caches, bounds
<1>6. CASE Fill(t)
  <2>1. slab' \in [Threads -> [Slots -> Entries]] /\ next' \in [Threads -> Slots]
    <3>1. key[t] \in Keys \cup {NoKey} /\ meta[t] \in Answers
      BY DEF TypeOK, Answers
    <3> QED BY <1>6, <3>1, InsertType DEF Fill
  <2> QED BY <1>6, <2>1 DEF Fill, TypeOK, FilesTypeOK, bounds, Entries, Answers
<1>7. CASE Answer(t)
  BY <1>7, ReturnType DEF Answer, TypeOK, FilesTypeOK, caches, bounds, Answers
<1>8. CASE L2Hit(t)
  <2>1. cache_key(path[t]) \in Keys
    BY <1>8, <1>f, KeyOfPath DEF L2Hit
  <2>2. l2[cache_key(path[t])] \in Metas
    BY <1>8, <2>1 DEF L2Hit, TypeOK
  <2> QED BY <1>8, <2>2 DEF L2Hit, Found, TypeOK, FilesTypeOK, caches, bounds
<1>9. CASE L2Miss(t) \/ L2Fails(t)
  BY <1>9 DEF L2Miss, L2Fails, TypeOK, FilesTypeOK, caches, bounds
<1>10. CASE Probe(t)
  <2>1. file[path[t]].version \in Metas
    BY <1>10, <1>f, KeyOfPath DEF Probe
  <2> QED BY <1>10, <2>1 DEF Probe, TypeOK, FilesTypeOK, caches, bounds
<1>11. CASE ProbeFails(t)
  BY <1>11, ReturnType DEF ProbeFails, TypeOK, FilesTypeOK, caches, bounds, Answers
<1>12. CASE Put(t)
  <2>1. meta[t] \in Metas
    BY <1>12 DEF Put, TypeOK
  <2>2. l2' \in [Keys -> Metas \cup {NoMeta}]
    BY <1>12, <2>1 DEF Put, TypeOK
  <2> QED BY <1>12, <2>2 DEF Put, Found, TypeOK, FilesTypeOK, bounds
<1>13. CASE PutFails(t)
  BY <1>13 DEF PutFails, Found, TypeOK, FilesTypeOK, caches, bounds
<1> QED BY <1>1, <1>2, <1>3, <1>4, <1>5, <1>6, <1>7, <1>8, <1>9, <1>10, <1>11,
           <1>12, <1>13 DEF Step

LEMMA StepKnown ==
  ASSUME ProbeAssumption, TypeInv, NEW t \in Threads, Step(t)
  PROVE  EntriesKnown' /\ KeyTaken'
<1> USE DEF Goto, TypeInv
<1>1. ASSUME NEW p \in Paths, ProbeCachedL1(t, p)
      PROVE  EntriesKnown' /\ KeyTaken'
  <2>1. cache_key(p) # NoKey
    BY KeyOfPath DEF TypeOK
  <2> QED BY <1>1, <2>1 DEF ProbeCachedL1, Begin, TypeOK, caches, EntriesKnown, KeyTaken
<1>2. ASSUME NEW p \in Paths, ProbeCached(t, p)
      PROVE  EntriesKnown' /\ KeyTaken'
  BY <1>2 DEF ProbeCached, Begin, TypeOK, caches, EntriesKnown, KeyTaken
<1>3. ASSUME NEW p \in Paths, L1Invalidate(t, p)
      PROVE  EntriesKnown' /\ KeyTaken'
  BY <1>3 DEF L1Invalidate, TypeOK, EntriesKnown, KeyTaken, thread, EmptySlot
<1>4. CASE L1Hit(t) \/ L1Miss(t) \/ L2Miss(t) \/ L2Fails(t) \/ Probe(t)
  BY <1>4 DEF L1Hit, L1Miss, L2Miss, L2Fails, Probe, TypeOK, caches,
     EntriesKnown, KeyTaken
<1>5. CASE Fill(t)
  <2>1. meta[t] \in Metas
    BY <1>5 DEF Fill, TypeOK
  <2>2. EntriesKnown'
    BY <1>5, <2>1 DEF Fill, SlabInsert, TypeOK, EntriesKnown
  <2> QED BY <1>5, <2>2 DEF Fill, TypeOK, KeyTaken
<1>6. CASE Answer(t) \/ ProbeFails(t)
  <2>1. slab' = slab /\ Return(t)
    BY <1>6 DEF Answer, ProbeFails, caches
  <2>2. KeyTaken'
    BY <2>1 DEF Return, TypeOK, KeyTaken
  <2> QED BY <2>1, <2>2 DEF EntriesKnown
<1>7. CASE L2Hit(t) \/ Put(t) \/ PutFails(t)
  BY <1>7 DEF L2Hit, Put, PutFails, Found, TypeOK, caches, EntriesKnown, KeyTaken
<1> QED BY <1>1, <1>2, <1>3, <1>4, <1>5, <1>6, <1>7 DEF Step

LEMMA NextType ==
  ASSUME ProbeAssumption, TypeInv, [Next]_vars PROVE TypeInv'
<1>1. ASSUME NEW t \in Threads, Step(t) PROVE TypeInv'
  BY <1>1, StepType, StepKnown DEF TypeInv
<1>2. ASSUME NEW p \in Paths, Environment(p) PROVE TypeInv'
  <2>1. FilesTypeOK' /\ UNCHANGED <<caches, thread, bounds>>
    BY <1>2, FileChange DEF Environment, TypeInv, TypeOK
  <2>2. cache_key(p)' \in Keys
    <3>1. \A q \in Paths : file'[q].present => Stamp[file'[q].version] \in 0..MaxVersion
      BY <2>1, FilesAssumption DEF FilesTypeOK, File
    <3> QED BY <3>1, FilesAssumption DEF cache_key, Keys, NoStamp
  <2>3. raced' \subseteq Keys
    BY <1>2, <2>2 DEF Environment, TypeInv, TypeOK
  <2> QED BY <2>1, <2>3
          DEF TypeInv, TypeOK, EntriesKnown, KeyTaken, caches, thread, bounds
<1>3. CASE Restart
  <2>1. 0 \in Slots /\ 0 \in 0..MaxVersion
    BY FilesAssumption DEF ProbeAssumption, Slots
  <2>2. TypeOK'
    BY <1>3, <2>1 DEF Restart, TypeInv, TypeOK, FilesTypeOK, EmptySlot, ProbeAssumption
  <2>3. EntriesKnown' /\ KeyTaken'
    BY <1>3 DEF Restart, EntriesKnown, KeyTaken, EmptySlot
  <2> QED BY <2>2, <2>3 DEF TypeInv
<1>4. CASE UNCHANGED vars
  BY <1>4 DEF vars, TypeInv, TypeOK, FilesTypeOK, EntriesKnown, KeyTaken
<1> QED BY <1>1, <1>2, <1>3, <1>4 DEF Next

(* Every variable keeps its type; in particular a call that answers, or    *)
(* stores, has metadata, whatever hit or failed before.                    *)
THEOREM TypeCorrect == ASSUME ProbeAssumption PROVE Spec => []TypeOK
<1>1. Init => TypeInv
  BY InitType
<1>2. TypeInv /\ [Next]_vars => TypeInv'
  BY NextType
<1>3. TypeInv => TypeOK
  BY DEF TypeInv
<1> QED BY <1>1, <1>2, <1>3, PTL DEF Spec

-----------------------------------------------------------------------------
(* Keys of a slab.  A thread that has missed in its slab still misses when *)
(* it writes there: nobody else writes to it.                              *)
StillMissing ==
  \A t \in Threads :
    pc[t] \in {"l2", "probe", "put", "fill"} /\ key[t] # NoKey
      => Holding(t, key[t]) = {}

LEMMA InitUnique == ASSUME ProbeAssumption, Init PROVE SlabKeysUnique /\ StillMissing
BY DEF Init, SlabKeysUnique, StillMissing, EmptySlot

LEMMA StepUnique ==
  ASSUME TypeInv, SlabKeysUnique, StillMissing, NEW t \in Threads, Step(t)
  PROVE  SlabKeysUnique' /\ StillMissing'
<1> USE DEF Goto, TypeInv
<1>1. ASSUME NEW p \in Paths, ProbeCachedL1(t, p) \/ ProbeCached(t, p)
      PROVE  SlabKeysUnique' /\ StillMissing'
  <2>1. slab' = slab /\ key[t] = NoKey
    BY <1>1 DEF ProbeCachedL1, ProbeCached, Begin, caches, KeyTaken
  <2>2. \/ pc' = [pc EXCEPT ![t] = "l1"] /\ key' = [key EXCEPT ![t] = cache_key(p)]
        \/ pc' = [pc EXCEPT ![t] = "l2"] /\ key' = key
    BY <1>1 DEF ProbeCachedL1, ProbeCached
  <2>3. SlabKeysUnique'
    BY <2>1 DEF SlabKeysUnique
  <2>4. StillMissing'
    BY <2>1, <2>2 DEF StillMissing, Holding, TypeOK
  <2> QED BY <2>3, <2>4
<1>2. ASSUME NEW p \in Paths, L1Invalidate(t, p)
      PROVE  SlabKeysUnique' /\ StillMissing'
  <2>1. UNCHANGED <<pc, key>> /\ pc[t] = "idle"
    BY <1>2 DEF L1Invalidate, thread
  <2>2. \A u \in Threads : \A i \in Slots :
          \/ slab'[u][i] = slab[u][i]
          \/ u = t /\ slab'[u][i].key = NoKey
    BY <1>2 DEF L1Invalidate, TypeOK, EmptySlot
  <2> QED BY <2>1, <2>2 DEF SlabKeysUnique, StillMissing, Holding
<1>3. CASE L1Hit(t) \/ L1Miss(t) \/ L2Miss(t) \/ L2Fails(t) \/ Probe(t)
  <2>1. UNCHANGED <<slab, key>>
    BY <1>3 DEF L1Hit, L1Miss, L2Miss, L2Fails, Probe, caches
  <2>2. SlabKeysUnique'
    BY <2>1 DEF SlabKeysUnique
  <2>3. CASE L1Miss(t)
    <3>1. Holding(t, key[t]) = {} /\ pc' = [pc EXCEPT ![t] = "l2"]
      BY <2>3 DEF L1Miss
    <3> QED BY <2>1, <2>2, <3>1 DEF StillMissing, Holding, TypeOK
  <2>4. CASE ~L1Miss(t)
    <3>1. \/ pc' = [pc EXCEPT ![t] = "answer"]
          \/ pc[t] \in {"l2", "probe"} /\ pc' \in {[pc EXCEPT ![t] = "probe"],
                                                   [pc EXCEPT ![t] = "put"]}
      BY <1>3, <2>4 DEF L1Hit, L2Miss, L2Fails, Probe
    <3> QED BY <2>1, <2>2, <3>1 DEF StillMissing, Holding, TypeOK
  <2> QED BY <2>3, <2>4
<1>4. CASE Fill(t)
  <2>1. Holding(t, key[t]) = {}
    BY <1>4 DEF Fill, KeyTaken, StillMissing
  <2>2. \A u \in Threads : \A i \in Slots :
          \/ slab'[u][i] = slab[u][i]
          \/ u = t /\ i = next[t] /\ slab'[u][i].key = key[t]
    BY <1>4 DEF Fill, SlabInsert, TypeOK
  <2>3. SlabKeysUnique'
    BY <2>1, <2>2 DEF SlabKeysUnique, Holding
  <2>4. UNCHANGED key /\ pc' = [pc EXCEPT ![t] = "answer"]
    BY <1>4 DEF Fill
  <2>5. StillMissing'
    BY <2>2, <2>4 DEF StillMissing, Holding, TypeOK
  <2> QED BY <2>3, <2>5
<1>5. CASE Answer(t) \/ ProbeFails(t)
  <2>1. slab' = slab /\ Return(t)
    BY <1>5 DEF Answer, ProbeFails, caches
  <2> QED BY <2>1 DEF Return, TypeOK, SlabKeysUnique, StillMissing, Holding
<1>6. CASE L2Hit(t) \/ Put(t) \/ PutFails(t)
  BY <1>6 DEF L2Hit, Put, PutFails, Found, TypeOK, caches,
     SlabKeysUnique, StillMissing, Holding
<1> QED BY <1>1, <1>2, <1>3, <1>4, <1>5, <1>6 DEF Step

LEMMA NextUnique ==
  ASSUME TypeInv, SlabKeysUnique, StillMissing, [Next]_vars
  PROVE  SlabKeysUnique' /\ StillMissing'
<1>1. ASSUME NEW t \in Threads, Step(t) PROVE SlabKeysUnique' /\ StillMissing'
  BY <1>1, StepUnique
<1>2. ASSUME NEW p \in Paths, Environment(p) PROVE SlabKeysUnique' /\ StillMissing'
  BY <1>2 DEF Environment, caches, thread, SlabKeysUnique, StillMissing, Holding
<1>3. CASE Restart
  BY <1>3 DEF Restart, EmptySlot, SlabKeysUnique, StillMissing
<1>4. CASE UNCHANGED vars
  BY <1>4 DEF vars, SlabKeysUnique, StillMissing, Holding
<1> QED BY <1>1, <1>2, <1>3, <1>4 DEF Next

(* No slab ever holds a key twice, although insert does not look for it,   *)
(* for any number of threads and any size of the slab.                     *)
THEOREM SlabUnique == ASSUME ProbeAssumption PROVE Spec => []SlabKeysUnique
<1>1. Init => TypeInv /\ SlabKeysUnique /\ StillMissing
  BY InitType, InitUnique
<1>2. TypeInv /\ SlabKeysUnique /\ StillMissing /\ [Next]_vars
        => TypeInv' /\ SlabKeysUnique' /\ StillMissing'
  BY NextType, NextUnique
<1> QED BY <1>1, <1>2, PTL DEF Spec

-----------------------------------------------------------------------------
(* Entries of L2.  What a call is about to store is what its file is now,  *)
(* or the file has changed since and the key it would be stored under is   *)
(* blamed for that.                                                        *)
PutIsCurrent ==
  \A t \in Threads : pc[t] = "put" =>
    \/ file[path[t]].present /\ file[path[t]].version = meta[t]
    \/ cache_key(path[t]) \in raced

LEMMA StepEntries ==
  ASSUME TypeInv, StaleEntryOnlyIfRaced, PutIsCurrent, NEW t \in Threads, Step(t)
  PROVE  StaleEntryOnlyIfRaced' /\ PutIsCurrent'
<1> USE DEF Goto, TypeInv
<1>1. UNCHANGED <<file, raced>>
  BY DEF Step, ProbeCachedL1, ProbeCached, L1Invalidate, L1Hit, L1Miss, Fill,
     Answer, L2Hit, L2Miss, L2Fails, Probe, ProbeFails, Put, PutFails
<1>2. PutIsCurrent'
  <2>1. CASE Probe(t)
    BY <1>1, <2>1 DEF Probe, PutIsCurrent, TypeOK, cache_key
  <2>2. CASE ~Probe(t)
    <3>1. \A u \in Threads : pc'[u] = "put" =>
            pc[u] = "put" /\ path'[u] = path[u] /\ meta'[u] = meta[u]
      BY <2>2 DEF Step, ProbeCachedL1, ProbeCached, Begin, L1Invalidate, L1Hit,
         L1Miss, Fill, Answer, L2Hit, L2Miss, L2Fails, ProbeFails, Put,
         PutFails, Found, Return, thread, TypeOK
    <3> QED BY <1>1, <3>1 DEF PutIsCurrent, cache_key
  <2> QED BY <2>1, <2>2
<1>3. StaleEntryOnlyIfRaced'
  <2>1. CASE Put(t)
    <3>1. path[t] \in Paths /\ meta[t] \in Metas /\ FilesTypeOK
      BY <2>1 DEF Put, TypeOK
    <3> DEFINE k == cache_key(path[t])
    <3>2. k \in raced \/ (StampIn(k) # NoStamp /\ StampIn(k) = Stamp[meta[t]])
      <4>1. CASE file[path[t]].present /\ file[path[t]].version = meta[t]
        <5>1. StampIn(k) = Stamp[meta[t]]
          BY <3>1, <4>1, KeyOfPath
        <5>2. Stamp[meta[t]] \in 1..MaxVersion
          BY <3>1, FilesAssumption DEF Metas
        <5> QED BY <5>1, <5>2 DEF NoStamp
      <4>2. CASE cache_key(path[t]) \in raced
        BY <4>2
      <4> QED BY <2>1, <4>1, <4>2 DEF Put, PutIsCurrent
    <3>3. Stamp[meta[t]] \in Nat
      BY <3>1, FilesAssumption DEF Metas
    <3>4. \A j \in Keys : l2'[j] # NoMeta =>
            l2'[j] = l2[j] \/ (j = k /\ l2'[j] = meta[t])
      BY <2>1 DEF Put, TypeOK
    <3> HIDE DEF k
    <3> QED BY <1>1, <3>2, <3>3, <3>4 DEF StaleEntryOnlyIfRaced
  <2>2. CASE ~Put(t)
    <3>1. l2' = l2
      BY <2>2 DEF Step, ProbeCachedL1, ProbeCached, L1Invalidate, L1Hit, L1Miss,
         Fill, Answer, L2Hit, L2Miss, L2Fails, Probe, ProbeFails, PutFails, caches
    <3> QED BY <1>1, <3>1 DEF StaleEntryOnlyIfRaced
  <2> QED BY <2>1, <2>2
<1> QED BY <1>2, <1>3

LEMMA NextEntries ==
  ASSUME TypeInv, StaleEntryOnlyIfRaced, PutIsCurrent, [Next]_vars
  PROVE  StaleEntryOnlyIfRaced' /\ PutIsCurrent'
<1>1. ASSUME NEW t \in Threads, Step(t)
      PROVE  StaleEntryOnlyIfRaced' /\ PutIsCurrent'
  BY <1>1, StepEntries
<1>2. ASSUME NEW p \in Paths, Environment(p)
      PROVE  StaleEntryOnlyIfRaced' /\ PutIsCurrent'
  <2>1. UNCHANGED <<caches, thread, bounds>> /\ raced \subseteq raced'
    BY <1>2 DEF Environment
  <2>2. StaleEntryOnlyIfRaced'
    BY <2>1 DEF StaleEntryOnlyIfRaced, caches
  <2>3. PutIsCurrent'
    <3> SUFFICES ASSUME NEW t \in Threads, pc[t] = "put"
                 PROVE  \/ file'[path[t]].present /\ file'[path[t]].version = meta[t]
                        \/ cache_key(path[t])' \in raced'
      BY <2>1 DEF PutIsCurrent, thread, cache_key
    <3>1. CASE path[t] = p
      <4>1. raced' = raced \cup {cache_key(p)'}
        BY <1>2, <3>1 DEF Environment
      <4> QED BY <2>1, <3>1, <4>1 DEF thread, cache_key
    <3>2. CASE path[t] # p
      <4>1. file'[path[t]] = file[path[t]]
        BY <1>2, <3>2, FileChange DEF Environment, TypeInv, TypeOK
      <4> QED BY <2>1, <4>1 DEF PutIsCurrent, thread, cache_key
    <3> QED BY <3>1, <3>2
  <2> QED BY <2>2, <2>3
<1>3. CASE Restart
  BY <1>3 DEF Restart, StaleEntryOnlyIfRaced, PutIsCurrent
<1>4. CASE UNCHANGED vars
  BY <1>4 DEF vars, StaleEntryOnlyIfRaced, PutIsCurrent, cache_key
<1> QED BY <1>1, <1>2, <1>3, <1>4 DEF Next

(* Metadata in L2 is older than its key says only where the file changed   *)
(* between a probe and its put, across restarts, evictions and failures.   *)
THEOREM StaleEntries == ASSUME ProbeAssumption PROVE Spec => []StaleEntryOnlyIfRaced
<1>1. Init => TypeInv /\ StaleEntryOnlyIfRaced /\ PutIsCurrent
  BY InitType DEF Init, StaleEntryOnlyIfRaced, PutIsCurrent
<1>2. TypeInv /\ StaleEntryOnlyIfRaced /\ PutIsCurrent /\ [Next]_vars
        => TypeInv' /\ StaleEntryOnlyIfRaced' /\ PutIsCurrent'
  BY NextType, NextEntries
<1> QED BY <1>1, <1>2, PTL DEF Spec
-----------------------------------------------------------------------------
(* Answers.  Metadata m for path p is older than stamp s only if a key of  *)
(* the path is to blame: one without a stamp, or with a stamp no older.    *)
Blamed(m, p, s) ==
  Stamp[m] < s =>
    \E k \in raced : PathOf(k) = p /\ (StampIn(k) = NoStamp \/ StampIn(k) >= s)

(* A call knows what its file was when it began, by its key and by asOf,   *)
(* and the file has not become older since.                                *)
CallsKnow ==
  \A t \in Threads :
    /\ asOf[t] # 0 => /\ pc[t] # "idle"
                      /\ file[path[t]].version >= asOf[t]
    /\ key[t] # NoKey =>
         /\ pc[t] # "idle"
         /\ PathOf(key[t]) = path[t]
         /\ StampIn(key[t]) = IF asOf[t] = 0 THEN NoStamp ELSE Stamp[asOf[t]]

CallsBlamed ==
  \A t \in Threads :
    pc[t] \in {"put", "fill", "answer"} /\ asOf[t] # 0
      => Blamed(meta[t], path[t], Stamp[asOf[t]])

SlabsBlamed ==
  \A t \in Threads : \A i \in Slots :
    slab[t][i].key # NoKey /\ StampIn(slab[t][i].key) # NoStamp
      => Blamed(slab[t][i].meta, PathOf(slab[t][i].key), StampIn(slab[t][i].key))

AnswerInv == CallsKnow /\ CallsBlamed /\ SlabsBlamed

LEMMA Stamped ==
  ASSUME TypeOK, NEW t \in Threads, asOf[t] # 0
  PROVE  /\ asOf[t] \in Metas /\ Stamp[asOf[t]] \in Metas
         /\ Stamp[asOf[t]] # NoStamp
BY FilesAssumption DEF TypeOK, Metas, NoStamp

LEMMA StepKnow ==
  ASSUME TypeInv, CallsKnow, NEW t \in Threads, Step(t)
  PROVE  CallsKnow'
<1> USE DEF Goto, TypeInv
<1>1. ASSUME NEW p \in Paths, ProbeCachedL1(t, p) \/ ProbeCached(t, p)
      PROVE  CallsKnow'
  <2>1. /\ file' = file /\ path' = [path EXCEPT ![t] = p]
        /\ asOf' = [asOf EXCEPT ![t] =
                      IF file[p].present THEN file[p].version ELSE 0]
        /\ pc[t] = "idle" /\ key[t] = NoKey
        /\ \/ key' = key /\ pc' = [pc EXCEPT ![t] = "l2"]
           \/ /\ key' = [key EXCEPT ![t] = cache_key(p)]
              /\ pc' = [pc EXCEPT ![t] = "l1"]
    BY <1>1 DEF ProbeCachedL1, ProbeCached, Begin, KeyTaken
  <2>2. \A u \in Threads \ {t} :
          /\ pc'[u] = pc[u] /\ key'[u] = key[u] /\ path'[u] = path[u]
          /\ asOf'[u] = asOf[u]
    BY <2>1 DEF TypeOK
  <2>3. /\ PathOf(cache_key(p)) = p
        /\ StampIn(cache_key(p)) =
             IF file[p].present THEN Stamp[file[p].version] ELSE NoStamp
        /\ file[p].present => file[p].version \in Metas
    BY KeyOfPath DEF TypeOK
  <2>4. /\ pc'[t] # "idle" /\ path'[t] = p
        /\ asOf'[t] = IF file[p].present THEN file[p].version ELSE 0
        /\ key'[t] # NoKey => key'[t] = cache_key(p)
    BY <2>1 DEF TypeOK
  <2>5. asOf'[t] # 0 => file[p].version >= asOf'[t]
    BY <2>3, <2>4, FilesAssumption DEF Metas
  <2>6. StampIn(cache_key(p)) =
          IF asOf'[t] = 0 THEN NoStamp ELSE Stamp[asOf'[t]]
    BY <2>3, <2>4, FilesAssumption DEF Metas
  <2> QED BY <2>1, <2>2, <2>3, <2>4, <2>5, <2>6 DEF CallsKnow
<1>2. CASE Answer(t) \/ ProbeFails(t)
  <2>1. file' = file /\ Return(t)
    BY <1>2 DEF Answer, ProbeFails
  <2>2. key'[t] = NoKey /\ asOf'[t] = 0
    BY <2>1 DEF Return, TypeOK
  <2>3. \A u \in Threads \ {t} :
          /\ pc'[u] = pc[u] /\ key'[u] = key[u] /\ path'[u] = path[u]
          /\ asOf'[u] = asOf[u]
    BY <2>1 DEF Return, TypeOK
  <2> QED BY <2>1, <2>2, <2>3 DEF CallsKnow
<1>3. CASE ~(Answer(t) \/ ProbeFails(t))
             /\ ~ \E p \in Paths : ProbeCachedL1(t, p) \/ ProbeCached(t, p)
  <2>1. UNCHANGED <<file, key, path, asOf>>
    BY <1>3 DEF Step, L1Invalidate, L1Hit, L1Miss, Fill, L2Hit, L2Miss,
       L2Fails, Probe, Put, PutFails, thread
  <2>2. \A u \in Threads : pc[u] # "idle" => pc'[u] # "idle"
    BY <1>3 DEF Step, L1Invalidate, L1Hit, L1Miss, Fill, L2Hit, L2Miss,
       L2Fails, Probe, Put, PutFails, Found, thread, TypeOK
  <2> QED BY <2>1, <2>2 DEF CallsKnow
<1> QED BY <1>1, <1>2, <1>3

(* What a hit in L2 gives, and what a probe sees, is no older than the     *)
(* file was when the call began, unless an entry is to blame.              *)
LEMMA FoundBlamed ==
  ASSUME TypeInv, StaleEntryOnlyIfRaced, CallsKnow, NEW t \in Threads,
         asOf[t] # 0, L2Hit(t) \/ Probe(t)
  PROVE  Blamed(meta'[t], path[t], Stamp[asOf[t]])
<1> USE DEF TypeInv
<1>1. /\ path[t] \in Paths /\ FilesTypeOK
      /\ asOf[t] \in Metas /\ Stamp[asOf[t]] \in Metas
  BY Stamped DEF L2Hit, Probe, TypeOK
<1>2. file[path[t]].version >= asOf[t]
  BY DEF CallsKnow
<1>3. file[path[t]].present =>
        /\ file[path[t]].version \in Metas
        /\ Stamp[file[path[t]].version] >= Stamp[asOf[t]]
  <2>1. file[path[t]].present => file[path[t]].version \in Metas
    BY <1>1, KeyOfPath
  <2> QED BY <1>1, <1>2, <2>1, FilesAssumption DEF Metas
<1>4. CASE Probe(t)
  <2>1. meta'[t] = file[path[t]].version /\ file[path[t]].present
    BY <1>4 DEF Probe, TypeOK
  <2>2. Stamp[meta'[t]] \in Metas
    BY <1>3, <2>1, FilesAssumption DEF Metas
  <2>3. ~(Stamp[meta'[t]] < Stamp[asOf[t]])
    BY <1>1, <1>3, <2>1, <2>2, FilesAssumption DEF Metas
  <2> QED BY <2>3 DEF Blamed
<1>5. CASE L2Hit(t)
  <2> DEFINE k == cache_key(path[t])
  <2>1. /\ k \in Keys /\ PathOf(k) = path[t]
        /\ StampIn(k) = IF file[path[t]].present
                        THEN Stamp[file[path[t]].version] ELSE NoStamp
    BY <1>1, KeyOfPath
  <2>2. meta'[t] = l2[k] /\ l2[k] # NoMeta
    BY <1>5 DEF L2Hit, TypeOK
  <2>3. StampIn(k) = NoStamp \/ StampIn(k) >= Stamp[asOf[t]]
    BY <1>3, <2>1
  <2>4. l2[k] \in Metas
    BY <2>1, <2>2 DEF TypeOK
  <2>5. Stamp[l2[k]] \in Nat /\ Stamp[asOf[t]] \in Nat
    <3>1. \A v \in Metas : Stamp[v] \in Nat /\ v \in Nat
      BY FilesAssumption DEF Metas
    <3> HIDE DEF k
    <3> QED BY <1>1, <2>4, <3>1
  <2>6. StampIn(k) \in Nat
    BY <2>1 DEF Keys, StampIn
  <2>7. Stamp[l2[k]] < Stamp[asOf[t]] => k \in raced
    BY <2>1, <2>2, <2>3, <2>5, <2>6 DEF StaleEntryOnlyIfRaced
  <2> HIDE DEF k
  <2> QED BY <2>1, <2>2, <2>3, <2>7 DEF Blamed
<1> QED BY <1>4, <1>5

LEMMA StepBlamed ==
  ASSUME TypeInv, StaleEntryOnlyIfRaced, AnswerInv, NEW t \in Threads, Step(t)
  PROVE  CallsBlamed' /\ SlabsBlamed'
<1> USE DEF Goto, TypeInv, AnswerInv
<1>1. raced' = raced
  BY DEF Step, ProbeCachedL1, ProbeCached, L1Invalidate, L1Hit, L1Miss, Fill,
     Answer, L2Hit, L2Miss, L2Fails, Probe, ProbeFails, Put, PutFails
<1>2. CallsBlamed'
  <2>1. CASE L1Hit(t)
    <3> PICK i \in Holding(t, key[t]) : meta' = [meta EXCEPT ![t] = slab[t][i].meta]
      BY <2>1 DEF L1Hit
    <3>1. /\ UNCHANGED <<key, path, asOf>> /\ pc' = [pc EXCEPT ![t] = "answer"]
          /\ i \in Slots /\ slab[t][i].key = key[t] /\ key[t] # NoKey
          /\ meta'[t] = slab[t][i].meta
      BY <2>1 DEF L1Hit, Holding, KeyTaken, TypeOK
    <3>2. asOf[t] # 0 => Blamed(meta'[t], path[t], Stamp[asOf[t]])
      <4> SUFFICES ASSUME asOf[t] # 0
                   PROVE  Blamed(meta'[t], path[t], Stamp[asOf[t]])
        OBVIOUS
      <4>1. /\ PathOf(key[t]) = path[t] /\ StampIn(key[t]) = Stamp[asOf[t]]
            /\ StampIn(key[t]) # NoStamp
        BY <3>1, Stamped DEF CallsKnow
      <4> QED BY <3>1, <4>1 DEF SlabsBlamed
    <3>3. \A u \in Threads \ {t} : pc'[u] = pc[u] /\ meta'[u] = meta[u]
      BY <2>1, <3>1 DEF L1Hit, TypeOK
    <3> QED BY <1>1, <3>1, <3>2, <3>3 DEF CallsBlamed, Blamed
  <2>2. CASE L2Hit(t) \/ Probe(t)
    <3>1. UNCHANGED <<path, asOf>>
      BY <2>2 DEF L2Hit, Probe
    <3>2. asOf[t] # 0 => Blamed(meta'[t], path[t], Stamp[asOf[t]])
      BY <2>2, FoundBlamed
    <3>3. \A u \in Threads \ {t} : pc'[u] = pc[u] /\ meta'[u] = meta[u]
      BY <2>2 DEF L2Hit, Probe, Found, TypeOK
    <3> QED BY <1>1, <3>1, <3>2, <3>3 DEF CallsBlamed, Blamed
  <2>3. CASE ~L1Hit(t) /\ ~L2Hit(t) /\ ~Probe(t)
    <3>1. \A u \in Threads : pc'[u] \in {"put", "fill", "answer"} =>
            /\ pc[u] \in {"put", "fill", "answer"}
            /\ path'[u] = path[u] /\ meta'[u] = meta[u] /\ asOf'[u] = asOf[u]
      BY <2>3 DEF Step, ProbeCachedL1, ProbeCached, Begin, L1Invalidate,
         L1Miss, Fill, Answer, L2Miss, L2Fails, ProbeFails, Put,
         PutFails, Found, Return, thread, TypeOK
    <3> QED BY <1>1, <3>1 DEF CallsBlamed, Blamed
  <2> QED BY <2>1, <2>2, <2>3
<1>3. SlabsBlamed'
  <2>1. CASE Fill(t)
    <3>1. \A u \in Threads : \A i \in Slots :
            \/ slab'[u][i] = slab[u][i]
            \/ slab'[u][i] = [key |-> key[t], meta |-> meta[t]]
      BY <2>1 DEF Fill, SlabInsert, TypeOK
    <3>2. key[t] # NoKey /\ StampIn(key[t]) # NoStamp =>
            Blamed(meta[t], PathOf(key[t]), StampIn(key[t]))
      BY <2>1 DEF Fill, CallsKnow, CallsBlamed
    <3> QED BY <1>1, <3>1, <3>2 DEF SlabsBlamed, Blamed
  <2>2. CASE ~Fill(t)
    <3>1. \A u \in Threads : \A i \in Slots :
            slab'[u][i] = slab[u][i] \/ slab'[u][i].key = NoKey
      <4>1. ASSUME NEW p \in Paths, L1Invalidate(t, p)
            PROVE  \A u \in Threads : \A i \in Slots :
                     slab'[u][i] = slab[u][i] \/ slab'[u][i].key = NoKey
        BY <4>1 DEF L1Invalidate, TypeOK, EmptySlot
      <4>2. CASE ~ \E p \in Paths : L1Invalidate(t, p)
        <5>1. slab' = slab
          BY <2>2, <4>2 DEF Step, ProbeCachedL1, ProbeCached, L1Hit, L1Miss,
             Answer, L2Hit, L2Miss, L2Fails, Probe, ProbeFails, Put, PutFails,
             caches
        <5> QED BY <5>1
      <4> QED BY <4>1, <4>2
    <3> QED BY <1>1, <3>1 DEF SlabsBlamed, Blamed
  <2> QED BY <2>1, <2>2
<1> QED BY <1>2, <1>3

LEMMA NextAnswers ==
  ASSUME TypeInv, StaleEntryOnlyIfRaced, AnswerInv, [Next]_vars
  PROVE  AnswerInv'
<1> USE DEF AnswerInv
<1>1. ASSUME NEW t \in Threads, Step(t) PROVE AnswerInv'
  BY <1>1, StepKnow, StepBlamed
<1>2. ASSUME NEW p \in Paths, Environment(p) PROVE AnswerInv'
  <2>1. UNCHANGED <<caches, thread, bounds>> /\ raced \subseteq raced'
    BY <1>2 DEF Environment
  <2>2. CallsBlamed' /\ SlabsBlamed'
    BY <2>1 DEF CallsBlamed, SlabsBlamed, Blamed, caches, thread
  <2>3. FilesTypeOK' /\ \A q \in Paths : file'[q].version >= file[q].version
    BY <1>2, FileChange DEF Environment, TypeInv, TypeOK
  <2>4. \A t \in Threads : asOf[t] # 0 => file'[path[t]].version >= asOf[t]
    <3> TAKE t \in Threads
    <3> HAVE asOf[t] # 0
    <3>1. path[t] \in Paths /\ asOf[t] \in Metas
      BY Stamped DEF TypeInv, TypeOK, CallsKnow
    <3>2. file[path[t]].version \in Nat /\ file'[path[t]].version \in Nat
      BY <2>3, <3>1, FilesAssumption DEF FilesTypeOK, File, TypeInv, TypeOK
    <3> QED BY <2>3, <3>1, <3>2 DEF CallsKnow, Metas
  <2>5. CallsKnow'
    BY <2>1, <2>4 DEF CallsKnow, thread
  <2> QED BY <2>2, <2>5
<1>3. CASE Restart
  BY <1>3 DEF Restart, EmptySlot, CallsKnow, CallsBlamed, SlabsBlamed
<1>4. CASE UNCHANGED vars
  BY <1>4 DEF vars, CallsKnow, CallsBlamed, SlabsBlamed, Blamed
<1> QED BY <1>1, <1>2, <1>3, <1>4 DEF Next

(* An answer older, by its stamp, than the file was when the call began    *)
(* goes back to a file that changed between a probe and its put, whichever *)
(* of the two caches it came from and however long ago it was stored.      *)
THEOREM StaleAnswers == ASSUME ProbeAssumption PROVE Spec => []StaleAnswerOnlyIfRaced
<1>1. Init => TypeInv /\ StaleEntryOnlyIfRaced /\ PutIsCurrent /\ AnswerInv
  BY InitType DEF Init, StaleEntryOnlyIfRaced, PutIsCurrent, AnswerInv,
     CallsKnow, CallsBlamed, SlabsBlamed, EmptySlot
<1>2. TypeInv /\ StaleEntryOnlyIfRaced /\ PutIsCurrent /\ AnswerInv /\ [Next]_vars
        => TypeInv' /\ StaleEntryOnlyIfRaced' /\ PutIsCurrent' /\ AnswerInv'
  BY NextType, NextEntries, NextAnswers
<1>3. AnswerInv => StaleAnswerOnlyIfRaced
  BY DEF AnswerInv, CallsBlamed, Blamed, StaleAnswerOnlyIfRaced, Answered
<1> QED BY <1>1, <1>2, <1>3, PTL DEF Spec
=============================================================================
