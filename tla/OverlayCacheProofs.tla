------------------------- MODULE OverlayCacheProofs -------------------------
(***************************************************************************)
(* Theorems about OverlayCache for any threads, paths and limits.          *)
(***************************************************************************)
EXTENDS OverlayCache, FiniteSetTheorems, SequenceTheorems, TLAPS

-----------------------------------------------------------------------------
(* The recency list.                                                       *)

(* A key that is on the list has a first position. *)
LEMMA IndexOfFirst ==
  ASSUME NEW S, NEW s \in Seq(S), NEW k \in ToSet(s)
  PROVE  IndexOf(s, k) \in 1..Len(s) /\ s[IndexOf(s, k)] = k
PROOF
<1> DEFINE T == {i \in 1..Len(s) : s[i] = k}
<1>1. T # {} /\ T \subseteq Nat
  BY LenProperties DEF ToSet
<1>2. PICK x \in T : \A y \in T : ~(<<y, x>> \in OpToRel(<, Nat))
  <2> HIDE DEF T
  <2> QED BY <1>1, NatLessThanWellFounded, WFMin, Zenon
<1>3. \A y \in T : ~(y < x)
  BY <1>1, <1>2 DEF OpToRel
<1>4. \A j \in 1..(x-1) : s[j] # k
  BY <1>3, LenProperties
<1>5. x \in 1..Len(s) /\ s[x] = k /\ \A j \in 1..(x-1) : s[j] # k
  BY <1>2, <1>4
<1> QED BY <1>5 DEF IndexOf

LEMMA RemoveAtProperties ==
  ASSUME NEW S, NEW s \in Seq(S), NEW i \in 1..Len(s)
  PROVE  /\ RemoveAt(s, i) \in Seq(S)
         /\ Len(RemoveAt(s, i)) = Len(s) - 1
         /\ ToSet(s) \ {s[i]} \subseteq ToSet(RemoveAt(s, i))
PROOF
<1> DEFINE a == SubSeq(s, 1, i-1)
           b == SubSeq(s, i+1, Len(s))
           r == a \o b
<1>0. Len(s) \in Nat /\ i \in Int
  BY LenProperties
<1>1. \A j \in 1..Len(s) : s[j] \in S
  BY ElementOfSeq
<1>2. /\ a \in Seq(S) /\ Len(a) = i - 1
      /\ \A j \in 1..(i-1) : a[j] = s[j]
  <2>1. \A j \in 1..(i-1) : s[j] \in S
    BY <1>0, <1>1
  <2> QED BY <2>1, <1>0, SubSeqProperties
<1>3. /\ b \in Seq(S) /\ Len(b) = Len(s) - i
      /\ \A j \in 1..(Len(s)-i) : b[j] = s[i+j]
  <2>1. \A j \in (i+1)..Len(s) : s[j] \in S
    BY <1>0, <1>1
  <2> QED BY <2>1, <1>0, SubSeqProperties
<1>4. /\ r \in Seq(S) /\ Len(r) = Len(s) - 1
      /\ \A j \in 1..(Len(s)-1) : r[j] = IF j <= i-1 THEN a[j] ELSE b[j-(i-1)]
  <2> HIDE DEF a, b
  <2>1. /\ a \o b \in Seq(S) /\ Len(a \o b) = Len(a) + Len(b)
        /\ \A j \in 1..(Len(a) + Len(b)) :
             (a \o b)[j] = IF j <= Len(a) THEN a[j] ELSE b[j - Len(a)]
    BY <1>2, <1>3, ConcatProperties
  <2>2. Len(a) = i - 1 /\ Len(a) + Len(b) = Len(s) - 1
    BY <1>0, <1>2, <1>3
  <2> QED BY <2>1, <2>2
<1>5. ASSUME NEW j \in 1..Len(s), s[j] # s[i]
      PROVE  \E m \in 1..Len(r) : r[m] = s[j]
  <2> HIDE DEF a, b, r
  <2>1. CASE j < i
    BY <2>1, <1>0, <1>2, <1>4
  <2>2. CASE j > i
    <3>1. /\ j - 1 \in 1..Len(r) /\ ~(j - 1 <= i - 1)
          /\ (j-1) - (i-1) = j - i /\ j - i \in 1..(Len(s)-i)
      BY <2>2, <1>0, <1>4
    <3>2. r[j-1] = b[j-i]
      BY <3>1, <1>0, <1>4
    <3> QED BY <3>1, <3>2, <1>0, <1>3
  <2> QED BY <2>1, <2>2, <1>0, <1>5
<1>6. RemoveAt(s, i) = r
  BY DEF RemoveAt
<1> HIDE DEF r
<1>7. DOMAIN r = 1..Len(r) /\ DOMAIN s = 1..Len(s)
  BY <1>4, LenProperties
<1>8. ToSet(s) \ {s[i]} \subseteq ToSet(r)
  BY <1>5, <1>7 DEF ToSet
<1> QED BY <1>4, <1>6, <1>8

LEMMA UnlistProperties ==
  ASSUME NEW s \in Seq(Keys), NEW k
  PROVE  /\ Unlist(s, k) \in Seq(Keys)
         /\ Len(Unlist(s, k)) = IF k \in ToSet(s) THEN Len(s) - 1 ELSE Len(s)
         /\ ToSet(s) \ {k} \subseteq ToSet(Unlist(s, k))
PROOF
<1>1. CASE k \in ToSet(s)
  BY <1>1, IndexOfFirst, RemoveAtProperties DEF Unlist
<1>2. CASE k \notin ToSet(s)
  BY <1>2 DEF Unlist
<1> QED BY <1>1, <1>2

LEMMA AppendToSet ==
  ASSUME NEW S, NEW s \in Seq(S), NEW e \in S
  PROVE  ToSet(Append(s, e)) = ToSet(s) \cup {e}
PROOF
<1>1. /\ DOMAIN s = 1..Len(s) /\ Len(s) \in Nat
      /\ DOMAIN Append(s, e) = 1..(Len(s) + 1)
      /\ \A i \in 1..Len(s) : Append(s, e)[i] = s[i]
      /\ Append(s, e)[Len(s)+1] = e
  BY LenProperties, AppendProperties
<1>2. ToSet(Append(s, e)) \subseteq ToSet(s) \cup {e}
  <2>1. ASSUME NEW i \in 1..(Len(s)+1)
        PROVE  Append(s, e)[i] \in ToSet(s) \cup {e}
    <3>1. i \in 1..Len(s) \/ i = Len(s) + 1
      BY <1>1
    <3> QED BY <3>1, <1>1 DEF ToSet
  <2> QED BY <2>1, <1>1 DEF ToSet
<1>3. ToSet(s) \cup {e} \subseteq ToSet(Append(s, e))
  <2>1. 1..Len(s) \subseteq 1..(Len(s)+1) /\ Len(s)+1 \in 1..(Len(s)+1)
    BY <1>1
  <2> QED BY <2>1, <1>1 DEF ToSet
<1> QED BY <1>2, <1>3

LEMMA TailToSet ==
  ASSUME NEW S, NEW s \in Seq(S), s # << >>
  PROVE  /\ Tail(s) \in Seq(S) /\ Head(s) \in S
         /\ Len(Tail(s)) = Len(s) - 1
         /\ ToSet(s) \ {Head(s)} \subseteq ToSet(Tail(s))
PROOF
<1>1. /\ Tail(s) \in Seq(S) /\ Head(s) \in S
      /\ Len(Tail(s)) = Len(s) - 1 /\ Len(s) \in Nat
      /\ \A i \in 1..Len(Tail(s)) : Tail(s)[i] = s[i+1]
  BY HeadTailProperties, LenProperties
<1>2. /\ DOMAIN s = 1..Len(s) /\ DOMAIN Tail(s) = 1..Len(Tail(s))
      /\ Head(s) = s[1]
  BY <1>1, LenProperties
<1>3. ASSUME NEW j \in 1..Len(s), s[j] # Head(s)
      PROVE  s[j] \in ToSet(Tail(s))
  <2>1. j - 1 \in 1..Len(Tail(s)) /\ (j-1)+1 = j
    BY <1>1, <1>2, <1>3
  <2> QED BY <2>1, <1>1, <1>2 DEF ToSet
<1> QED BY <1>1, <1>2, <1>3 DEF ToSet

(* A list of n entries names at most n keys. *)
LEMMA ListedIsFinite ==
  ASSUME NEW S, NEW s \in Seq(S)
  PROVE  IsFiniteSet(ToSet(s)) /\ Cardinality(ToSet(s)) <= Len(s)
PROOF
<1>1. Len(s) \in Nat /\ DOMAIN s = 1..Len(s) /\ s \in [1..Len(s) -> ToSet(s)]
  BY LenProperties DEF ToSet
<1>2. s \in Surjection(1..Len(s), ToSet(s))
  BY <1>1 DEF Surjection, ToSet
<1>3. IsFiniteSet(1..Len(s)) /\ Cardinality(1..Len(s)) = Len(s)
  BY <1>1, FS_Interval
<1> QED BY <1>2, <1>3, FS_Surjection

-----------------------------------------------------------------------------
(* Type correctness.                                                       *)

LEMMA KeyTyped ==
  ASSUME FilesTypeOK, NEW p \in Paths
  PROVE  cache_key(p) \in Keys /\ PathOf(cache_key(p)) = p
PROOF
<1>1. IF file[p].present
      THEN Stamp[file[p].version] \in 0..MaxVersion
      ELSE NoStamp \in 0..MaxVersion
  BY FilesAssumption DEF FilesTypeOK, File, NoStamp
<1> QED BY <1>1 DEF cache_key, Keys, PathOf

LEMMA KeyPath ==
  ASSUME NEW k \in Keys
  PROVE  PathOf(k) \in Paths
BY DEF Keys, PathOf

LEMMA FilesStep ==
  ASSUME FilesTypeOK, NEW p \in Paths, ReplaceFile(p) \/ DeleteFile(p)
  PROVE  FilesTypeOK'
PROOF
<1>1. CASE ReplaceFile(p)
  <2>1. file[p].version \in 0..MaxVersion /\ file[p].version < MaxVersion
    BY <1>1 DEF FilesTypeOK, File, ReplaceFile
  <2>2. /\ file[p].version + 1 \in 0..MaxVersion
        /\ file[p].version + 1 > 0
    <3>1. \A v \in 0..MaxVersion :
            v < MaxVersion => v + 1 \in 0..MaxVersion /\ v + 1 > 0
      BY FilesAssumption
    <3> QED BY <2>1, <3>1
  <2>3. file' = [file EXCEPT ![p] =
                   [version |-> file[p].version + 1, present |-> TRUE]]
    BY <1>1 DEF ReplaceFile
  <2> QED BY <2>2, <2>3 DEF FilesTypeOK, File
<1>2. CASE DeleteFile(p)
  BY <1>2 DEF FilesTypeOK, File, DeleteFile
<1> QED BY <1>1, <1>2

LEMMA InitType == Init => TypeOK
PROOF
<1> SUFFICES ASSUME Init PROVE TypeOK
  OBVIOUS
<1>1. FilesTypeOK
  BY FilesAssumption DEF Init, FilesInit, FilesTypeOK, File
<1>2. order \in Seq(Keys)
  BY EmptySeq DEF Init
<1> QED BY <1>1, <1>2, FilesAssumption
        DEF Init, TypeOK, Assets, NoAsset, NoKey

(* What a thread that ends its call leaves behind. *)
LEMMA FinishType ==
  ASSUME TypeOK, NEW t \in Threads, Finish(t)
  PROVE  /\ pc' \in [Threads ->
              {"idle", "lookup", "touch", "decode", "insert", "remove"}]
         /\ key' \in [Threads -> Keys \cup {NoKey}]
         /\ asset' \in [Threads -> Assets \cup {NoAsset}]
         /\ asOf' \in [Threads -> 0..MaxVersion]
         /\ \A u \in Threads :
              /\ pc'[u] # "idle" => key'[u] \in Keys
              /\ pc'[u] \in {"touch", "insert"} => asset'[u] \in Assets
BY FilesAssumption DEF TypeOK, Finish

(* The store and the list after eviction. *)
LEMMA EvictType ==
  ASSUME TypeOK
  PROVE  /\ AfterEvict.store \in [Keys -> Assets \cup {NoAsset}]
         /\ AfterEvict.order \in Seq(Keys)
PROOF
<1>1. CASE MustEvict
  BY <1>1, TailToSet DEF AfterEvict, MustEvict, TypeOK
<1>2. CASE ~MustEvict
  BY <1>2 DEF AfterEvict, TypeOK
<1> QED BY <1>1, <1>2

LEMMA StepType ==
  ASSUME TypeOK, [Next]_vars
  PROVE  TypeOK'
PROOF
<1>1. ASSUME NEW t \in Threads, NEW p \in Paths, GetOrDecode(t, p)
      PROVE  TypeOK'
  <2>1. cache_key(p) \in Keys
    BY KeyTyped DEF TypeOK
  <2>2. (IF file[p].present THEN file[p].version ELSE 0) \in 0..MaxVersion
    BY FilesAssumption DEF TypeOK, FilesTypeOK, File
  <2> QED BY <1>1, <2>1, <2>2
          DEF TypeOK, GetOrDecode, FilesTypeOK, counters
<1>2. ASSUME NEW t \in Threads, NEW p \in Paths, BeginInvalidate(t, p)
      PROVE  TypeOK'
  <2>1. cache_key(p) \in Keys
    BY KeyTyped DEF TypeOK
  <2> QED BY <1>2, <2>1 DEF TypeOK, BeginInvalidate, FilesTypeOK, counters
<1>3. ASSUME NEW t \in Threads, LookupHit(t)
      PROVE  TypeOK'
  BY <1>3 DEF TypeOK, LookupHit, FilesTypeOK, NoAsset, Assets
<1>4. ASSUME NEW t \in Threads, LookupMiss(t)
      PROVE  TypeOK'
  BY <1>4 DEF TypeOK, LookupMiss, FilesTypeOK
<1>5. ASSUME NEW t \in Threads, Touch(t)
      PROVE  TypeOK'
  <2>1. key[t] \in Keys
    BY <1>5 DEF Touch, TypeOK
  <2>2. touch(order, key[t]) \in Seq(Keys)
    BY <2>1, UnlistProperties, AppendProperties DEF touch, TypeOK
  <2>3. order' \in Seq(Keys) /\ Finish(t)
    BY <1>5, <2>2 DEF Touch
  <2> QED BY <1>5, <2>3, FinishType DEF TypeOK, Touch, FilesTypeOK, counters
<1>6. ASSUME NEW t \in Threads, Decode(t)
      PROVE  TypeOK'
  <2>1. file[PathOf(key[t])].version \in Assets
    BY <1>6, KeyPath DEF Decode, TypeOK, FilesTypeOK, File, Assets
  <2> QED BY <1>6, <2>1 DEF TypeOK, Decode, FilesTypeOK, counters
<1>7. ASSUME NEW t \in Threads, DecodeFails(t)
      PROVE  TypeOK'
  BY <1>7, FinishType DEF TypeOK, DecodeFails, FilesTypeOK, counters
<1>8. ASSUME NEW t \in Threads, Insert(t)
      PROVE  TypeOK'
  <2>1. key[t] \in Keys /\ asset[t] \in Assets /\ Finish(t)
    BY <1>8 DEF Insert, TypeOK
  <2>2. store' \in [Keys -> Assets \cup {NoAsset}] /\ order' \in Seq(Keys)
    BY <1>8, <2>1, EvictType, AppendProperties DEF Insert, insert
  <2>3. evictions' \in Nat /\ redundant' \in Nat
    BY <1>8 DEF Insert, insert, TypeOK
  <2> QED BY <1>8, <2>1, <2>2, <2>3, FinishType DEF TypeOK, Insert, FilesTypeOK
<1>9. ASSUME NEW t \in Threads, Invalidate(t)
      PROVE  TypeOK'
  <2>1. key[t] \in Keys /\ Finish(t)
    BY <1>9 DEF Invalidate, TypeOK
  <2>2. store' \in [Keys -> Assets \cup {NoAsset}] /\ order' \in Seq(Keys)
    <3>1. store \in [Keys -> Assets \cup {NoAsset}] /\ order \in Seq(Keys)
      BY DEF TypeOK
    <3>2. Unlist(order, key[t]) \in Seq(Keys)
      BY <3>1, UnlistProperties
    <3> QED BY <1>9, <2>1, <3>1, <3>2 DEF Invalidate
  <2> QED BY <1>9, <2>1, <2>2, FinishType
          DEF TypeOK, Invalidate, FilesTypeOK, counters
<1>10. ASSUME NEW t \in Threads, Clear(t)
       PROVE  TypeOK'
  <2>1. order' \in Seq(Keys)
    BY <1>10, EmptySeq DEF Clear
  <2> QED BY <1>10, <2>1 DEF TypeOK, Clear, FilesTypeOK, counters, thread
<1>11. ASSUME NEW p \in Paths, Environment(p)
       PROVE  TypeOK'
  BY <1>11, FilesStep DEF TypeOK, Environment, counters, thread
<1>12. CASE UNCHANGED vars
  BY <1>12 DEF TypeOK, FilesTypeOK, vars
<1> QED BY <1>1, <1>2, <1>3, <1>4, <1>5, <1>6, <1>7, <1>8, <1>9, <1>10,
           <1>11, <1>12 DEF Next, Step

(* Every reachable state has the types the code declares. *)
THEOREM TypeCorrect == Spec => []TypeOK
PROOF
<1>1. TypeOK /\ [Next]_vars => TypeOK'
  BY StepType
<1> QED BY <1>1, InitType, PTL DEF Spec

-----------------------------------------------------------------------------
(* The list bounds the store.                                              *)

ListInv == CachedIsListed /\ ListBound

LEMMA CachedIsFinite ==
  ASSUME TypeOK, CachedIsListed
  PROVE  /\ IsFiniteSet(Cached) /\ Cardinality(Cached) \in Nat
         /\ Cardinality(Cached) <= Len(order) /\ Len(order) \in Nat
PROOF
<1>1. order \in Seq(Keys)
  BY DEF TypeOK
<1>2. IsFiniteSet(ToSet(order)) /\ Cardinality(ToSet(order)) <= Len(order)
  BY <1>1, ListedIsFinite
<1>3. IsFiniteSet(Cached) /\ Cardinality(Cached) <= Cardinality(ToSet(order))
  BY <1>2, FS_Subset DEF CachedIsListed
<1> QED BY <1>1, <1>2, <1>3, FS_CardinalityType, LenProperties

(* The keys of an arbitrary store. *)
KeysIn(s) == {k \in Keys : s[k] # NoAsset}

(* Eviction gives up at most one entry, with its place on the list, and    *)
(* leaves room on the list for one more.                                   *)
LEMMA EvictBounds ==
  ASSUME TypeOK, ListInv
  PROVE  LET S == KeysIn(AfterEvict.store)
             L == Len(AfterEvict.order)
         IN  /\ S \subseteq ToSet(AfterEvict.order)
             /\ IsFiniteSet(S) /\ Cardinality(S) \in Nat /\ L \in Nat
             /\ L <= Cardinality(S) + redundant
             /\ L + 1 <= MaxEntries + redundant
PROOF
<1> DEFINE S == KeysIn(AfterEvict.store)
           L == Len(AfterEvict.order)
<1>1. /\ IsFiniteSet(Cached) /\ Cardinality(Cached) \in Nat
      /\ Cardinality(Cached) <= Len(order) /\ Len(order) \in Nat
  BY CachedIsFinite DEF ListInv
<1>2. /\ order \in Seq(Keys) /\ redundant \in Nat /\ MaxEntries \in Nat \ {0}
      /\ store \in [Keys -> Assets \cup {NoAsset}]
  BY OverlayAssumption DEF TypeOK
<1>3. CASE MustEvict
  <2>1. /\ AfterEvict.store = [store EXCEPT ![Head(order)] = NoAsset]
        /\ AfterEvict.order = Tail(order)
    BY <1>3 DEF AfterEvict
  <2>2. /\ Head(order) \in Keys /\ Tail(order) \in Seq(Keys)
        /\ L = Len(order) - 1
        /\ ToSet(order) \ {Head(order)} \subseteq ToSet(Tail(order))
    BY <1>2, <1>3, <2>1, TailToSet DEF MustEvict
  <2>3. S = Cached \ {Head(order)}
    BY <1>2, <2>1, <2>2 DEF KeysIn, Cached
  <2>4. IsFiniteSet(S) /\ Cardinality(S) \in Nat
        /\ Cardinality(S) >= Cardinality(Cached) - 1
    <3>1. /\ IsFiniteSet(Cached \ {Head(order)})
          /\ Cardinality(Cached \ {Head(order)}) =
               IF Head(order) \in Cached THEN Cardinality(Cached) - 1
                                         ELSE Cardinality(Cached)
      BY <1>1, FS_RemoveElement
    <3>2. Cardinality(Cached \ {Head(order)}) \in Nat
      BY <3>1, FS_CardinalityType
    <3> QED BY <1>1, <2>3, <3>1, <3>2
  <2>5. S \subseteq ToSet(AfterEvict.order)
    BY <2>1, <2>2, <2>3 DEF ListInv, CachedIsListed
  <2>6. /\ Len(order) <= Cardinality(Cached) + redundant
        /\ Len(order) <= MaxEntries + redundant
    BY DEF ListInv, ListBound
  <2>7. order # << >> /\ Len(order) # 0
    BY <1>2, <1>3, EmptySeq DEF MustEvict
  <2> HIDE DEF S, L
  <2>8. L \in Nat /\ L <= Cardinality(S) + redundant
        /\ L + 1 <= MaxEntries + redundant
    BY <1>1, <1>2, <2>2, <2>4, <2>6, <2>7
  <2> QED BY <2>4, <2>5, <2>8 DEF S, L
<1>4. CASE ~MustEvict
  <2>1. AfterEvict.store = store /\ AfterEvict.order = order
    BY <1>4 DEF AfterEvict
  <2>2. S = Cached /\ L = Len(order)
    BY <2>1 DEF KeysIn, Cached
  <2>3. Cardinality(Cached) < MaxEntries
    <3>1. CASE order = << >>
      <4>1. Len(order) = 0
        BY <3>1, EmptySeq
      <4> QED BY <4>1, <1>1, <1>2
    <3>2. CASE order # << >>
      BY <3>2, <1>1, <1>2, <1>4 DEF MustEvict
    <3> QED BY <3>1, <3>2
  <2>4. /\ Len(order) <= Cardinality(Cached) + redundant
        /\ S \subseteq ToSet(AfterEvict.order)
    BY <2>1, <2>2 DEF ListInv, ListBound, CachedIsListed
  <2>5. Len(order) + 1 <= MaxEntries + redundant
    BY <1>1, <1>2, <2>3, <2>4
  <2> QED BY <1>1, <2>2, <2>4, <2>5
<1> QED BY <1>3, <1>4

LEMMA InitList == Init => ListInv
PROOF
<1> SUFFICES ASSUME Init PROVE ListInv
  OBVIOUS
<1>1. Cached = {} /\ Len(order) = 0 /\ redundant = 0
  BY EmptySeq DEF Init, Cached
<1>2. Cardinality({}) = 0
  BY FS_EmptySet
<1> QED BY <1>1, <1>2, OverlayAssumption
        DEF ListInv, CachedIsListed, ListBound

(* Nothing that leaves the store and the list alone matters here. *)
LEMMA ListUnchanged ==
  ASSUME ListInv, UNCHANGED <<store, order, redundant>>
  PROVE  ListInv'
BY DEF ListInv, CachedIsListed, ListBound, Cached

LEMMA ListTouch ==
  ASSUME TypeOK, ListInv, NEW t \in Threads, Touch(t)
  PROVE  ListInv'
PROOF
<1> DEFINE k == key[t]
<1>1. k \in Keys /\ order \in Seq(Keys) /\ order' = touch(order, k)
  BY DEF Touch, TypeOK
<1>2. CASE k \in ToSet(order)
  <2>1. order' = Append(Unlist(order, k), k)
    BY <1>1, <1>2 DEF touch
  <2>2. /\ Unlist(order, k) \in Seq(Keys)
        /\ Len(Unlist(order, k)) = Len(order) - 1
        /\ ToSet(order) \ {k} \subseteq ToSet(Unlist(order, k))
    BY <1>1, <1>2, UnlistProperties
  <2> HIDE DEF k
  <2>3. ToSet(order') = ToSet(Unlist(order, k)) \cup {k}
    BY <1>1, <2>1, <2>2, AppendToSet
  <2>4. Len(order') = Len(Unlist(order, k)) + 1
    BY <1>1, <2>1, <2>2, AppendProperties
  <2>5. Len(order') = Len(order)
    BY <1>1, <2>2, <2>4, LenProperties
  <2> QED BY <2>2, <2>3, <2>5
          DEF ListInv, CachedIsListed, ListBound, Cached, Touch
<1>3. CASE k \notin ToSet(order)
  BY <1>1, <1>3, ListUnchanged DEF touch, Touch
<1> QED BY <1>2, <1>3

LEMMA ListInsert ==
  ASSUME TypeOK, ListInv, NEW t \in Threads, Insert(t)
  PROVE  ListInv'
PROOF
<1> DEFINE k == key[t]
           S == KeysIn(AfterEvict.store)
           L == Len(AfterEvict.order)
<1>1. k \in Keys /\ asset[t] \in Assets
  BY DEF Insert, TypeOK
<1>2. /\ store' = [AfterEvict.store EXCEPT ![k] = asset[t]]
      /\ order' = Append(AfterEvict.order, k)
      /\ redundant' = IF AfterEvict.store[k] # NoAsset
                      THEN redundant + 1 ELSE redundant
  BY DEF Insert, insert
<1>3. /\ AfterEvict.store \in [Keys -> Assets \cup {NoAsset}]
      /\ AfterEvict.order \in Seq(Keys) /\ redundant \in Nat
      /\ MaxEntries \in Nat
  BY EvictType, OverlayAssumption DEF TypeOK
<1>4. /\ S \subseteq ToSet(AfterEvict.order)
      /\ IsFiniteSet(S) /\ Cardinality(S) \in Nat /\ L \in Nat
      /\ L <= Cardinality(S) + redundant
      /\ L + 1 <= MaxEntries + redundant
  BY EvictBounds
<1>5. KeysIn(store') = S \cup {k}
  <2>1. asset[t] # NoAsset
    BY <1>1, FilesAssumption DEF Assets, NoAsset
  <2> QED BY <1>1, <1>2, <1>3, <2>1 DEF KeysIn
<1>6. k \in S <=> AfterEvict.store[k] # NoAsset
  BY <1>1 DEF KeysIn
<1>7. ToSet(order') = ToSet(AfterEvict.order) \cup {k} /\ Len(order') = L + 1
  BY <1>1, <1>2, <1>3, AppendToSet, AppendProperties
<1> HIDE DEF S, L, k
<1>8. Cardinality(S \cup {k}) = IF k \in S THEN Cardinality(S)
                                           ELSE Cardinality(S) + 1
  BY <1>4, FS_AddElement
<1>9. /\ Len(order') <= Cardinality(S \cup {k}) + redundant'
      /\ Len(order') <= MaxEntries + redundant'
  <2>1. CASE k \in S
    BY <2>1, <1>2, <1>3, <1>4, <1>6, <1>7, <1>8
  <2>2. CASE k \notin S
    BY <2>2, <1>2, <1>3, <1>4, <1>6, <1>7, <1>8
  <2> QED BY <2>1, <2>2
<1>10. Cached' = S \cup {k}
  BY <1>5 DEF Cached, KeysIn
<1>11. CachedIsListed'
  BY <1>4, <1>7, <1>10 DEF CachedIsListed
<1>12. ListBound'
  BY <1>9, <1>10 DEF ListBound
<1> QED BY <1>11, <1>12 DEF ListInv

LEMMA ListInvalidate ==
  ASSUME TypeOK, ListInv, NEW t \in Threads, Invalidate(t)
  PROVE  ListInv'
PROOF
<1> DEFINE k == key[t]
<1>1. /\ k \in Keys /\ order \in Seq(Keys) /\ redundant' = redundant
      /\ store \in [Keys -> Assets \cup {NoAsset}] /\ redundant \in Nat
      /\ MaxEntries \in Nat
  BY OverlayAssumption DEF Invalidate, TypeOK
<1>2. CASE store[k] = NoAsset
  BY <1>2, ListUnchanged DEF Invalidate
<1>3. CASE store[k] # NoAsset
  <2>1. /\ store' = [store EXCEPT ![k] = NoAsset]
        /\ order' = Unlist(order, k)
    BY <1>3 DEF Invalidate
  <2>2. Cached' = Cached \ {k} /\ k \in Cached
    BY <1>1, <1>3, <2>1 DEF Cached
  <2> HIDE DEF k
  <2>3. k \in ToSet(order)
    BY <2>2 DEF ListInv, CachedIsListed
  <2>4. /\ Len(order') = Len(order) - 1
        /\ ToSet(order) \ {k} \subseteq ToSet(order')
    BY <1>1, <2>1, <2>3, UnlistProperties
  <2>5. /\ IsFiniteSet(Cached) /\ Cardinality(Cached) \in Nat
        /\ Len(order) \in Nat
    BY CachedIsFinite DEF ListInv
  <2>6. Cardinality(Cached') = Cardinality(Cached) - 1
    BY <2>2, <2>5, FS_RemoveElement
  <2>7. /\ Len(order) <= Cardinality(Cached) + redundant
        /\ Len(order) <= MaxEntries + redundant
    BY DEF ListInv, ListBound
  <2>8. ListBound'
    BY <1>1, <2>4, <2>5, <2>6, <2>7 DEF ListBound
  <2>9. CachedIsListed'
    BY <2>2, <2>4 DEF ListInv, CachedIsListed
  <2> QED BY <2>8, <2>9 DEF ListInv
<1> QED BY <1>2, <1>3

LEMMA ListClear ==
  ASSUME TypeOK, ListInv, NEW t \in Threads, Clear(t)
  PROVE  ListInv'
PROOF
<1>1. Cached' = {} /\ Len(order') = 0 /\ redundant' = redundant
  BY EmptySeq DEF Clear, Cached
<1>2. Cardinality({}) = 0
  BY FS_EmptySet
<1> QED BY <1>1, <1>2, OverlayAssumption
        DEF ListInv, CachedIsListed, ListBound, TypeOK

LEMMA StepList ==
  ASSUME TypeOK, ListInv, [Next]_vars
  PROVE  ListInv'
PROOF
<1>1. ASSUME NEW t \in Threads, NEW p \in Paths,
             GetOrDecode(t, p) \/ BeginInvalidate(t, p)
      PROVE  ListInv'
  BY <1>1, ListUnchanged DEF GetOrDecode, BeginInvalidate
<1>2. ASSUME NEW t \in Threads,
             \/ LookupHit(t) \/ LookupMiss(t)
             \/ Decode(t) \/ DecodeFails(t)
      PROVE  ListInv'
  BY <1>2, ListUnchanged DEF LookupHit, LookupMiss, Decode, DecodeFails
<1>3. ASSUME NEW p \in Paths, Environment(p)
      PROVE  ListInv'
  BY <1>3, ListUnchanged DEF Environment
<1>4. CASE UNCHANGED vars
  BY <1>4, ListUnchanged DEF vars
<1> QED BY <1>1, <1>2, <1>3, <1>4, ListTouch, ListInsert, ListInvalidate,
           ListClear DEF Next, Step

(* No cached asset escapes the recency list, whatever the threads do. *)
THEOREM AlwaysListed == Spec => []CachedIsListed
PROOF
<1>1. TypeOK /\ ListInv /\ [Next]_vars => ListInv'
  BY StepList
<1>2. ListInv => CachedIsListed
  BY DEF ListInv
<1> QED BY <1>1, <1>2, InitList, TypeCorrect, PTL DEF Spec

(* The store exceeds its limit by the redundant inserts at the most. *)
THEOREM OvershootBounded == Spec => []OvershootIsRedundant
PROOF
<1>1. TypeOK /\ ListInv /\ [Next]_vars => ListInv'
  BY StepList
<1>2. TypeOK /\ ListInv => OvershootIsRedundant
  <2> SUFFICES ASSUME TypeOK, ListInv PROVE OvershootIsRedundant
    OBVIOUS
  <2>1. /\ Cardinality(Cached) <= Len(order) /\ Len(order) \in Nat
        /\ Cardinality(Cached) \in Nat
    BY CachedIsFinite DEF ListInv
  <2> QED BY <2>1, OverlayAssumption
          DEF OvershootIsRedundant, ListInv, ListBound, TypeOK
<1> QED BY <1>1, <1>2, InitList, TypeCorrect, PTL DEF Spec

-----------------------------------------------------------------------------
(* One caller at a time.                                                   *)

(* With one thread nothing is inserted between a lookup that misses and    *)
(* the insert that follows it.                                             *)
AloneInv ==
  /\ redundant = 0
  /\ \A t \in Threads :
       pc[t] \in {"decode", "insert"} => store[key[t]] = NoAsset

LEMMA StepAlone ==
  ASSUME \A t, u \in Threads : t = u, TypeOK, AloneInv, [Next]_vars
  PROVE  AloneInv'
PROOF
<1>1. ASSUME NEW t \in Threads, NEW p \in Paths,
             GetOrDecode(t, p) \/ BeginInvalidate(t, p)
      PROVE  AloneInv'
  BY <1>1 DEF AloneInv, TypeOK, GetOrDecode, BeginInvalidate
<1>2. ASSUME NEW t \in Threads, LookupHit(t) \/ LookupMiss(t) \/ Decode(t)
      PROVE  AloneInv'
  BY <1>2 DEF AloneInv, TypeOK, LookupHit, LookupMiss, Decode
<1>3. ASSUME NEW t \in Threads, Touch(t) \/ DecodeFails(t)
      PROVE  AloneInv'
  BY <1>3 DEF AloneInv, TypeOK, Touch, DecodeFails, Finish
<1>4. ASSUME NEW t \in Threads, Insert(t)
      PROVE  AloneInv'
  <2>1. key[t] \in Keys /\ store[key[t]] = NoAsset
    BY <1>4 DEF Insert, AloneInv, TypeOK
  <2>2. AfterEvict.store[key[t]] = NoAsset
    <3>1. CASE MustEvict
      BY <3>1, <2>1, TailToSet DEF AfterEvict, MustEvict, TypeOK
    <3>2. CASE ~MustEvict
      BY <3>2, <2>1 DEF AfterEvict
    <3> QED BY <3>1, <3>2
  <2>3. redundant' = 0
    BY <1>4, <2>2 DEF Insert, insert, AloneInv
  <2>4. \A u \in Threads : pc'[u] = "idle"
    BY <1>4 DEF Insert, Finish, TypeOK
  <2> QED BY <2>3, <2>4 DEF AloneInv
<1>5. ASSUME NEW t \in Threads, Invalidate(t) \/ Clear(t)
      PROVE  AloneInv'
  <2>1. \A u \in Threads : pc'[u] = "idle"
    BY <1>5 DEF Invalidate, Clear, Finish, thread, TypeOK
  <2>2. redundant' = 0
    BY <1>5 DEF Invalidate, Clear, AloneInv
  <2> QED BY <2>1, <2>2 DEF AloneInv
<1>6. ASSUME NEW p \in Paths, Environment(p)
      PROVE  AloneInv'
  BY <1>6 DEF AloneInv, Environment, thread
<1>7. CASE UNCHANGED vars
  BY <1>7 DEF AloneInv, vars
<1> QED BY <1>1, <1>2, <1>3, <1>4, <1>5, <1>6, <1>7 DEF Next, Step

(* A single caller never sees more than max_entries assets in the cache.   *)
THEOREM SingleCallerWithinLimit ==
  ASSUME \A t, u \in Threads : t = u
  PROVE  Spec => []WithinMaxEntries
PROOF
<1>1. Init => AloneInv
  BY DEF Init, AloneInv
<1>2. TypeOK /\ AloneInv /\ [Next]_vars => AloneInv'
  BY StepAlone
<1>3. AloneInv /\ OvershootIsRedundant /\ TypeOK => WithinMaxEntries
  BY OverlayAssumption DEF AloneInv, OvershootIsRedundant, WithinMaxEntries
<1> QED BY <1>1, <1>2, <1>3, OvershootBounded, TypeCorrect, PTL DEF Spec

(* Nor is anything removed between a lookup that hits and the touch that   *)
(* follows it.                                                             *)
HitStays == \A t \in Threads : pc[t] = "touch" => store[key[t]] # NoAsset

LEMMA StepHit ==
  ASSUME \A t, u \in Threads : t = u, TypeOK, HitStays, [Next]_vars
  PROVE  HitStays'
PROOF
<1>1. ASSUME NEW t \in Threads, NEW p \in Paths,
             GetOrDecode(t, p) \/ BeginInvalidate(t, p)
      PROVE  HitStays'
  BY <1>1 DEF HitStays, TypeOK, GetOrDecode, BeginInvalidate
<1>2. ASSUME NEW t \in Threads, LookupHit(t) \/ LookupMiss(t) \/ Decode(t)
      PROVE  HitStays'
  BY <1>2 DEF HitStays, TypeOK, LookupHit, LookupMiss, Decode
<1>3. ASSUME NEW t \in Threads,
             \/ Touch(t) \/ DecodeFails(t) \/ Insert(t)
             \/ Invalidate(t) \/ Clear(t)
      PROVE  HitStays'
  <2>1. \A u \in Threads : pc'[u] = "idle"
    BY <1>3 DEF Touch, DecodeFails, Insert, Invalidate, Clear, Finish,
                thread, TypeOK
  <2> QED BY <2>1 DEF HitStays
<1>4. ASSUME NEW p \in Paths, Environment(p)
      PROVE  HitStays'
  BY <1>4 DEF HitStays, Environment, thread
<1>5. CASE UNCHANGED vars
  BY <1>5 DEF HitStays, vars
<1> QED BY <1>1, <1>2, <1>3, <1>4, <1>5 DEF Next, Step

(* What the state of a cache with one caller has: the list names exactly   *)
(* what is cached.  It follows from the bounds above: the list covers the  *)
(* store and is not longer than the store.                                 *)
CallerInv == TypeOK /\ ListInv /\ AloneInv /\ HitStays

LEMMA ListIsCached ==
  ASSUME CallerInv
  PROVE  /\ ToSet(order) = Cached
         /\ Len(order) = Cardinality(Cached)
         /\ Len(order) \in Nat /\ Len(order) <= MaxEntries
PROOF
<1>1. /\ IsFiniteSet(Cached) /\ Cardinality(Cached) \in Nat
      /\ Cardinality(Cached) <= Len(order) /\ Len(order) \in Nat
  BY CachedIsFinite DEF CallerInv, ListInv
<1>2. /\ Len(order) <= Cardinality(Cached) /\ Len(order) <= MaxEntries
      /\ Cached \subseteq ToSet(order) /\ order \in Seq(Keys)
  BY <1>1, OverlayAssumption
     DEF CallerInv, ListInv, ListBound, CachedIsListed, AloneInv, TypeOK
<1>3. IsFiniteSet(ToSet(order)) /\ Cardinality(ToSet(order)) <= Len(order)
  BY <1>2, ListedIsFinite
<1>4. Cardinality(Cached) = Cardinality(ToSet(order))
  <2>1. Cardinality(Cached) <= Cardinality(ToSet(order))
    BY <1>2, <1>3, FS_Subset
  <2>2. Cardinality(ToSet(order)) \in Nat
    BY <1>3, FS_CardinalityType
  <2> QED BY <1>1, <1>2, <1>3, <2>1, <2>2
<1>5. Cached = ToSet(order)
  BY <1>2, <1>3, <1>4, FS_Subset
<1> QED BY <1>1, <1>2, <1>5

(* With one thread, the key in use is the one that thread is to mark.      *)
LEMMA UsingIs ==
  ASSUME \A t, u \in Threads : t = u, NEW t \in Threads
  PROVE  /\ Using = IF pc[t] = "touch" THEN key[t] ELSE NoKey
         /\ Using' = IF pc'[t] = "touch" THEN key'[t] ELSE NoKey
PROOF
<1>1. Using = IF pc[t] = "touch" THEN key[t] ELSE NoKey
  <2>1. CASE pc[t] = "touch"
    <3>1. InUse = {t}
      BY <2>1 DEF InUse
    <3> QED BY <2>1, <3>1 DEF Using
  <2>2. CASE pc[t] # "touch"
    <3>1. InUse = {}
      BY <2>2 DEF InUse
    <3> QED BY <2>2, <3>1 DEF Using
  <2> QED BY <2>1, <2>2
<1>2. Using' = IF pc'[t] = "touch" THEN key'[t] ELSE NoKey
  <2>1. CASE pc'[t] = "touch"
    <3>1. InUse' = {t}
      BY <2>1 DEF InUse
    <3> QED BY <2>1, <3>1 DEF Using
  <2>2. CASE pc'[t] # "touch"
    <3>1. InUse' = {}
      BY <2>2 DEF InUse
    <3> QED BY <2>2, <3>1 DEF Using
  <2> QED BY <2>1, <2>2
<1> QED BY <1>1, <1>2

(* The list operators of the two modules are the same.                     *)
LEMMA LruOperators ==
  /\ \A s : Lru!ToSet(s) = ToSet(s)
  /\ \A s, i : Lru!RemoveAt(s, i) = RemoveAt(s, i)
BY DEF ToSet, RemoveAt, Lru!ToSet, Lru!RemoveAt

LruVars == <<order, store, Using>>

(* A key on the list is removed from one of the places that hold it.       *)
LEMMA UnlistIsRemoval ==
  ASSUME NEW s \in Seq(Keys), NEW k \in ToSet(s)
  PROVE  \E i \in DOMAIN s : s[i] = k /\ Unlist(s, k) = RemoveAt(s, i)
PROOF
<1>1. IndexOf(s, k) \in DOMAIN s /\ s[IndexOf(s, k)] = k
  BY IndexOfFirst, LenProperties
<1> QED BY <1>1 DEF Unlist

LEMMA HitIsAnswered ==
  ASSUME \A t, u \in Threads : t = u, CallerInv,
         NEW t \in Threads, LookupHit(t)
  PROVE  Lru!LruNext
PROOF
<1>1. key[t] \in Keys /\ key[t] \in ToSet(order)
  BY ListIsCached DEF CallerInv, TypeOK, LookupHit, Cached
<1>2. Using = NoKey /\ Using' = key[t]
  BY UsingIs DEF LookupHit, CallerInv, TypeOK
<1> QED BY <1>1, <1>2, LruOperators DEF LookupHit, Lru!LruNext, Lru!Answered

LEMMA TouchIsUsed ==
  ASSUME \A t, u \in Threads : t = u, CallerInv,
         NEW t \in Threads, Touch(t)
  PROVE  Lru!LruNext
PROOF
<1>1. key[t] \in Keys /\ key[t] \in ToSet(order) /\ order \in Seq(Keys)
  BY ListIsCached DEF CallerInv, TypeOK, HitStays, Touch, Cached
<1>2. key[t] # NoKey
  <2>1. PICK p \in Paths, v \in 0..MaxVersion : key[t] = <<p, v>>
    BY <1>1 DEF Keys
  <2>2. Len(<<p, v>>) = 2 /\ Len(<< >>) = 0
    OBVIOUS
  <2> QED BY <2>1, <2>2 DEF NoKey
<1>3. Using = key[t] /\ Using' = NoKey
  BY UsingIs DEF Touch, Finish, CallerInv, TypeOK
<1>4. \E i \in DOMAIN order :
        order[i] = key[t] /\ Unlist(order, key[t]) = RemoveAt(order, i)
  BY <1>1, UnlistIsRemoval
<1>5. order' = Append(Unlist(order, key[t]), key[t]) /\ store' = store
  BY <1>1 DEF Touch, touch
<1>6. Lru!Used
  BY <1>2, <1>3, <1>4, <1>5, LruOperators DEF Lru!Used
<1> QED BY <1>6 DEF Lru!LruNext

LEMMA InsertIsAdmitted ==
  ASSUME \A t, u \in Threads : t = u, CallerInv,
         NEW t \in Threads, Insert(t)
  PROVE  Lru!LruNext
PROOF
<1>1. key[t] \in Keys /\ asset[t] \in Assets /\ key[t] \notin ToSet(order)
  BY ListIsCached DEF CallerInv, TypeOK, AloneInv, Insert, Cached
<1>2. UNCHANGED Using
  BY UsingIs DEF Insert, Finish, CallerInv, TypeOK
<1>3. /\ Len(order) = Cardinality(Cached) /\ Len(order) \in Nat
      /\ Len(order) <= MaxEntries /\ MaxEntries \in Nat \ {0}
      /\ order \in Seq(Keys)
  BY ListIsCached, OverlayAssumption DEF CallerInv, TypeOK
<1>4. /\ store' = [AfterEvict.store EXCEPT ![key[t]] = asset[t]]
      /\ order' = Append(AfterEvict.order, key[t])
  BY DEF Insert, insert
<1>5. CASE MustEvict
  <2>1. Len(order) = MaxEntries
    BY <1>3, <1>5 DEF MustEvict
  <2>2. /\ order' = Append(Tail(order), key[t])
        /\ store' = [store EXCEPT ![Head(order)] = NoAsset,
                                  ![key[t]] = asset[t]]
    BY <1>4, <1>5 DEF AfterEvict
  <2>3. Lru!AdmitFull(key[t], asset[t])
    BY <1>1, <1>2, <2>1, <2>2, LruOperators DEF Lru!AdmitFull
  <2> QED BY <1>1, <2>3 DEF Lru!LruNext
<1>6. CASE ~MustEvict
  <2>1. Len(order) < MaxEntries
    <3>1. CASE order = << >>
      BY <1>3, <3>1, EmptySeq
    <3>2. CASE order # << >>
      BY <1>3, <1>6, <3>2 DEF MustEvict
    <3> QED BY <3>1, <3>2
  <2>2. /\ order' = Append(order, key[t])
        /\ store' = [store EXCEPT ![key[t]] = asset[t]]
    BY <1>4, <1>6 DEF AfterEvict
  <2>3. Lru!Admit(key[t], asset[t])
    BY <1>1, <1>2, <2>1, <2>2, LruOperators DEF Lru!Admit
  <2> QED BY <1>1, <2>3 DEF Lru!LruNext
<1> QED BY <1>5, <1>6

LEMMA InvalidateForgets ==
  ASSUME \A t, u \in Threads : t = u, CallerInv,
         NEW t \in Threads, Invalidate(t)
  PROVE  [Lru!LruNext]_LruVars
PROOF
<1>1. key[t] \in Keys /\ order \in Seq(Keys)
  BY DEF CallerInv, TypeOK, Invalidate
<1>2. UNCHANGED Using
  BY UsingIs DEF Invalidate, Finish, CallerInv, TypeOK
<1>3. CASE store[key[t]] = NoAsset
  BY <1>2, <1>3 DEF Invalidate, LruVars
<1>4. CASE store[key[t]] # NoAsset
  <2>1. key[t] \in ToSet(order)
    BY <1>1, <1>4, ListIsCached DEF Cached
  <2>2. \E i \in DOMAIN order :
          order[i] = key[t] /\ Unlist(order, key[t]) = RemoveAt(order, i)
    BY <1>1, <2>1, UnlistIsRemoval
  <2>3. /\ order' = Unlist(order, key[t])
        /\ store' = [store EXCEPT ![key[t]] = NoAsset]
    BY <1>4 DEF Invalidate
  <2>4. Lru!Forget(key[t])
    BY <1>2, <2>2, <2>3, LruOperators DEF Lru!Forget
  <2> QED BY <1>1, <2>4 DEF Lru!LruNext
<1> QED BY <1>3, <1>4

LEMMA StepIsLru ==
  ASSUME \A t, u \in Threads : t = u, CallerInv, [Next]_vars
  PROVE  [Lru!LruNext]_LruVars
PROOF
<1>1. ASSUME NEW t \in Threads, NEW p \in Paths,
             GetOrDecode(t, p) \/ BeginInvalidate(t, p)
      PROVE  UNCHANGED LruVars
  BY <1>1, UsingIs
     DEF GetOrDecode, BeginInvalidate, LruVars, CallerInv, TypeOK
<1>2. ASSUME NEW t \in Threads, LookupMiss(t) \/ Decode(t) \/ DecodeFails(t)
      PROVE  UNCHANGED LruVars
  BY <1>2, UsingIs
     DEF LookupMiss, Decode, DecodeFails, Finish, LruVars, CallerInv, TypeOK
<1>3. ASSUME NEW t \in Threads, Clear(t)
      PROVE  Lru!LruNext
  <2>1. UNCHANGED Using
    BY <1>3, UsingIs DEF Clear, thread
  <2> QED BY <1>3, <2>1 DEF Clear, Lru!LruNext, Lru!ForgetAll
<1>4. ASSUME NEW p \in Paths, Environment(p)
      PROVE  UNCHANGED LruVars
  BY <1>4 DEF Environment, thread, LruVars, Using, InUse
<1>5. CASE UNCHANGED vars
  BY <1>5 DEF vars, LruVars, Using, InUse
<1> QED BY <1>1, <1>2, <1>3, <1>4, <1>5, HitIsAnswered, TouchIsUsed,
           InsertIsAdmitted, InvalidateForgets DEF Next, Step

(* A single caller cannot tell the overlay cache from an LRU cache: each   *)
(* lookup, insert, invalidation and clear does to the store and the list   *)
(* what that of an LRU cache of max_entries entries does, or nothing.      *)
THEOREM SingleCallerIsLru ==
  ASSUME \A t, u \in Threads : t = u
  PROVE  Spec => ImplementsLru
PROOF
<1>1. Init => AloneInv /\ HitStays
  BY DEF Init, AloneInv, HitStays
<1>2. TypeOK /\ ListInv /\ AloneInv /\ HitStays /\ [Next]_vars
        => ListInv' /\ AloneInv' /\ HitStays'
  BY StepList, StepAlone, StepHit
<1>3. Init => Lru!LruInit
  <2>1. Init => Using = NoKey
    <3> SUFFICES ASSUME Init PROVE InUse = {}
      BY DEF Using
    <3> QED BY DEF Init, InUse
  <2> QED BY <2>1 DEF Init, Lru!LruInit
<1>4. TypeOK /\ ListInv /\ AloneInv /\ HitStays /\ [Next]_vars
        => [Lru!LruNext]_<<order, store, Using>>
  BY StepIsLru DEF CallerInv, LruVars
<1> QED BY <1>1, <1>2, <1>3, <1>4, InitList, TypeCorrect, PTL
        DEF Spec, ImplementsLru, Lru!LruSpec

-----------------------------------------------------------------------------
(* Freshness.                                                              *)

(* An asset is never older than the stamp in the key it is filed under,    *)
(* because the stamp is read before the file is; and a call's key has the  *)
(* stamp of the version that was there when the call began.                *)
StampInv ==
  /\ \A k \in Keys :
       store[k] # NoAsset /\ StampIn(k) # NoStamp
         => Stamp[store[k]] >= StampIn(k)
  /\ \A t \in Threads :
       /\ pc[t] \in {"lookup", "decode"} /\ StampIn(key[t]) # NoStamp
            => LET v == file[PathOf(key[t])].version
               IN  v > 0 /\ Stamp[v] >= StampIn(key[t])
       /\ pc[t] \in {"touch", "insert"} /\ StampIn(key[t]) # NoStamp
            => Stamp[asset[t]] >= StampIn(key[t])
       /\ pc[t] \in {"lookup", "decode", "touch", "insert"} /\ asOf[t] # 0
            => StampIn(key[t]) = Stamp[asOf[t]]

LEMMA InitStamp == Init => StampInv
BY DEF Init, StampInv

(* The new key has the stamp of what is there now. *)
LEMMA NewKeyStamp ==
  ASSUME TypeOK, NEW p \in Paths
  PROVE  /\ PathOf(cache_key(p)) = p
         /\ StampIn(cache_key(p)) # NoStamp
              => /\ file[p].version > 0
                 /\ Stamp[file[p].version] >= StampIn(cache_key(p))
         /\ file[p].present => StampIn(cache_key(p)) = Stamp[file[p].version]
PROOF
<1>1. CASE file[p].present
  <2>1. file[p].version \in 1..MaxVersion
    BY <1>1, FilesAssumption DEF TypeOK, FilesTypeOK, File
  <2>2. Stamp[file[p].version] \in 1..MaxVersion
    BY <2>1, FilesAssumption
  <2> QED BY <1>1, <2>1, <2>2, FilesAssumption
          DEF cache_key, PathOf, StampIn
<1>2. CASE ~file[p].present
  BY <1>2 DEF cache_key, PathOf, StampIn
<1> QED BY <1>1, <1>2

(* Replacing a file only raises the stamp of what is there. *)
LEMMA FileStampGrows ==
  ASSUME TypeOK, NEW q \in Paths, Environment(q), NEW p \in Paths,
         file[p].version > 0
  PROVE  /\ file[p].version \in 1..MaxVersion
         /\ file'[p].version \in 1..MaxVersion
         /\ Stamp[file'[p].version] >= Stamp[file[p].version]
PROOF
<1>1. file[p].version \in 1..MaxVersion /\ file[p].version \in Nat
  BY FilesAssumption DEF TypeOK, FilesTypeOK, File
<1>2. file'[p].version \in 0..MaxVersion
  BY FilesStep DEF Environment, TypeOK, FilesTypeOK, File
<1>3. file'[p].version >= file[p].version
  <2>1. CASE ReplaceFile(q)
    <3>1. file' = [file EXCEPT ![q] =
                     [version |-> file[q].version + 1, present |-> TRUE]]
      BY <2>1 DEF ReplaceFile
    <3>2. CASE p = q
      <4>1. file'[p].version = file[p].version + 1
        BY <3>1, <3>2 DEF TypeOK, FilesTypeOK
      <4> QED BY <4>1, <1>1
    <3>3. CASE p # q
      BY <3>1, <3>3, <1>1 DEF TypeOK, FilesTypeOK
    <3> QED BY <3>2, <3>3
  <2>2. CASE DeleteFile(q)
    BY <2>2, <1>1 DEF DeleteFile, TypeOK, FilesTypeOK, File
  <2> QED BY <2>1, <2>2 DEF Environment
<1>4. file'[p].version \in 1..MaxVersion
  BY <1>1, <1>2, <1>3, FilesAssumption
<1>5. Stamp[file[p].version] <= Stamp[file'[p].version]
  BY <1>1, <1>3, <1>4, FilesAssumption
<1>6. /\ Stamp[file[p].version] \in 1..MaxVersion
      /\ Stamp[file'[p].version] \in 1..MaxVersion
  BY <1>1, <1>4, FilesAssumption
<1>7. Stamp[file'[p].version] >= Stamp[file[p].version]
  BY <1>5, <1>6, FilesAssumption
<1> QED BY <1>1, <1>4, <1>7

LEMMA StepStamp ==
  ASSUME TypeOK, StampInv, [Next]_vars
  PROVE  StampInv'
PROOF
<1>1. ASSUME NEW t \in Threads, NEW p \in Paths, GetOrDecode(t, p)
      PROVE  StampInv'
  <2>1. /\ pc' = [pc EXCEPT ![t] = "lookup"]
        /\ key' = [key EXCEPT ![t] = cache_key(p)]
        /\ asOf'[t] # 0 => file[p].present /\ asOf'[t] = file[p].version
        /\ \A u \in Threads : u # t => asOf'[u] = asOf[u]
        /\ UNCHANGED <<file, store, asset>>
    BY <1>1 DEF GetOrDecode, TypeOK
  <2>2. key'[t] = cache_key(p) /\ pc'[t] = "lookup"
    BY <2>1 DEF TypeOK
  <2>3. \A u \in Threads : u # t => key'[u] = key[u] /\ pc'[u] = pc[u]
    BY <2>1 DEF TypeOK
  <2> QED BY <2>1, <2>2, <2>3, NewKeyStamp DEF StampInv
<1>2. ASSUME NEW t \in Threads, NEW p \in Paths, BeginInvalidate(t, p)
      PROVE  StampInv'
  BY <1>2 DEF StampInv, TypeOK, BeginInvalidate
<1>3. ASSUME NEW t \in Threads, LookupHit(t)
      PROVE  StampInv'
  <2>1. key[t] \in Keys
    BY <1>3 DEF LookupHit, TypeOK
  <2> QED BY <1>3, <2>1 DEF StampInv, TypeOK, LookupHit
<1>4. ASSUME NEW t \in Threads, LookupMiss(t)
      PROVE  StampInv'
  BY <1>4 DEF StampInv, TypeOK, LookupMiss
<1>5. ASSUME NEW t \in Threads, Touch(t) \/ DecodeFails(t)
      PROVE  StampInv'
  BY <1>5 DEF StampInv, TypeOK, Touch, DecodeFails, Finish
<1>6. ASSUME NEW t \in Threads, Decode(t)
      PROVE  StampInv'
  BY <1>6 DEF StampInv, TypeOK, Decode
<1>7. ASSUME NEW t \in Threads, Insert(t)
      PROVE  StampInv'
  <2>1. key[t] \in Keys /\ asset[t] \in Assets
    BY <1>7 DEF Insert, TypeOK
  <2>2. \A k \in Keys : AfterEvict.store[k] \in {store[k], NoAsset}
    <3>1. CASE MustEvict
      BY <3>1 DEF AfterEvict, TypeOK
    <3>2. CASE ~MustEvict
      BY <3>2 DEF AfterEvict
    <3> QED BY <3>1, <3>2
  <2>3. /\ store'[key[t]] = asset[t]
        /\ \A k \in Keys : k # key[t] => store'[k] \in {store[k], NoAsset}
    BY <1>7, <2>1, <2>2, EvictType DEF Insert, insert
  <2>4. StampIn(key[t]) # NoStamp => Stamp[asset[t]] >= StampIn(key[t])
    BY <1>7 DEF Insert, StampInv
  <2>5. \A k \in Keys : store'[k] # NoAsset /\ StampIn(k) # NoStamp
                          => Stamp[store'[k]] >= StampIn(k)
    BY <2>3, <2>4 DEF StampInv
  <2>6. /\ pc'[t] = "idle"
        /\ \A u \in Threads : u # t =>
             /\ pc'[u] = pc[u] /\ key'[u] = key[u]
             /\ asset'[u] = asset[u] /\ asOf'[u] = asOf[u]
        /\ file' = file
    BY <1>7 DEF Insert, Finish, TypeOK
  <2> QED BY <2>5, <2>6 DEF StampInv
<1>8. ASSUME NEW t \in Threads, Invalidate(t)
      PROVE  StampInv'
  <2>1. \A k \in Keys : store'[k] \in {store[k], NoAsset}
    BY <1>8 DEF Invalidate, TypeOK
  <2>2. /\ pc'[t] = "idle"
        /\ \A u \in Threads : u # t =>
             /\ pc'[u] = pc[u] /\ key'[u] = key[u]
             /\ asset'[u] = asset[u] /\ asOf'[u] = asOf[u]
        /\ file' = file
    BY <1>8 DEF Invalidate, Finish, TypeOK
  <2> QED BY <2>1, <2>2 DEF StampInv
<1>9. ASSUME NEW t \in Threads, Clear(t)
      PROVE  StampInv'
  BY <1>9 DEF StampInv, Clear, thread
<1>10. ASSUME NEW q \in Paths, Environment(q)
       PROVE  StampInv'
  <2>1. UNCHANGED <<store, pc, key, asset, asOf>>
    BY <1>10 DEF Environment, thread
  <2>2. ASSUME NEW t \in Threads, pc[t] \in {"lookup", "decode"},
               StampIn(key[t]) # NoStamp
        PROVE  LET v == file'[PathOf(key[t])].version
               IN  v > 0 /\ Stamp[v] >= StampIn(key[t])
    <3> DEFINE p == PathOf(key[t])
    <3>1. key[t] \in Keys /\ p \in Paths
      BY <2>2, KeyPath DEF TypeOK
    <3>2. file[p].version > 0 /\ Stamp[file[p].version] >= StampIn(key[t])
      BY <2>2 DEF StampInv
    <3>3. /\ file[p].version \in 1..MaxVersion
          /\ file'[p].version \in 1..MaxVersion
          /\ Stamp[file'[p].version] >= Stamp[file[p].version]
      BY <1>10, <3>1, <3>2, FileStampGrows
    <3>4. StampIn(key[t]) \in Int
      BY <3>1, FilesAssumption DEF Keys, StampIn
    <3>5. /\ Stamp[file[p].version] \in Int /\ Stamp[file'[p].version] \in Int
          /\ file'[p].version > 0
      <4>1. \A v \in 1..MaxVersion : v > 0 /\ Stamp[v] \in Int
        BY FilesAssumption
      <4> HIDE DEF p
      <4> QED BY <3>3, <4>1
    <3> QED BY <3>2, <3>3, <3>4, <3>5
  <2> QED BY <2>1, <2>2 DEF StampInv
<1>11. CASE UNCHANGED vars
  BY <1>11 DEF StampInv, vars
<1> QED BY <1>1, <1>2, <1>3, <1>4, <1>5, <1>6, <1>7, <1>8, <1>9, <1>10,
           <1>11 DEF Next, Step

(* No answer is older, by its modification time, than the file was when    *)
(* the call began, however the file is replaced meanwhile.                 *)
THEOREM AnswersAreFresh == Spec => []FreshAnswer
PROOF
<1>1. TypeOK /\ StampInv /\ [Next]_vars => StampInv'
  BY StepStamp
<1>2. TypeOK /\ StampInv => FreshAnswer
  <2> SUFFICES ASSUME TypeOK, StampInv, NEW t \in Threads,
                      pc[t] \in {"touch", "insert"}, asOf[t] # 0
               PROVE  Stamp[asset[t]] >= Stamp[asOf[t]]
    BY DEF FreshAnswer
  <2>1. asOf[t] \in 1..MaxVersion
    BY FilesAssumption DEF TypeOK
  <2>2. Stamp[asOf[t]] # NoStamp
    BY <2>1, FilesAssumption DEF NoStamp
  <2> QED BY <2>2 DEF StampInv
<1> QED BY <1>1, <1>2, InitStamp, TypeCorrect, PTL DEF Spec

=============================================================================
