-------------------------- MODULE BufferPoolProofs --------------------------
(***************************************************************************)
(* Theorems about BufferPool for any threads, classes, pools and limits.   *)
(***************************************************************************)
EXTENDS BufferPool, FiniteSetTheorems, SequenceTheorems, TLAPS

-----------------------------------------------------------------------------
(* Buffers                                                                 *)

LEMMA KindSizes ==
  ASSUME PoolAssumption
  PROVE  /\ \A k \in Kinds : Size[k] \in Nat
         /\ \A k \in Kinds : StackOf(k) \in Stacks
         /\ \A p \in Pools : StackOf(p) = "shared"
         /\ \A c \in Classes : StackOf(c) = c /\ c \in Kinds /\ c # "shared"
BY DEF PoolAssumption, Kinds, Stacks, StackOf

LEMMA NewBufferIsClean ==
  ASSUME PoolAssumption, NEW k \in Kinds
  PROVE  /\ NewBuffer(k) \in Buffers
         /\ NewBuffer(k).dirty = 0
         /\ NewBuffer(k).len = Size[k] /\ NewBuffer(k).capacity = Size[k]
BY KindSizes DEF NewBuffer, Buffer, Buffers

LEMMA ClearedBuffer ==
  ASSUME NEW b \in Buffers
  PROVE  /\ clear(b) \in Buffers
         /\ clear(b).dirty = 0 /\ clear(b).capacity = b.capacity
BY DEF clear, Buffers

LEMMA ResizedBuffer ==
  ASSUME NEW b \in Buffers, NEW n \in Nat
  PROVE  /\ resize(b, n) \in Buffers
         /\ resize(b, n).len = n
         /\ b.dirty = 0 => resize(b, n).dirty = 0
         /\ n <= b.capacity => resize(b, n).capacity = b.capacity
BY DEF resize, Buffers, larger, smaller

(* What a stack hands out has the length asked for, and is clean if the    *)
(* class clears it or its stack holds clean buffers only.                  *)
LEMMA ReusedBuffer ==
  ASSUME PoolAssumption, NEW k \in Kinds, NEW b \in Buffers
  PROVE  /\ Reused(k, b) \in Buffers
         /\ Reused(k, b).len = Size[k]
         /\ k \in Classes \/ b.dirty = 0 => Reused(k, b).dirty = 0
         /\ Size[k] <= b.capacity => Reused(k, b).capacity = b.capacity
<1>1. CASE k \in Classes
  <2>1. Reused(k, b) = resize(clear(b), Size[k])
    BY <1>1 DEF Reused
  <2> QED BY <2>1, ClearedBuffer, ResizedBuffer, KindSizes
<1>2. CASE k \notin Classes
  <2>1. Reused(k, b) = resize(b, Size[k])
    BY <1>2 DEF Reused
  <2> QED BY <1>2, <2>1, ResizedBuffer, KindSizes
<1> QED BY <1>1, <1>2

LEMMA GuardIsHeld ==
  ASSUME NEW t \in Threads, NEW k \in Kinds, NEW b \in Buffers
  PROVE  Guard(t, k, b) \in Held
BY DEF Guard, Held

(* A guard or a raw Vec is told from an empty handle by its kind. *)
LEMMA HeldIsSomething ==
  ASSUME PoolAssumption, NEW g \in Held \cup {Nothing}
  PROVE  g # Nothing <=> g \in Held
BY DEF Held, Nothing, PoolAssumption, Kinds

-----------------------------------------------------------------------------
(* Stacks                                                                  *)

(* Taking the top off a stack. *)
LEMMA PopStack ==
  ASSUME NEW S, NEW s \in Seq(S), s # << >>
  PROVE  /\ SubSeq(s, 1, Len(s) - 1) \in Seq(S)
         /\ Len(SubSeq(s, 1, Len(s) - 1)) = Len(s) - 1
         /\ Len(s) \in 1..Len(s) /\ s[Len(s)] \in S
         /\ \A i \in 1..(Len(s) - 1) : SubSeq(s, 1, Len(s) - 1)[i] = s[i]
<1>1. Len(s) \in Nat /\ Len(s) > 0
  BY LenProperties, EmptySeq
<1>2. \A i \in 1..Len(s) : s[i] \in S
  BY ElementOfSeq
<1>3. \A i \in 1..(Len(s) - 1) : s[i] \in S
  BY <1>1, <1>2
<1>4. /\ SubSeq(s, 1, Len(s) - 1) \in Seq(S)
      /\ Len(SubSeq(s, 1, Len(s) - 1)) = Len(s) - 1
      /\ \A i \in 1..(Len(s) - 1) : SubSeq(s, 1, Len(s) - 1)[i] = s[i]
  <2> DEFINE n == Len(s) - 1
  <2>1. n \in Int /\ n >= 0 /\ \A i \in 1..n : s[i] \in S
    BY <1>1, <1>3
  <2> HIDE DEF n
  <2>2. /\ SubSeq(s, 1, n) \in Seq(S)
        /\ Len(SubSeq(s, 1, n)) = IF 1 <= n THEN n - 1 + 1 ELSE 0
        /\ \A i \in 1..(n - 1 + 1) : SubSeq(s, 1, n)[i] = s[1 + i - 1]
    BY <2>1, SubSeqProperties
  <2>3. /\ SubSeq(s, 1, n) \in Seq(S) /\ Len(SubSeq(s, 1, n)) = n
        /\ \A i \in 1..n : SubSeq(s, 1, n)[i] = s[i]
    BY <2>1, <2>2
  <2> QED BY <2>3 DEF n
<1> QED BY <1>1, <1>2, <1>4

LEMMA PushStack ==
  ASSUME PoolAssumption, NEW t \in Threads, NEW s \in Stacks,
         NEW b \in Buffers, Push(t, s, b),
         cached \in [Threads -> [Stacks -> Seq(Buffers)]]
  PROVE  cached' \in [Threads -> [Stacks -> Seq(Buffers)]]
<1>1. Append(cached[t][s], b) \in Seq(Buffers)
  OBVIOUS
<1> QED BY <1>1 DEF Push

LEMMA ReleaseKeepsType ==
  ASSUME PoolAssumption, NEW t \in Threads, NEW k \in Kinds, NEW b \in Buffers,
         \/ k \in Classes /\ tl_release(t, k, b)
         \/ k \in Pools /\ release(t, k, b),
         cached \in [Threads -> [Stacks -> Seq(Buffers)]]
  PROVE  cached' \in [Threads -> [Stacks -> Seq(Buffers)]]
<1>1. CASE k \in Classes /\ tl_release(t, k, b)
  BY <1>1, PushStack DEF tl_release, Stacks
<1>2. CASE k \in Pools /\ release(t, k, b)
  BY <1>2, PushStack, ClearedBuffer DEF release, Stacks
<1> QED BY <1>1, <1>2

-----------------------------------------------------------------------------
(* Type correctness                                                        *)

LEMMA InitType == PoolAssumption /\ Init => TypeOK
BY DEF PoolAssumption, Init, TypeOK, Buffers

(* The guards of a class that a thread has are finitely many. *)
LEMMA GuardsAreFinite ==
  ASSUME PoolAssumption, NEW t, NEW c
  PROVE  IsFiniteSet(GuardsOf(t, c)) /\ Cardinality(GuardsOf(t, c)) \in Nat
<1>1. GuardsOf(t, c) \in SUBSET Handles /\ IsFiniteSet(Handles)
  BY DEF GuardsOf, PoolAssumption
<1> QED BY <1>1, FS_Subset, FS_CardinalityType

LEMMA CountedKeepsType ==
  ASSUME PoolAssumption, TypeOK, NEW t \in Threads, NEW k \in Kinds, Counted(t, k)
  PROVE  peak' \in [Threads -> [Classes -> Nat]]
<1>1. CASE k \in Classes
  <2>1. peak[t][k] \in Nat /\ Cardinality(GuardsOf(t, k)) + 1 \in Nat
    BY <1>1, GuardsAreFinite DEF TypeOK
  <2>2. larger(peak[t][k], Cardinality(GuardsOf(t, k)) + 1) \in Nat
    BY <2>1 DEF larger
  <2> QED BY <1>1, <2>2 DEF TypeOK, Counted
<1>2. CASE k \notin Classes
  BY <1>2 DEF TypeOK, Counted
<1> QED BY <1>1, <1>2

LEMMA NextType == PoolAssumption /\ TypeOK /\ [Next]_vars => TypeOK'
<1> SUFFICES ASSUME PoolAssumption, TypeOK, [Next]_vars
             PROVE  TypeOK'
  OBVIOUS
<1>1. ASSUME NEW t \in Threads, NEW h \in Handles, NEW k \in Kinds,
             AcquireNew(t, h, k)
      PROVE  TypeOK'
  <2>1. Guard(t, k, NewBuffer(k)) \in Held
    BY NewBufferIsClean, GuardIsHeld
  <2>2. peak' \in [Threads -> [Classes -> Nat]]
    BY <1>1, CountedKeepsType DEF AcquireNew
  <2>3. calls' \in 0..MaxCalls
    BY <1>1 DEF AcquireNew, TypeOK, PoolAssumption
  <2>4. made' \in [Threads -> [Classes -> Nat]]
    BY <1>1 DEF AcquireNew, TypeOK
  <2>5. held' \in [Handles -> Held \cup {Nothing}]
    BY <1>1, <2>1 DEF AcquireNew, TypeOK
  <2> QED BY <1>1, <2>2, <2>3, <2>4, <2>5 DEF AcquireNew, TypeOK
<1>2. ASSUME NEW t \in Threads, NEW h \in Handles, NEW k \in Kinds,
             AcquireCached(t, h, k)
      PROVE  TypeOK'
  <2> DEFINE stack == cached[t][StackOf(k)]
  <2>1. stack \in Seq(Buffers) /\ stack # << >> /\ StackOf(k) \in Stacks
    BY <1>2, KindSizes DEF AcquireCached, TypeOK
  <2>2. /\ SubSeq(stack, 1, Len(stack) - 1) \in Seq(Buffers)
        /\ stack[Len(stack)] \in Buffers
    BY <2>1, PopStack
  <2>3. Guard(t, k, Reused(k, stack[Len(stack)])) \in Held
    BY <2>2, ReusedBuffer, GuardIsHeld
  <2>4. held' = [held EXCEPT ![h] = Guard(t, k, Reused(k, stack[Len(stack)]))]
    BY <1>2 DEF AcquireCached
  <2>5. cached' = [cached EXCEPT ![t][StackOf(k)] = SubSeq(stack, 1, Len(stack) - 1)]
    BY <1>2 DEF AcquireCached
  <2>6. peak' \in [Threads -> [Classes -> Nat]]
    BY <1>2, CountedKeepsType DEF AcquireCached
  <2>7. calls' \in 0..MaxCalls
    BY <1>2 DEF AcquireCached, TypeOK, PoolAssumption
  <2> HIDE DEF stack
  <2>8. held' \in [Handles -> Held \cup {Nothing}]
    BY <2>3, <2>4 DEF TypeOK
  <2>9. cached' \in [Threads -> [Stacks -> Seq(Buffers)]]
    BY <2>1, <2>2, <2>5 DEF TypeOK
  <2> QED BY <1>2, <2>6, <2>7, <2>8, <2>9 DEF AcquireCached, TypeOK
<1>3. ASSUME NEW h \in Handles, Drop(h)
      PROVE  TypeOK'
  <2>1. held[h] \in Held
    BY <1>3, HeldIsSomething DEF Drop, TypeOK
  <2>2. cached' \in [Threads -> [Stacks -> Seq(Buffers)]]
    BY <1>3, <2>1, ReleaseKeepsType DEF Drop, Held, TypeOK, Kinds
  <2> QED BY <1>3, <2>2 DEF Drop, TypeOK
<1>4. ASSUME NEW h \in Handles, NEW p \in Pools, ReleaseRaw(h, p)
      PROVE  TypeOK'
  <2>1. held[h] \in Held /\ p \in Kinds
    BY <1>4, HeldIsSomething DEF ReleaseRaw, TypeOK, Kinds
  <2>2. cached' \in [Threads -> [Stacks -> Seq(Buffers)]]
    BY <1>4, <2>1, ReleaseKeepsType DEF ReleaseRaw, Held, TypeOK
  <2> QED BY <1>4, <2>2 DEF ReleaseRaw, TypeOK
<1>5. ASSUME NEW h \in Handles, into_inner(h)
      PROVE  TypeOK'
  <2>1. held[h] \in Held
    BY <1>5, HeldIsSomething DEF into_inner, TypeOK
  <2>2. [held[h] EXCEPT !.raw = TRUE] \in Held
    BY <2>1 DEF Held
  <2>3. held' = [held EXCEPT ![h] = [held[h] EXCEPT !.raw = TRUE]]
    BY <1>5 DEF into_inner, TypeOK
  <2>4. held' \in [Handles -> Held \cup {Nothing}]
    BY <2>2, <2>3 DEF TypeOK
  <2> QED BY <1>5, <2>4 DEF into_inner, TypeOK
<1>6. ASSUME NEW h \in Handles, DropRaw(h)
      PROVE  TypeOK'
  BY <1>6 DEF DropRaw, TypeOK
<1>7. ASSUME NEW h \in Handles, Write(h)
      PROVE  TypeOK'
  <2>1. held[h] \in Held
    BY <1>7, HeldIsSomething DEF Write, TypeOK
  <2>2. Written(held[h]) \in Held
    BY <2>1 DEF Written, Held, Buffers
  <2> QED BY <1>7, <2>2 DEF Write, TypeOK
<1>8. ASSUME NEW h \in Handles, NEW t \in Threads, Send(h, t)
      PROVE  TypeOK'
  <2>1. held[h] \in Held
    BY <1>8, HeldIsSomething DEF Send, TypeOK
  <2>2. [held[h] EXCEPT !.thread = t] \in Held
    BY <2>1 DEF Held
  <2>3. held' = [held EXCEPT ![h] = [held[h] EXCEPT !.thread = t]]
    BY <1>8 DEF Send, TypeOK
  <2>4. held' \in [Handles -> Held \cup {Nothing}]
    BY <2>2, <2>3 DEF TypeOK
  <2> QED BY <1>8, <2>4 DEF Send, TypeOK
<1>9. CASE UNCHANGED vars
  BY <1>9 DEF vars, TypeOK
<1> QED BY <1>1, <1>2, <1>3, <1>4, <1>5, <1>6, <1>7, <1>8, <1>9 DEF Next

(* Every variable of the pools keeps its type: a stack holds buffers whose *)
(* written part is within their length, and that within their capacity.    *)
THEOREM TypeCorrect == ASSUME PoolAssumption PROVE Spec => []TypeOK
<1>1. Init => TypeOK
  BY InitType
<1>2. TypeOK /\ [Next]_vars => TypeOK'
  BY NextType
<1> QED BY <1>1, <1>2, PTL DEF Spec

-----------------------------------------------------------------------------
(* Silence                                                                 *)

(* The stack shared by the BufferPools holds cleared buffers; those of the *)
(* classes need not, as acquiring clears.                                  *)
SharedIsClean ==
  \A t \in Threads : \A i \in 1..Len(cached[t]["shared"]) :
    cached[t]["shared"][i].dirty = 0

SilenceInv == SharedIsClean /\ FreshIsSilent

LEMMA PushKeepsClean ==
  ASSUME PoolAssumption, TypeOK, SharedIsClean,
         NEW t \in Threads, NEW s \in Stacks, NEW b \in Buffers,
         s # "shared" \/ b.dirty = 0, Push(t, s, b)
  PROVE  SharedIsClean'
<1>1. CASE cached' = cached
  BY <1>1 DEF SharedIsClean
<1>2. CASE cached' = [cached EXCEPT ![t][s] = Append(@, b)]
  <2>1. SUFFICES ASSUME NEW u \in Threads,
                        NEW i \in 1..Len(cached'[u]["shared"])
                 PROVE  cached'[u]["shared"][i].dirty = 0
    BY DEF SharedIsClean
  <2>2. "shared" \in Stacks
    BY DEF Stacks
  <2>3. CASE u = t /\ s = "shared"
    <3>1. cached'[u]["shared"] = Append(cached[u]["shared"], b)
      BY <1>2, <2>2, <2>3 DEF TypeOK
    <3>2. cached[u]["shared"] \in Seq(Buffers)
      BY <2>2 DEF TypeOK
    <3> QED BY <2>1, <2>3, <3>1, <3>2 DEF SharedIsClean
  <2>4. CASE u # t \/ s # "shared"
    <3>1. cached'[u]["shared"] = cached[u]["shared"]
      BY <1>2, <2>2, <2>4 DEF TypeOK
    <3> QED BY <2>1, <3>1 DEF SharedIsClean
  <2> QED BY <2>3, <2>4
<1> QED BY <1>1, <1>2 DEF Push

LEMMA ReleaseKeepsClean ==
  ASSUME PoolAssumption, TypeOK, SharedIsClean,
         NEW t \in Threads, NEW k \in Kinds, NEW b \in Buffers,
         \/ k \in Classes /\ tl_release(t, k, b)
         \/ k \in Pools /\ release(t, k, b)
         \/ UNCHANGED cached
  PROVE  SharedIsClean'
<1>1. CASE k \in Classes /\ tl_release(t, k, b)
  BY <1>1, PushKeepsClean, KindSizes DEF tl_release, Stacks, SharedIsClean
<1>2. CASE k \in Pools /\ release(t, k, b)
  BY <1>2, PushKeepsClean, ClearedBuffer DEF release, Stacks, SharedIsClean
<1>3. CASE UNCHANGED cached
  BY <1>3 DEF SharedIsClean
<1> QED BY <1>1, <1>2, <1>3

LEMMA InitSilence == PoolAssumption /\ Init => SilenceInv
BY DEF PoolAssumption, Init, SilenceInv, SharedIsClean, FreshIsSilent, Stacks

LEMMA NextSilence ==
  PoolAssumption /\ TypeOK /\ SilenceInv /\ [Next]_vars => SilenceInv'
<1> SUFFICES ASSUME PoolAssumption, TypeOK, SilenceInv, [Next]_vars
             PROVE  SilenceInv'
  OBVIOUS
<1>1. ASSUME NEW t \in Threads, NEW h \in Handles, NEW k \in Kinds,
             AcquireNew(t, h, k)
      PROVE  SilenceInv'
  <2>1. SharedIsClean'
    BY <1>1 DEF AcquireNew, SilenceInv, SharedIsClean
  <2>2. FreshIsSilent'
    BY <1>1, NewBufferIsClean
       DEF AcquireNew, SilenceInv, FreshIsSilent, TypeOK, Guard
  <2> QED BY <2>1, <2>2 DEF SilenceInv
<1>2. ASSUME NEW t \in Threads, NEW h \in Handles, NEW k \in Kinds,
             AcquireCached(t, h, k)
      PROVE  SilenceInv'
  <2> DEFINE stack == cached[t][StackOf(k)]
             taken == Reused(k, stack[Len(stack)])
  <2>1. stack \in Seq(Buffers) /\ stack # << >> /\ StackOf(k) \in Stacks
    BY <1>2, KindSizes DEF AcquireCached, TypeOK
  <2>2. /\ Len(SubSeq(stack, 1, Len(stack) - 1)) = Len(stack) - 1
        /\ Len(stack) \in 1..Len(stack) /\ stack[Len(stack)] \in Buffers
        /\ \A i \in 1..(Len(stack) - 1) :
             SubSeq(stack, 1, Len(stack) - 1)[i] = stack[i]
    BY <2>1, PopStack
  <2>3. held' = [held EXCEPT ![h] = Guard(t, k, taken)]
    BY <1>2 DEF AcquireCached
  <2>4. cached' = [cached EXCEPT ![t][StackOf(k)] = SubSeq(stack, 1, Len(stack) - 1)]
    BY <1>2 DEF AcquireCached
  <2>5. k \notin Classes => stack[Len(stack)].dirty = 0
    BY <2>2 DEF StackOf, SilenceInv, SharedIsClean
  <2>6. taken.dirty = 0 /\ taken.len = Size[k]
    BY <2>2, <2>5, ReusedBuffer
  <2>7. SharedIsClean'
    <3>1. SUFFICES ASSUME NEW u \in Threads,
                          NEW i \in 1..Len(cached'[u]["shared"])
                   PROVE  cached'[u]["shared"][i].dirty = 0
      BY DEF SharedIsClean
    <3>2. CASE u = t /\ StackOf(k) = "shared"
      <4>1. cached'[u]["shared"] = SubSeq(stack, 1, Len(stack) - 1)
        BY <2>1, <2>4, <3>2 DEF TypeOK
      <4>2. i \in 1..(Len(stack) - 1) /\ i \in 1..Len(stack)
        BY <2>1, <2>2, <3>1, <4>1, LenProperties
      <4>3. cached'[u]["shared"][i] = cached[t]["shared"][i]
        BY <2>2, <3>2, <4>1, <4>2
      <4> QED BY <3>2, <4>2, <4>3 DEF SilenceInv, SharedIsClean
    <3>3. CASE u # t \/ StackOf(k) # "shared"
      <4>1. cached'[u]["shared"] = cached[u]["shared"]
        BY <2>1, <2>4, <3>3 DEF TypeOK, Stacks
      <4> QED BY <3>1, <4>1 DEF SilenceInv, SharedIsClean
    <3> QED BY <3>2, <3>3
  <2> HIDE DEF taken, stack
  <2>8. FreshIsSilent'
    BY <2>3, <2>6 DEF SilenceInv, FreshIsSilent, TypeOK, Guard
  <2> QED BY <2>7, <2>8 DEF SilenceInv
<1>3. ASSUME NEW h \in Handles, Drop(h)
      PROVE  SilenceInv'
  <2>1. held[h] \in Held
    BY <1>3, HeldIsSomething DEF Drop, TypeOK
  <2>2. SharedIsClean'
    BY <1>3, <2>1, ReleaseKeepsClean DEF Drop, Held, Kinds, SilenceInv
  <2>3. FreshIsSilent'
    BY <1>3 DEF Drop, SilenceInv, FreshIsSilent, TypeOK
  <2> QED BY <2>2, <2>3 DEF SilenceInv
<1>4. ASSUME NEW h \in Handles, NEW p \in Pools, ReleaseRaw(h, p)
      PROVE  SilenceInv'
  <2>1. held[h] \in Held /\ p \in Kinds
    BY <1>4, HeldIsSomething DEF ReleaseRaw, TypeOK, Kinds
  <2>2. SharedIsClean'
    BY <1>4, <2>1, ReleaseKeepsClean DEF ReleaseRaw, Held, SilenceInv
  <2>3. FreshIsSilent'
    BY <1>4 DEF ReleaseRaw, SilenceInv, FreshIsSilent, TypeOK
  <2> QED BY <2>2, <2>3 DEF SilenceInv
<1>5. ASSUME NEW h \in Handles, into_inner(h)
      PROVE  SilenceInv'
  <2>1. held[h] \in Held
    BY <1>5, HeldIsSomething DEF into_inner, TypeOK
  <2>2. held' = [held EXCEPT ![h] = [held[h] EXCEPT !.raw = TRUE]]
    BY <1>5 DEF into_inner, TypeOK
  <2> QED BY <1>5, <2>1, <2>2
          DEF into_inner, SilenceInv, SharedIsClean, FreshIsSilent, TypeOK, Held
<1>6. ASSUME NEW h \in Handles, DropRaw(h)
      PROVE  SilenceInv'
  BY <1>6 DEF DropRaw, SilenceInv, SharedIsClean, FreshIsSilent, TypeOK
<1>7. ASSUME NEW h \in Handles, Write(h)
      PROVE  SilenceInv'
  BY <1>7 DEF Write, Written, SilenceInv, SharedIsClean, FreshIsSilent, TypeOK
<1>8. ASSUME NEW h \in Handles, NEW t \in Threads, Send(h, t)
      PROVE  SilenceInv'
  <2>1. held[h] \in Held
    BY <1>8, HeldIsSomething DEF Send, TypeOK
  <2>2. held' = [held EXCEPT ![h] = [held[h] EXCEPT !.thread = t]]
    BY <1>8 DEF Send, TypeOK
  <2> QED BY <1>8, <2>1, <2>2
          DEF Send, SilenceInv, SharedIsClean, FreshIsSilent, TypeOK, Held
<1>9. CASE UNCHANGED vars
  BY <1>9 DEF vars, SilenceInv, SharedIsClean, FreshIsSilent
<1> QED BY <1>1, <1>2, <1>3, <1>4, <1>5, <1>6, <1>7, <1>8, <1>9 DEF Next

(* A buffer nobody has written to since it was acquired is silent and has  *)
(* the length asked for, for any number of threads, pools and buffers.     *)
THEOREM FreshSilent == ASSUME PoolAssumption PROVE Spec => []FreshIsSilent
<1>1. Init => TypeOK /\ SilenceInv
  BY InitType, InitSilence
<1>2. TypeOK /\ SilenceInv /\ [Next]_vars => (TypeOK /\ SilenceInv)'
  BY NextType, NextSilence
<1>3. SilenceInv => FreshIsSilent
  BY DEF SilenceInv
<1> QED BY <1>1, <1>2, <1>3, PTL DEF Spec

-----------------------------------------------------------------------------
(* Capacities                                                              *)

(* A buffer of a class keeps the capacity it was made with, so the class   *)
(* always takes it back.                                                   *)
StacksSized ==
  \A t \in Threads, c \in Classes : \A i \in 1..Len(cached[t][c]) :
    cached[t][c][i].capacity = Size[c]

GuardsSized ==
  \A h \in Handles :
    held[h] # Nothing /\ ~held[h].raw /\ held[h].kind \in Classes
      => /\ held[h].buf.capacity = Size[held[h].kind]
         /\ held[h].buf.len = Size[held[h].kind]

SizesInv == StacksSized /\ GuardsSized

(* Push changes one stack. *)
LEMMA PushOthers ==
  ASSUME TypeOK, NEW t \in Threads, NEW s \in Stacks, NEW b \in Buffers,
         Push(t, s, b), NEW u \in Threads, NEW r \in Stacks, u # t \/ r # s
  PROVE  cached'[u][r] = cached[u][r]
BY DEF Push, TypeOK

LEMMA PushOnto ==
  ASSUME TypeOK, NEW t \in Threads, NEW s \in Stacks, NEW b \in Buffers,
         Push(t, s, b)
  PROVE  cached'[t][s] = IF Len(cached[t][s]) < MaxPooled
                         THEN Append(cached[t][s], b) ELSE cached[t][s]
BY DEF Push, TypeOK

(* A raw or legacy release leaves the stacks of the classes alone. *)
LEMMA ReleaseOthers ==
  ASSUME PoolAssumption, TypeOK, NEW t \in Threads, NEW p \in Pools,
         NEW b \in Buffers, release(t, p, b), NEW u \in Threads, NEW c \in Classes
  PROVE  cached'[u][c] = cached[u][c]
<1>1. c \in Stacks /\ c # "shared" /\ "shared" \in Stacks
  BY KindSizes DEF Stacks
<1>2. CASE Push(t, "shared", clear(b))
  BY <1>1, <1>2, PushOthers, ClearedBuffer
<1>3. CASE UNCHANGED cached
  BY <1>3
<1> QED BY <1>2, <1>3 DEF release

LEMMA FittingBuffer ==
  ASSUME PoolAssumption, NEW c \in Classes, NEW b \in Buffers,
         b.capacity = Size[c]
  PROVE  FitsClass(b, c)
<1>1. Size[c] \in Nat
  BY KindSizes
<1> QED BY <1>1 DEF FitsClass

(* Dropping a guard of a class puts its buffer back, if there is room. *)
LEMMA DropOfClass ==
  ASSUME PoolAssumption, TypeOK, SizesInv, NEW h \in Handles, Drop(h),
         held[h].kind \in Classes
  PROVE  /\ held[h] \in Held
         /\ held[h].buf.capacity = Size[held[h].kind]
         /\ Push(held[h].thread, held[h].kind, held[h].buf)
<1>1. held[h] \in Held /\ held[h] # Nothing /\ ~held[h].raw
  BY HeldIsSomething DEF Drop, TypeOK
<1>2. /\ held[h].buf \in Buffers
      /\ held[h].buf.capacity = Size[held[h].kind]
      /\ held[h].buf.len = Size[held[h].kind] /\ Size[held[h].kind] > 0
  BY <1>1 DEF SizesInv, GuardsSized, Held, PoolAssumption
<1>3. FitsClass(held[h].buf, held[h].kind)
  BY <1>2, FittingBuffer
<1>4. Size[held[h].kind] \in Nat
  BY KindSizes
<1>5. tl_release(held[h].thread, held[h].kind, held[h].buf)
  BY <1>2, <1>4 DEF Drop
<1> QED BY <1>1, <1>2, <1>3, <1>5 DEF tl_release

(* Dropping any other guard leaves the stacks of the classes alone. *)
LEMMA DropOfPool ==
  ASSUME PoolAssumption, TypeOK, NEW h \in Handles, Drop(h),
         held[h].kind \notin Classes, NEW u \in Threads, NEW c \in Classes
  PROVE  held[h] \in Held /\ cached'[u][c] = cached[u][c]
<1>1. held[h] \in Held
  BY HeldIsSomething DEF Drop, TypeOK
<1>2. /\ held[h].thread \in Threads /\ held[h].kind \in Pools
      /\ held[h].buf \in Buffers
  BY <1>1 DEF Held, Kinds
<1>3. UNCHANGED cached \/ release(held[h].thread, held[h].kind, held[h].buf)
  BY DEF Drop
<1> QED BY <1>1, <1>2, <1>3, ReleaseOthers

LEMMA InitSizes == PoolAssumption /\ Init => SizesInv
BY DEF PoolAssumption, Init, SizesInv, StacksSized, GuardsSized, Stacks

LEMMA NextSizes ==
  PoolAssumption /\ TypeOK /\ SizesInv /\ [Next]_vars => SizesInv'
<1> SUFFICES ASSUME PoolAssumption, TypeOK, SizesInv, [Next]_vars
             PROVE  SizesInv'
  OBVIOUS
<1>1. ASSUME NEW t \in Threads, NEW h \in Handles, NEW k \in Kinds,
             AcquireNew(t, h, k)
      PROVE  SizesInv'
  <2>1. StacksSized'
    BY <1>1 DEF AcquireNew, SizesInv, StacksSized
  <2>2. GuardsSized'
    BY <1>1, NewBufferIsClean
       DEF AcquireNew, SizesInv, GuardsSized, TypeOK, Guard
  <2> QED BY <2>1, <2>2 DEF SizesInv
<1>2. ASSUME NEW t \in Threads, NEW h \in Handles, NEW k \in Kinds,
             AcquireCached(t, h, k)
      PROVE  SizesInv'
  <2> DEFINE stack == cached[t][StackOf(k)]
             taken == Reused(k, stack[Len(stack)])
  <2>1. stack \in Seq(Buffers) /\ stack # << >> /\ StackOf(k) \in Stacks
    BY <1>2, KindSizes DEF AcquireCached, TypeOK
  <2>2. /\ Len(SubSeq(stack, 1, Len(stack) - 1)) = Len(stack) - 1
        /\ Len(stack) \in 1..Len(stack) /\ stack[Len(stack)] \in Buffers
        /\ \A i \in 1..(Len(stack) - 1) :
             SubSeq(stack, 1, Len(stack) - 1)[i] = stack[i]
    BY <2>1, PopStack
  <2>3. held' = [held EXCEPT ![h] = Guard(t, k, taken)]
    BY <1>2 DEF AcquireCached
  <2>4. cached' = [cached EXCEPT ![t][StackOf(k)] = SubSeq(stack, 1, Len(stack) - 1)]
    BY <1>2 DEF AcquireCached
  <2>5. k \in Classes => stack[Len(stack)].capacity = Size[k] /\ Size[k] \in Nat
    BY <2>2, KindSizes DEF StackOf, SizesInv, StacksSized
  <2>6. taken.len = Size[k] /\ (k \in Classes => taken.capacity = Size[k])
    BY <2>2, <2>5, ReusedBuffer
  <2>7. StacksSized'
    <3>1. SUFFICES ASSUME NEW u \in Threads, NEW c \in Classes,
                          NEW i \in 1..Len(cached'[u][c])
                   PROVE  cached'[u][c][i].capacity = Size[c]
      BY DEF StacksSized
    <3>2. CASE u = t /\ StackOf(k) = c
      <4>1. cached'[u][c] = SubSeq(stack, 1, Len(stack) - 1)
        BY <2>1, <2>4, <3>2 DEF TypeOK
      <4>2. i \in 1..(Len(stack) - 1) /\ i \in 1..Len(stack)
        BY <2>1, <2>2, <3>1, <4>1, LenProperties
      <4>3. cached'[u][c][i] = cached[t][c][i]
        BY <2>2, <3>2, <4>1, <4>2
      <4> QED BY <3>2, <4>2, <4>3 DEF SizesInv, StacksSized
    <3>3. CASE u # t \/ StackOf(k) # c
      <4>1. cached'[u][c] = cached[u][c]
        BY <2>1, <2>4, <3>3 DEF TypeOK, Stacks
      <4> QED BY <3>1, <4>1 DEF SizesInv, StacksSized
    <3> QED BY <3>2, <3>3
  <2> HIDE DEF taken, stack
  <2>8. GuardsSized'
    BY <2>3, <2>6 DEF SizesInv, GuardsSized, TypeOK, Guard
  <2> QED BY <2>7, <2>8 DEF SizesInv
<1>3. ASSUME NEW h \in Handles, Drop(h)
      PROVE  SizesInv'
  <2>1. GuardsSized'
    BY <1>3 DEF Drop, SizesInv, GuardsSized, TypeOK
  <2>2. SUFFICES ASSUME NEW u \in Threads, NEW c \in Classes,
                        NEW i \in 1..Len(cached'[u][c])
                 PROVE  cached'[u][c][i].capacity = Size[c]
    BY <2>1 DEF SizesInv, StacksSized
  <2>3. CASE cached'[u][c] = cached[u][c]
    BY <2>2, <2>3 DEF SizesInv, StacksSized
  <2>4. CASE held[h].kind \in Classes /\ held[h].thread = u /\ held[h].kind = c
    <3> DEFINE b == held[h].buf
    <3>1. b \in Buffers /\ b.capacity = Size[c] /\ Push(u, c, b) /\ c \in Stacks
      BY <1>3, <2>4, DropOfClass DEF Held, Stacks
    <3>2. cached[u][c] \in Seq(Buffers)
      BY <3>1 DEF TypeOK
    <3>3. CASE cached'[u][c] = Append(cached[u][c], b)
      <4> HIDE DEF b
      <4> QED BY <2>2, <3>1, <3>2, <3>3 DEF SizesInv, StacksSized
    <3> QED BY <2>3, <3>1, <3>3, PushOnto
  <2>5. CASE held[h].kind \in Classes /\ (held[h].thread # u \/ held[h].kind # c)
    BY <1>3, <2>3, <2>5, DropOfClass, PushOthers DEF Held, Stacks
  <2>6. CASE held[h].kind \notin Classes
    BY <1>3, <2>3, <2>6, DropOfPool
  <2> QED BY <2>4, <2>5, <2>6
<1>4. ASSUME NEW h \in Handles, NEW p \in Pools, ReleaseRaw(h, p)
      PROVE  SizesInv'
  <2>1. held[h] \in Held
    BY <1>4, HeldIsSomething DEF ReleaseRaw, TypeOK
  <2>2. \A u \in Threads, c \in Classes : cached'[u][c] = cached[u][c]
    BY <1>4, <2>1, ReleaseOthers DEF ReleaseRaw, Held
  <2>3. GuardsSized'
    BY <1>4 DEF ReleaseRaw, SizesInv, GuardsSized, TypeOK
  <2> QED BY <2>2, <2>3 DEF SizesInv, StacksSized
<1>5. ASSUME NEW h \in Handles, into_inner(h)
      PROVE  SizesInv'
  <2>1. held[h] \in Held
    BY <1>5, HeldIsSomething DEF into_inner, TypeOK
  <2>2. held' = [held EXCEPT ![h] = [held[h] EXCEPT !.raw = TRUE]]
    BY <1>5 DEF into_inner, TypeOK
  <2> QED BY <1>5, <2>1, <2>2
          DEF into_inner, SizesInv, StacksSized, GuardsSized, TypeOK, Held
<1>6. ASSUME NEW h \in Handles, DropRaw(h)
      PROVE  SizesInv'
  BY <1>6 DEF DropRaw, SizesInv, StacksSized, GuardsSized, TypeOK
<1>7. ASSUME NEW h \in Handles, Write(h)
      PROVE  SizesInv'
  <2>1. held[h] \in Held
    BY <1>7, HeldIsSomething DEF Write, TypeOK
  <2>2. /\ Written(held[h]).kind = held[h].kind
        /\ Written(held[h]).raw = held[h].raw
        /\ Written(held[h]).buf.capacity = held[h].buf.capacity
        /\ Written(held[h]).buf.len = held[h].buf.len
    BY <2>1 DEF Written, Held, Buffers
  <2> QED BY <1>7, <2>2 DEF Write, SizesInv, StacksSized, GuardsSized, TypeOK
<1>8. ASSUME NEW h \in Handles, NEW t \in Threads, Send(h, t)
      PROVE  SizesInv'
  <2>1. held[h] \in Held
    BY <1>8, HeldIsSomething DEF Send, TypeOK
  <2>2. held' = [held EXCEPT ![h] = [held[h] EXCEPT !.thread = t]]
    BY <1>8 DEF Send, TypeOK
  <2> QED BY <1>8, <2>1, <2>2
          DEF Send, SizesInv, StacksSized, GuardsSized, TypeOK, Held
<1>9. CASE UNCHANGED vars
  BY <1>9 DEF vars, SizesInv, StacksSized, GuardsSized
<1> QED BY <1>1, <1>2, <1>3, <1>4, <1>5, <1>6, <1>7, <1>8, <1>9 DEF Next

-----------------------------------------------------------------------------
(* Allocations                                                             *)

IsGuard(g, t, c) == g.kind = c /\ g.thread = t /\ ~g.raw

(* The number of guards of a class that a thread has, after one handle     *)
(* changed.                                                                *)
LEMMA GuardsAfter ==
  ASSUME PoolAssumption, TypeOK, NEW h \in Handles, NEW g,
         held' = [held EXCEPT ![h] = g], NEW t, NEW c
  PROVE  LET before == Cardinality(GuardsOf(t, c))
         IN  /\ before \in Nat
             /\ IsGuard(held[h], t, c) => before > 0
             /\ Cardinality(GuardsOf(t, c)') =
                  IF IsGuard(g, t, c) <=> IsGuard(held[h], t, c) THEN before
                  ELSE IF IsGuard(g, t, c) THEN before + 1 ELSE before - 1
<1> DEFINE G == GuardsOf(t, c)
           H == GuardsOf(t, c)'
<1>1. IsFiniteSet(G) /\ Cardinality(G) \in Nat
  BY GuardsAreFinite
<1>2. h \in G <=> IsGuard(held[h], t, c)
  BY DEF GuardsOf, IsGuard
<1>3. H = IF IsGuard(g, t, c) THEN G \cup {h} ELSE G \ {h}
  BY DEF GuardsOf, IsGuard, TypeOK
<1>4. h \in G => G \cup {h} = G
  OBVIOUS
<1>5. h \notin G => G \ {h} = G
  OBVIOUS
<1> HIDE DEF G, H
<1>6. h \in G => Cardinality(G) > 0
  <2>1. Cardinality(G) = 0 => G = {}
    BY <1>1, FS_EmptySet
  <2> QED BY <1>1, <2>1
<1>7. h \notin G => Cardinality(G \cup {h}) = Cardinality(G) + 1
  BY <1>1, FS_AddElement
<1>8. h \in G => Cardinality(G \ {h}) = Cardinality(G) - 1
  BY <1>1, FS_RemoveElement
<1>9. CASE IsGuard(g, t, c)
  BY <1>1, <1>2, <1>3, <1>4, <1>6, <1>7, <1>9 DEF G, H
<1>10. CASE ~IsGuard(g, t, c)
  <2>1. IsGuard(held[h], t, c) \in BOOLEAN /\ IsGuard(g, t, c) = FALSE
    BY <1>10 DEF IsGuard
  <2>2. CASE h \in G
    <3>1. Cardinality(H) = Cardinality(G) - 1 /\ Cardinality(G) > 0
      BY <1>3, <1>6, <1>8, <1>10, <2>2
    <3> QED BY <1>1, <1>2, <2>1, <2>2, <3>1 DEF G, H
  <2>3. CASE h \notin G
    <3>1. H = G
      BY <1>3, <1>5, <1>10, <2>3
    <3>2. IsGuard(held[h], t, c) = FALSE
      BY <1>2, <2>1, <2>3
    <3> QED BY <1>1, <2>1, <3>1, <3>2 DEF G, H
  <2> QED BY <2>2, <2>3
<1> QED BY <1>9, <1>10

(* A thread that keeps its guards has made as many buffers as it has had   *)
(* guards at a time; they are in its hands or on its stack.                *)
Balanced(t, c) ==
  <<t, c>> \notin strayed /\ peak[t][c] <= MaxPooled
    => /\ made[t][c] = peak[t][c]
       /\ Len(cached[t][c]) + Cardinality(GuardsOf(t, c)) = made[t][c]

AllBalanced == \A t \in Threads, c \in Classes : Balanced(t, c)

LEMMA BalanceTypes ==
  ASSUME PoolAssumption, TypeOK, NEW t \in Threads, NEW c \in Classes
  PROVE  /\ made[t][c] \in Nat /\ peak[t][c] \in Nat /\ MaxPooled \in Nat
         /\ cached[t][c] \in Seq(Buffers) /\ Len(cached[t][c]) \in Nat
<1>1. cached[t][c] \in Seq(Buffers)
  BY DEF TypeOK, Stacks
<1> QED BY <1>1, LenProperties DEF TypeOK, PoolAssumption

(* A step that leaves alone the buffers, counts and guards of t and c.     *)
LEMMA BalanceUntouched ==
  ASSUME PoolAssumption, TypeOK, NEW t \in Threads, NEW c \in Classes,
         Balanced(t, c), NEW h \in Handles, NEW g,
         held' = [held EXCEPT ![h] = g],
         IsGuard(g, t, c) <=> IsGuard(held[h], t, c),
         cached'[t][c] = cached[t][c], made'[t][c] = made[t][c],
         peak'[t][c] = peak[t][c], strayed \subseteq strayed'
  PROVE  Balanced(t, c)'
<1>1. Cardinality(GuardsOf(t, c)') = Cardinality(GuardsOf(t, c))
  BY GuardsAfter
<1> QED BY <1>1 DEF Balanced

LEMMA CountedOthers ==
  ASSUME TypeOK, NEW t \in Threads, NEW k \in Kinds, Counted(t, k),
         NEW u \in Threads, NEW c \in Classes, u # t \/ c # k
  PROVE  peak'[u][c] = peak[u][c]
BY DEF Counted, TypeOK

LEMMA CountedOwn ==
  ASSUME TypeOK, NEW t \in Threads, NEW c \in Classes, Counted(t, c)
  PROVE  peak'[t][c] = larger(peak[t][c], Cardinality(GuardsOf(t, c)) + 1)
BY DEF Counted, TypeOK

LEMMA NothingIsNoGuard ==
  ASSUME PoolAssumption, NEW t, NEW c \in Classes
  PROVE  ~IsGuard(Nothing, t, c)
BY DEF PoolAssumption, IsGuard, Nothing, Kinds

LEMMA InitBalance == PoolAssumption /\ Init => AllBalanced
<1> SUFFICES ASSUME PoolAssumption, Init, NEW t \in Threads, NEW c \in Classes
             PROVE  Balanced(t, c)
  BY DEF AllBalanced
<1>1. GuardsOf(t, c) = {}
  BY DEF GuardsOf, Init, Nothing, PoolAssumption, Kinds
<1>2. Cardinality(GuardsOf(t, c)) = 0
  BY <1>1, FS_EmptySet
<1>3. cached[t][c] = << >> /\ made[t][c] = 0 /\ peak[t][c] = 0
  BY DEF Init, Stacks
<1> QED BY <1>2, <1>3 DEF Balanced

LEMMA AcquireNewBalance ==
  ASSUME PoolAssumption, TypeOK, AllBalanced, NEW t \in Threads,
         NEW h \in Handles, NEW k \in Kinds, AcquireNew(t, h, k)
  PROVE  AllBalanced'
<1> DEFINE g == Guard(t, k, NewBuffer(k))
<1> SUFFICES ASSUME NEW u \in Threads, NEW c \in Classes
             PROVE  Balanced(u, c)'
  BY DEF AllBalanced
<1>1. held' = [held EXCEPT ![h] = g] /\ ~IsGuard(held[h], u, c)
  BY NothingIsNoGuard DEF AcquireNew
<1>2. IsGuard(g, u, c) <=> u = t /\ c = k
  BY DEF IsGuard, Guard
<1> HIDE DEF g
<1>3. CASE u = t /\ c = k
  <2>1. Cardinality(GuardsOf(u, c)') = Cardinality(GuardsOf(u, c)) + 1
    BY <1>1, <1>2, <1>3, GuardsAfter
  <2>2. /\ made'[u][c] = made[u][c] + 1
        /\ cached'[u][c] = << >> /\ cached[u][c] = << >>
        /\ peak'[u][c] = larger(peak[u][c], Cardinality(GuardsOf(u, c)) + 1)
        /\ strayed' = strayed
    BY <1>3, CountedOwn DEF AcquireNew, TypeOK, StackOf
  <2>3. Balanced(u, c) /\ Cardinality(GuardsOf(u, c)) \in Nat
    BY GuardsAreFinite DEF AllBalanced
  <2>4. Len(cached[u][c]) = 0 /\ Len(cached'[u][c]) = 0
    BY <2>2
  <2>5. peak[u][c] <= peak'[u][c]
    BY <2>2, <2>3, BalanceTypes DEF larger
  <2>6. peak'[u][c] \in Nat
    BY <2>2, <2>3, BalanceTypes DEF larger
  <2> QED BY <2>1, <2>2, <2>3, <2>4, <2>5, <2>6, BalanceTypes DEF Balanced, larger
<1>4. CASE u # t \/ c # k
  <2>1. cached'[u][c] = cached[u][c] /\ strayed' = strayed
    BY DEF AcquireNew
  <2>2. made'[u][c] = made[u][c]
    BY <1>4 DEF AcquireNew, TypeOK
  <2>3. peak'[u][c] = peak[u][c]
    BY <1>4, CountedOthers DEF AcquireNew
  <2> QED BY <1>1, <1>2, <1>4, <2>1, <2>2, <2>3, BalanceUntouched DEF AllBalanced
<1> QED BY <1>3, <1>4

LEMMA AcquireCachedBalance ==
  ASSUME PoolAssumption, TypeOK, AllBalanced, NEW t \in Threads,
         NEW h \in Handles, NEW k \in Kinds, AcquireCached(t, h, k)
  PROVE  AllBalanced'
<1> DEFINE stack == cached[t][StackOf(k)]
           g == Guard(t, k, Reused(k, stack[Len(stack)]))
<1> SUFFICES ASSUME NEW u \in Threads, NEW c \in Classes
             PROVE  Balanced(u, c)'
  BY DEF AllBalanced
<1>1. held' = [held EXCEPT ![h] = g] /\ ~IsGuard(held[h], u, c)
  BY NothingIsNoGuard DEF AcquireCached
<1>2. IsGuard(g, u, c) <=> u = t /\ c = k
  BY DEF IsGuard, Guard
<1>3. /\ stack \in Seq(Buffers) /\ stack # << >> /\ StackOf(k) \in Stacks
      /\ cached' = [cached EXCEPT ![t][StackOf(k)] = SubSeq(stack, 1, Len(stack) - 1)]
  BY KindSizes DEF AcquireCached, TypeOK
<1>4. made' = made /\ strayed' = strayed /\ Counted(t, k)
  BY DEF AcquireCached
<1>5. StackOf(k) = c <=> k = c
  BY DEF StackOf, PoolAssumption
<1>6. Len(SubSeq(stack, 1, Len(stack) - 1)) = Len(stack) - 1
  BY <1>3, PopStack
<1>7. Len(stack) \in Nat /\ Len(stack) > 0
  BY <1>3, LenProperties, EmptySeq
<1>8. CASE u = t /\ c = k
  <2>1. /\ cached'[u][c] = SubSeq(stack, 1, Len(stack) - 1)
        /\ cached[u][c] = stack
    BY <1>3, <1>5, <1>8 DEF TypeOK
  <2> HIDE DEF g, stack
  <2>2. Cardinality(GuardsOf(u, c)') = Cardinality(GuardsOf(u, c)) + 1
    BY <1>1, <1>2, <1>8, GuardsAfter
  <2>3. Len(cached'[u][c]) = Len(cached[u][c]) - 1 /\ Len(cached[u][c]) > 0
    BY <1>6, <1>7, <2>1
  <2>4. peak'[u][c] = larger(peak[u][c], Cardinality(GuardsOf(u, c)) + 1)
    BY <1>4, <1>8, CountedOwn
  <2>5. Balanced(u, c) /\ Cardinality(GuardsOf(u, c)) \in Nat
    BY GuardsAreFinite DEF AllBalanced
  <2>6. peak[u][c] <= peak'[u][c] /\ peak'[u][c] \in Nat
    BY <2>4, <2>5, BalanceTypes DEF larger
  <2>7. SUFFICES ASSUME <<u, c>> \notin strayed, peak'[u][c] <= MaxPooled
                 PROVE  /\ made[u][c] = peak'[u][c]
                        /\ Len(cached'[u][c]) + Cardinality(GuardsOf(u, c)')
                             = made[u][c]
    BY <1>4 DEF Balanced
  <2>8. /\ made[u][c] = peak[u][c]
        /\ Len(cached[u][c]) + Cardinality(GuardsOf(u, c)) = made[u][c]
    BY <2>5, <2>6, <2>7, BalanceTypes DEF Balanced
  <2>9. peak'[u][c] = peak[u][c]
    BY <2>3, <2>4, <2>5, <2>8, BalanceTypes DEF larger
  <2>10. Len(cached'[u][c]) + Cardinality(GuardsOf(u, c)') = made[u][c]
    BY <2>2, <2>3, <2>5, <2>8, BalanceTypes
  <2> QED BY <2>8, <2>9, <2>10
<1>9. CASE u # t \/ c # k
  <2>1. cached'[u][c] = cached[u][c]
    BY <1>3, <1>5, <1>9 DEF TypeOK, Stacks
  <2>2. peak'[u][c] = peak[u][c]
    BY <1>4, <1>9, CountedOthers
  <2> HIDE DEF g
  <2> QED BY <1>1, <1>2, <1>4, <1>9, <2>1, <2>2, BalanceUntouched DEF AllBalanced
<1> QED BY <1>8, <1>9

LEMMA DropBalance ==
  ASSUME PoolAssumption, TypeOK, SizesInv, AllBalanced, NEW h \in Handles, Drop(h)
  PROVE  AllBalanced'
<1> SUFFICES ASSUME NEW u \in Threads, NEW c \in Classes
             PROVE  Balanced(u, c)'
  BY DEF AllBalanced
<1>1. /\ held' = [held EXCEPT ![h] = Nothing] /\ ~held[h].raw
      /\ made' = made /\ peak' = peak /\ strayed' = strayed
  BY DEF Drop
<1>2. ~IsGuard(Nothing, u, c) /\ Balanced(u, c)
  BY NothingIsNoGuard DEF AllBalanced
<1>3. CASE IsGuard(held[h], u, c)
  <2> DEFINE b == held[h].buf
  <2>1. b \in Buffers /\ Push(u, c, b) /\ c \in Stacks
    BY <1>3, DropOfClass DEF Held, IsGuard, Stacks
  <2> HIDE DEF b
  <2>2. cached'[u][c] = IF Len(cached[u][c]) < MaxPooled
                        THEN Append(cached[u][c], b) ELSE cached[u][c]
    BY <2>1, PushOnto
  <2>3. Len(Append(cached[u][c], b)) = Len(cached[u][c]) + 1
    BY <2>1, BalanceTypes
  <2>4. /\ Cardinality(GuardsOf(u, c)) \in Nat
        /\ Cardinality(GuardsOf(u, c)) > 0
        /\ Cardinality(GuardsOf(u, c)') = Cardinality(GuardsOf(u, c)) - 1
    BY <1>1, <1>2, <1>3, GuardsAfter
  <2> QED BY <1>1, <1>2, <2>2, <2>3, <2>4, BalanceTypes DEF Balanced
<1>4. CASE ~IsGuard(held[h], u, c)
  <2>1. ASSUME held[h].kind \in Classes
        PROVE  cached'[u][c] = cached[u][c]
    <3>1. /\ held[h].thread \in Threads /\ held[h].kind \in Stacks
          /\ held[h].buf \in Buffers /\ c \in Stacks
          /\ Push(held[h].thread, held[h].kind, held[h].buf)
      BY <2>1, DropOfClass DEF Held, Stacks
    <3>2. u # held[h].thread \/ c # held[h].kind
      BY <1>1, <1>4 DEF IsGuard
    <3> QED BY <3>1, <3>2, PushOthers
  <2>2. ASSUME held[h].kind \notin Classes
        PROVE  cached'[u][c] = cached[u][c]
    BY <2>2, DropOfPool
  <2>3. cached'[u][c] = cached[u][c]
    BY <2>1, <2>2
  <2> QED BY <1>1, <1>2, <1>4, <2>3, BalanceUntouched
<1> QED BY <1>3, <1>4

LEMMA NextBalance ==
  PoolAssumption /\ TypeOK /\ SizesInv /\ AllBalanced /\ [Next]_vars
    => AllBalanced'
<1> SUFFICES ASSUME PoolAssumption, TypeOK, SizesInv, AllBalanced, [Next]_vars
             PROVE  AllBalanced'
  OBVIOUS
<1>1. ASSUME NEW t \in Threads, NEW h \in Handles, NEW k \in Kinds,
             AcquireNew(t, h, k) \/ AcquireCached(t, h, k)
      PROVE  AllBalanced'
  BY <1>1, AcquireNewBalance, AcquireCachedBalance
<1>2. ASSUME NEW h \in Handles, Drop(h)
      PROVE  AllBalanced'
  BY <1>2, DropBalance
<1>3. ASSUME NEW h \in Handles, NEW p \in Pools, ReleaseRaw(h, p)
      PROVE  AllBalanced'
  <2> SUFFICES ASSUME NEW u \in Threads, NEW c \in Classes
               PROVE  Balanced(u, c)'
    BY DEF AllBalanced
  <2>1. held[h] \in Held /\ held[h].raw
    BY <1>3, HeldIsSomething DEF ReleaseRaw, TypeOK
  <2>2. cached'[u][c] = cached[u][c]
    BY <1>3, <2>1, ReleaseOthers DEF ReleaseRaw, Held
  <2>3. ~IsGuard(held[h], u, c) /\ ~IsGuard(Nothing, u, c)
    BY <2>1, NothingIsNoGuard DEF IsGuard
  <2> QED BY <1>3, <2>2, <2>3, BalanceUntouched DEF ReleaseRaw, AllBalanced
<1>4. ASSUME NEW h \in Handles, DropRaw(h)
      PROVE  AllBalanced'
  <2> SUFFICES ASSUME NEW u \in Threads, NEW c \in Classes
               PROVE  Balanced(u, c)'
    BY DEF AllBalanced
  <2>1. ~IsGuard(held[h], u, c) /\ ~IsGuard(Nothing, u, c)
    BY <1>4, NothingIsNoGuard DEF IsGuard, DropRaw
  <2> QED BY <1>4, <2>1, BalanceUntouched DEF DropRaw, AllBalanced
<1>5. ASSUME NEW h \in Handles, into_inner(h)
      PROVE  AllBalanced'
  <2> SUFFICES ASSUME NEW u \in Threads, NEW c \in Classes
               PROVE  Balanced(u, c)'
    BY DEF AllBalanced
  <2> DEFINE g == [held[h] EXCEPT !.raw = TRUE]
  <2>1. held[h] \in Held
    BY <1>5, HeldIsSomething DEF into_inner, TypeOK
  <2>2. held' = [held EXCEPT ![h] = g]
    BY <1>5 DEF into_inner, TypeOK
  <2>3. ~IsGuard(g, u, c)
    BY <2>1 DEF IsGuard, Held
  <2>4. CASE IsGuard(held[h], u, c)
    <3>1. <<u, c>> \in strayed'
      BY <1>5, <2>4 DEF into_inner, IsGuard, Owners
    <3> QED BY <3>1 DEF Balanced
  <2> HIDE DEF g
  <2>5. CASE ~IsGuard(held[h], u, c)
    BY <1>5, <2>2, <2>3, <2>5, BalanceUntouched DEF into_inner, AllBalanced
  <2> QED BY <2>4, <2>5
<1>6. ASSUME NEW h \in Handles, Write(h)
      PROVE  AllBalanced'
  <2> SUFFICES ASSUME NEW u \in Threads, NEW c \in Classes
               PROVE  Balanced(u, c)'
    BY DEF AllBalanced
  <2>1. IsGuard(Written(held[h]), u, c) <=> IsGuard(held[h], u, c)
    BY DEF IsGuard, Written
  <2> QED BY <1>6, <2>1, BalanceUntouched DEF Write, AllBalanced
<1>7. ASSUME NEW h \in Handles, NEW t \in Threads, Send(h, t)
      PROVE  AllBalanced'
  <2> SUFFICES ASSUME NEW u \in Threads, NEW c \in Classes
               PROVE  Balanced(u, c)'
    BY DEF AllBalanced
  <2> DEFINE g == [held[h] EXCEPT !.thread = t]
  <2>1. held[h] \in Held
    BY <1>7, HeldIsSomething DEF Send, TypeOK
  <2>2. held' = [held EXCEPT ![h] = g]
    BY <1>7 DEF Send, TypeOK
  <2>3. g.kind = held[h].kind /\ g.thread = t
    BY <2>1 DEF Held
  <2> HIDE DEF g
  <2>4. CASE IsGuard(held[h], u, c) \/ IsGuard(g, u, c)
    <3>1. <<u, c>> \in strayed'
      BY <1>7, <2>3, <2>4 DEF Send, IsGuard, Owners
    <3> QED BY <3>1 DEF Balanced
  <2>5. CASE ~IsGuard(held[h], u, c) /\ ~IsGuard(g, u, c)
    BY <1>7, <2>2, <2>5, BalanceUntouched DEF Send, AllBalanced
  <2> QED BY <2>4, <2>5
<1>8. CASE UNCHANGED vars
  BY <1>8 DEF vars, AllBalanced, Balanced, GuardsOf
<1> QED BY <1>1, <1>2, <1>3, <1>4, <1>5, <1>6, <1>7, <1>8 DEF Next

(* A thread that keeps its guards of a class, and never more than its      *)
(* stack takes, allocates only for its busiest moment, for any numbers of  *)
(* threads, classes and calls and any limit of the stacks.                 *)
THEOREM AllocatesAtPeak == ASSUME PoolAssumption PROVE Spec => []AllocatesAtPeakOnly
<1> DEFINE Inv == TypeOK /\ SizesInv /\ AllBalanced
<1>1. Init => Inv
  BY InitType, InitSizes, InitBalance
<1>2. Inv /\ [Next]_vars => Inv'
  BY NextType, NextSizes, NextBalance
<1>3. Inv => AllocatesAtPeakOnly
  BY DEF AllBalanced, Balanced, AllocatesAtPeakOnly
<1> QED BY <1>1, <1>2, <1>3, PTL DEF Spec
=============================================================================
