------------------------------ MODULE IoProofs ------------------------------
(***************************************************************************)
(* Theorems about three components that share no state: Splice, for any    *)
(* sources, any size of a round and any capacity of the pipe; UringStat,   *)
(* for any paths and any size of the ring; and FfmpegCalls, for any        *)
(* threads.  Then, with those of CoreProofs, about all the components of   *)
(* CoreParts next to each other.                                           *)
(***************************************************************************)
EXTENDS CoreProofs

(* The inductive invariant: while a source is copied it is one of the      *)
(* call's, and no more of it has been read than it has.                    *)
InSource ==
  /\ splice_phase = "start" => opened = 0 /\ pipe = << >>
  /\ splice_phase \in {"open", "fill", "drain"} => opened = 1
  /\ splice_phase \in {"fill", "drain"} => at <= Len(SourceFiles) /\ offset <= Len(SourceFiles[at])

SpliceInv == Copies!TypeOK /\ Copies!PipeSettled /\ InSource

-----------------------------------------------------------------------------
LEMMA SourcesAreSequences ==
  ASSUME Copies!SpliceAssumption
  PROVE  /\ Len(SourceFiles) \in Nat /\ RoundSize \in Nat /\ Capacity \in Nat
         /\ \A k \in 1..Len(SourceFiles) : SourceFiles[k] \in Seq(Nat) /\ Len(SourceFiles[k]) \in Nat
BY DEF Copies!SpliceAssumption

LEMMA SmallerOfTwo ==
  ASSUME NEW a \in Int, NEW b \in Int
  PROVE  Copies!AtMost(a, b) \in Int /\ Copies!AtMost(a, b) <= a /\ Copies!AtMost(a, b) <= b
BY DEF Copies!AtMost

LEMMA InitInv == ASSUME Copies!SpliceAssumption, Copies!Init PROVE SpliceInv
<1>1. Copies!TypeOK
  BY SourcesAreSequences DEF Copies!Init, Copies!TypeOK, Copies!Result
<1>2. Copies!PipeSettled /\ InSource
  BY DEF Copies!Init, Copies!PipeSettled, InSource
<1> QED BY <1>1, <1>2 DEF SpliceInv

(* A round reads at least a byte, and no more than there is. *)
LEMMA RoundInRange ==
  ASSUME Copies!SpliceAssumption, SpliceInv, splice_phase = "fill",
         NEW n \in 1..Copies!AtMost(Copies!AtMost(RoundSize, Copies!Left), Capacity - Len(pipe))
  PROVE  /\ SourceFiles[at] \in Seq(Nat) /\ Len(SourceFiles[at]) \in Nat
         /\ offset + n \in 0..Len(SourceFiles[at]) /\ n \in 1..RoundSize
         /\ SubSeq(SourceFiles[at], offset + 1, offset + n) \in Seq(Nat)
         /\ Len(SubSeq(SourceFiles[at], offset + 1, offset + n)) = n
<1>1. /\ at \in 1..Len(SourceFiles) /\ offset \in Nat /\ offset <= Len(SourceFiles[at])
      /\ pipe = << >>
  BY SourcesAreSequences DEF SpliceInv, Copies!TypeOK, Copies!PipeSettled, InSource
<1>2. SourceFiles[at] \in Seq(Nat) /\ Len(SourceFiles[at]) \in Nat
  BY <1>1, SourcesAreSequences
<1>3. Copies!Left \in Nat /\ RoundSize \in Nat /\ Capacity - Len(pipe) \in Int
  BY <1>1, <1>2, SourcesAreSequences DEF Copies!Left
<1>4. n \in Nat /\ 1 <= n /\ n <= Copies!Left /\ n <= RoundSize
  <2>1. /\ Copies!AtMost(RoundSize, Copies!Left) \in Int
        /\ Copies!AtMost(RoundSize, Copies!Left) <= RoundSize /\ Copies!AtMost(RoundSize, Copies!Left) <= Copies!Left
    BY <1>3, SmallerOfTwo
  <2> DEFINE most == Copies!AtMost(Copies!AtMost(RoundSize, Copies!Left), Capacity - Len(pipe))
  <2>2. most \in Int /\ most <= Copies!AtMost(RoundSize, Copies!Left)
    BY <1>3, <2>1, SmallerOfTwo
  <2> QED BY <1>3, <2>1, <2>2
<1>5. offset + n \in 0..Len(SourceFiles[at]) /\ n \in 1..RoundSize
  BY <1>1, <1>2, <1>3, <1>4 DEF Copies!Left
<1>6. \A x \in (offset + 1)..(offset + n) : SourceFiles[at][x] \in Nat
  BY <1>1, <1>2, <1>5
<1>7. /\ SubSeq(SourceFiles[at], offset + 1, offset + n) \in Seq(Nat)
      /\ Len(SubSeq(SourceFiles[at], offset + 1, offset + n)) = n
  BY <1>1, <1>4, <1>6, SubSeqProperties
<1> QED BY <1>2, <1>5, <1>7

(* What a drain takes, and what it leaves. *)
LEMMA PartsOfPipe ==
  ASSUME Copies!SpliceAssumption, SpliceInv, splice_phase = "drain",
         NEW n \in 1..Copies!AtMost(remaining, Len(pipe))
  PROVE  /\ remaining \in Nat /\ Len(pipe) = remaining
         /\ n \in 1..remaining
         /\ SubSeq(pipe, 1, n) \in Seq(Nat)
         /\ SubSeq(pipe, n + 1, Len(pipe)) \in Seq(Nat)
         /\ Len(SubSeq(pipe, n + 1, Len(pipe))) = remaining - n
<1>1. pipe \in Seq(Nat) /\ remaining \in Nat /\ Len(pipe) = remaining
  BY SourcesAreSequences DEF SpliceInv, Copies!TypeOK, Copies!PipeSettled
<1>2. n \in 1..remaining
  BY <1>1, SmallerOfTwo
<1>3. \A x \in 1..Len(pipe) : pipe[x] \in Nat
  BY <1>1
<1>4. SubSeq(pipe, 1, n) \in Seq(Nat)
  BY <1>1, <1>2, <1>3, SubSeqProperties
<1>5. /\ SubSeq(pipe, n + 1, Len(pipe)) \in Seq(Nat)
      /\ Len(SubSeq(pipe, n + 1, Len(pipe))) = remaining - n
  BY <1>1, <1>2, <1>3, SubSeqProperties
<1> QED BY <1>1, <1>2, <1>4, <1>5

LEMMA NextInv ==
  ASSUME Copies!SpliceAssumption, SpliceInv, [Copies!Next]_(Copies!vars)
  PROVE  SpliceInv'
<1> USE SourcesAreSequences DEF SpliceInv
<1>1. CASE Copies!NoSources
  BY <1>1 DEF Copies!NoSources, Copies!Return, Copies!Result, Copies!TypeOK,
     Copies!PipeSettled, InSource
<1>2. CASE Copies!MakePipe
  <2>1. Copies!TypeOK'
    BY <1>2 DEF Copies!MakePipe, Copies!Return, Copies!Result, Copies!TypeOK, InSource
  <2>2. Copies!PipeSettled' /\ InSource'
    BY <1>2 DEF Copies!MakePipe, Copies!Return, Copies!PipeSettled, InSource,
       Copies!TypeOK
  <2> QED BY <2>1, <2>2
<1>3. CASE Copies!OpenSource
  <2>1. Copies!TypeOK'
    BY <1>3 DEF Copies!OpenSource, Copies!ReturnClosing, Copies!Return, Copies!Result,
       Copies!TypeOK, Copies!PipeSettled
  <2>2. Copies!PipeSettled' /\ InSource'
    BY <1>3 DEF Copies!OpenSource, Copies!ReturnClosing, Copies!Return,
       Copies!PipeSettled, InSource, Copies!TypeOK
  <2> QED BY <2>1, <2>2
<1>4. CASE Copies!Fill
  <2> PICK n \in 1..Copies!AtMost(Copies!AtMost(RoundSize, Copies!Left), Capacity - Len(pipe)) :
               /\ pipe' = pipe \o SubSeq(SourceFiles[at], offset + 1, offset + n)
               /\ offset' = offset + n
               /\ remaining' = n
    BY <1>4 DEF Copies!Fill
  <2>1. splice_phase = "fill" /\ pipe = << >>
    BY <1>4 DEF Copies!Fill, Copies!PipeSettled
  <2>2. /\ offset + n \in 0..Len(SourceFiles[at]) /\ n \in 1..RoundSize
        /\ SubSeq(SourceFiles[at], offset + 1, offset + n) \in Seq(Nat)
        /\ Len(SubSeq(SourceFiles[at], offset + 1, offset + n)) = n
    BY <2>1, RoundInRange
  <2>3. pipe' = SubSeq(SourceFiles[at], offset + 1, offset + n)
    BY <2>1, <2>2, ConcatEmptySeq
  <2>4. Copies!TypeOK'
    BY <1>4, <2>2, <2>3 DEF Copies!Fill, Copies!TypeOK
  <2>5. Copies!PipeSettled' /\ InSource'
    BY <1>4, <2>2, <2>3 DEF Copies!Fill, Copies!PipeSettled, InSource
  <2> QED BY <2>4, <2>5
<1>5. CASE Copies!EndOfSource
  BY <1>5 DEF Copies!EndOfSource, Copies!TypeOK, Copies!PipeSettled, InSource
<1>6. CASE Copies!Drain
  <2> PICK n \in 1..Copies!AtMost(remaining, Len(pipe)) :
               /\ dst' = dst \o SubSeq(pipe, 1, n)
               /\ pipe' = SubSeq(pipe, n + 1, Len(pipe))
               /\ remaining' = remaining - n
               /\ total' = total + n
    BY <1>6 DEF Copies!Drain
  <2>1. /\ Len(pipe) = remaining /\ n \in 1..remaining
        /\ SubSeq(pipe, 1, n) \in Seq(Nat)
        /\ pipe' \in Seq(Nat) /\ Len(pipe') = remaining - n
    BY <1>6, PartsOfPipe DEF Copies!Drain
  <2>2. dst' \in Seq(Nat)
    BY <2>1, ConcatProperties DEF Copies!TypeOK
  <2>c. remaining' \in 0..RoundSize /\ total' \in Nat
    BY <2>1 DEF Copies!TypeOK
  <2>3. Copies!TypeOK'
    BY <1>6, <2>1, <2>2, <2>c DEF Copies!Drain, Copies!TypeOK
  <2>4. Copies!PipeSettled' /\ InSource'
    BY <1>6, <2>1 DEF Copies!Drain, Copies!PipeSettled, InSource
  <2> QED BY <2>3, <2>4
<1>7. CASE Copies!Drained
  BY <1>7 DEF Copies!Drained, Copies!TypeOK, Copies!PipeSettled, InSource
<1>8. CASE Copies!SpliceFails
  BY <1>8 DEF Copies!SpliceFails, Copies!ReturnClosing, Copies!Return, Copies!Result,
     Copies!TypeOK, Copies!PipeSettled, InSource
<1>9. CASE Copies!Finish
  BY <1>9 DEF Copies!Finish, Copies!ReturnClosing, Copies!Return, Copies!Result,
     Copies!TypeOK, Copies!PipeSettled, InSource
<1>10. CASE UNCHANGED Copies!vars
  BY <1>10 DEF Copies!vars, Copies!TypeOK, Copies!PipeSettled, InSource, Copies!Left
<1> QED BY <1>1, <1>2, <1>3, <1>4, <1>5, <1>6, <1>7, <1>8, <1>9, <1>10
        DEF Copies!Next, Copies!Work, Copies!Returned

(* Every round of a copy leaves the pipe empty, and every way out closes   *)
(* the pipe once if it was opened, for any sources, rounds and pipes.      *)
THEOREM RoundsSettle == ASSUME Copies!SpliceAssumption PROVE Copies!Spec => []Copies!PipeSettled
<1>1. Copies!Init => SpliceInv
  BY InitInv
<1>2. SpliceInv /\ [Copies!Next]_(Copies!vars) => SpliceInv'
  BY NextInv
<1>3. SpliceInv => Copies!PipeSettled
  BY DEF SpliceInv
<1> QED BY <1>1, <1>2, <1>3, PTL DEF Copies!Spec

-----------------------------------------------------------------------------
(* The first k of the sources, one after the other.                        *)
Flat == CHOOSE f : FlatUpTo(f, SourceFiles, Len(SourceFiles))
First(k) == IF k = 0 THEN << >> ELSE Flat[k]
Whole == Copies!FlattenSeq(SourceFiles)

LEMMA FirstSources ==
  ASSUME Copies!SpliceAssumption
  PROVE  /\ Whole = First(Len(SourceFiles))
         /\ \A k \in 1..Len(SourceFiles) : First(k) = First(k - 1) \o SourceFiles[k]
         /\ \A k \in 0..Len(SourceFiles) : First(k) \in Seq(Nat)
<1>1. Len(SourceFiles) \in Nat /\ \A k \in 1..Len(SourceFiles) : SourceFiles[k] \in Seq(Nat)
  BY SourcesAreSequences
<1>2. SourceFiles \in Seq(Seq(Nat))
  BY DEF Copies!SpliceAssumption
<1>3. CASE Len(SourceFiles) = 0
  <2>1. SourceFiles = << >>
    BY <1>2, <1>3, EmptySeq
  <2>2. Whole = << >>
    BY <1>3, <2>1 DEF Whole, Copies!FlattenSeq
  <2> QED BY <1>3, <2>2, EmptySeq DEF First
<1>4. CASE Len(SourceFiles) # 0
  <2>1. FlatUpTo(Flat, SourceFiles, Len(SourceFiles))
    BY <1>2, <1>4, FlatExists DEF Flat
  <2>2. Whole = Flat[Len(SourceFiles)]
    BY <1>4 DEF Whole, Copies!FlattenSeq, Flat, FlatUpTo
  <2>3. \A k \in 1..Len(SourceFiles) :
          Flat[k] = IF k = 1 THEN SourceFiles[k] ELSE Flat[k - 1] \o SourceFiles[k]
    BY <2>1 DEF FlatUpTo
  <2>4. ASSUME NEW k \in 1..Len(SourceFiles) PROVE First(k) = First(k - 1) \o SourceFiles[k]
    <3>1. CASE k = 1
      BY <1>1, <2>3, <3>1, ConcatEmptySeq DEF First
    <3>2. CASE k # 1
      <4>1. k - 1 # 0 /\ k # 0
        BY <1>1, <3>2
      <4>2. First(k) = Flat[k] /\ First(k - 1) = Flat[k - 1]
        BY <4>1 DEF First
      <4> QED BY <2>3, <3>2, <4>2
    <3> QED BY <3>1, <3>2
  <2>5. \A k \in 0..Len(SourceFiles) : First(k) \in Seq(Nat)
    <3> DEFINE Bad == {k \in 0..Len(SourceFiles) : First(k) \notin Seq(Nat)}
    <3> SUFFICES ASSUME Bad # {} PROVE FALSE
      OBVIOUS
    <3>1. PICK m \in Bad : \A k \in Bad : m <= k
      <4>1. Bad \in SUBSET Nat
        OBVIOUS
      <4> HIDE DEF Bad
      <4> QED BY <4>1, LeastNatural
    <3>2. m \in 0..Len(SourceFiles) /\ First(m) \notin Seq(Nat)
      OBVIOUS
    <3>3. m # 0
      BY <3>2, EmptySeq DEF First
    <3>4. m \in 1..Len(SourceFiles) /\ m - 1 \in 0..Len(SourceFiles) /\ ~ (m <= m - 1)
      BY <1>1, <3>2, <3>3
    <3>5. First(m - 1) \in Seq(Nat)
      <4>1. m - 1 \notin Bad
        <5> HIDE DEF Bad
        <5> QED BY <3>1, <3>4
      <4> QED BY <3>4, <4>1
    <3> QED BY <1>1, <2>4, <3>2, <3>4, <3>5, ConcatProperties
  <2>6. Whole = First(Len(SourceFiles))
    BY <1>4, <2>2 DEF First
  <2> QED BY <2>4, <2>5, <2>6
<1> QED BY <1>3, <1>4

(* Where source k begins, and what is there.                               *)
Before(k) == Len(First(k - 1))

LEMMA Beginnings ==
  ASSUME Copies!SpliceAssumption
  PROVE  /\ Before(1) = 0 /\ Before(Len(SourceFiles) + 1) = Len(Whole)
         /\ \A k \in 1..Len(SourceFiles) + 1 : Before(k) \in Nat
         /\ \A k \in 1..Len(SourceFiles) : Before(k + 1) = Before(k) + Len(SourceFiles[k])
<1>1. Len(SourceFiles) \in Nat
  BY SourcesAreSequences
<1>2. /\ Whole = First(Len(SourceFiles))
      /\ \A k \in 1..Len(SourceFiles) : First(k) = First(k - 1) \o SourceFiles[k]
      /\ \A k \in 0..Len(SourceFiles) : First(k) \in Seq(Nat)
  BY FirstSources
<1>3. \A k \in 0..Len(SourceFiles) : Len(First(k)) \in Nat
  BY <1>2, LenProperties
<1>4. Before(1) = 0
  BY DEF Before, First
<1>5. Before(Len(SourceFiles) + 1) = Len(Whole)
  <2>1. Len(SourceFiles) + 1 - 1 = Len(SourceFiles)
    BY <1>1
  <2> QED BY <1>2, <2>1 DEF Before
<1>6. ASSUME NEW k \in 1..Len(SourceFiles) + 1 PROVE Before(k) \in Nat
  <2>1. k - 1 \in 0..Len(SourceFiles)
    BY <1>1
  <2> QED BY <1>3, <2>1 DEF Before
<1>7. ASSUME NEW k \in 1..Len(SourceFiles) PROVE Before(k + 1) = Before(k) + Len(SourceFiles[k])
  <2>1. k - 1 \in 0..Len(SourceFiles) /\ (k + 1) - 1 = k
    BY <1>1
  <2>2. First(k) = First(k - 1) \o SourceFiles[k]
    BY <1>2
  <2>3. SourceFiles[k] \in Seq(Nat) /\ First(k - 1) \in Seq(Nat)
    BY <1>2, <2>1, SourcesAreSequences
  <2>4. Len(First(k)) = Len(First(k - 1)) + Len(SourceFiles[k])
    BY <2>2, <2>3, ConcatProperties
  <2> QED BY <2>1, <2>4 DEF Before
<1> QED BY <1>4, <1>5, <1>6, <1>7

(* Nothing is in front of what came first.                                 *)
LEMMA FirstStays ==
  ASSUME Copies!SpliceAssumption, NEW k \in 0..Len(SourceFiles)
  PROVE  \A m \in k..Len(SourceFiles) :
           /\ Len(First(k)) <= Len(First(m))
           /\ \A x \in 1..Len(First(k)) : First(m)[x] = First(k)[x]
<1> DEFINE Good(m) == /\ Len(First(k)) <= Len(First(m))
                      /\ \A x \in 1..Len(First(k)) : First(m)[x] = First(k)[x]
           Bad == {m \in k..Len(SourceFiles) : ~ Good(m)}
<1>1. Len(SourceFiles) \in Nat
  BY SourcesAreSequences
<1>2. \A m \in 0..Len(SourceFiles) : First(m) \in Seq(Nat) /\ Len(First(m)) \in Nat
  BY FirstSources, LenProperties
<1> SUFFICES ASSUME Bad # {} PROVE FALSE
  OBVIOUS
<1>3. PICK m \in Bad : \A j \in Bad : m <= j
  <2>1. Bad \in SUBSET Nat
    BY <1>1
  <2> HIDE DEF Bad
  <2> QED BY <2>1, LeastNatural
<1>4. m \in k..Len(SourceFiles) /\ ~ Good(m)
  OBVIOUS
<1>5. m # k
  BY <1>2, <1>4
<1>6. m - 1 \in k..Len(SourceFiles) /\ m \in 1..Len(SourceFiles) /\ ~ (m <= m - 1)
  BY <1>1, <1>4, <1>5
<1>7. Good(m - 1)
  <2>1. m - 1 \notin Bad
    <3> HIDE DEF Bad
    <3> QED BY <1>3, <1>6
  <2> QED BY <1>6, <2>1
<1>8. First(m) = First(m - 1) \o SourceFiles[m]
  BY <1>6, FirstSources
<1>9. /\ First(m - 1) \in Seq(Nat) /\ Len(First(m - 1)) \in Nat
      /\ Len(First(k)) \in Nat
      /\ SourceFiles[m] \in Seq(Nat) /\ Len(SourceFiles[m]) \in Nat
  BY <1>1, <1>2, <1>6, SourcesAreSequences
<1>10. /\ Len(First(m)) = Len(First(m - 1)) + Len(SourceFiles[m])
       /\ \A x \in 1..Len(First(m - 1)) : First(m)[x] = First(m - 1)[x]
  BY <1>8, <1>9, ConcatProperties
<1>11. Len(First(k)) <= Len(First(m))
  <2>1. Len(First(k)) <= Len(First(m - 1))
    BY <1>7
  <2>2. \A u, v, w, z \in Nat : u <= v /\ w = v + z => u <= w
    OBVIOUS
  <2>3. Len(First(m)) \in Nat
    BY <1>1, <1>2, <1>6
  <2>4. Len(First(m)) = Len(First(m - 1)) + Len(SourceFiles[m])
    BY <1>10
  <2> QED BY <1>9, <2>1, <2>2, <2>3, <2>4
<1>12. ASSUME NEW x \in 1..Len(First(k)) PROVE First(m)[x] = First(k)[x]
  <2>1. x \in 1..Len(First(m - 1))
    BY <1>7, <1>9
  <2>2. First(m)[x] = First(m - 1)[x]
    BY <1>10, <2>1
  <2> QED BY <1>7, <2>2
<1> QED BY <1>4, <1>11, <1>12

(* A part of a source is the part of the whole at its place.               *)
LEMMA PartOfWhole ==
  ASSUME Copies!SpliceAssumption, NEW k \in 1..Len(SourceFiles),
         NEW a \in Nat, NEW b \in Nat, a <= b, b <= Len(SourceFiles[k])
  PROVE  /\ Before(k) + b <= Len(Whole)
         /\ SubSeq(SourceFiles[k], a + 1, b) = SubSeq(Whole, Before(k) + a + 1, Before(k) + b)
<1>1. Len(SourceFiles) \in Nat /\ SourceFiles[k] \in Seq(Nat) /\ Len(SourceFiles[k]) \in Nat
  BY SourcesAreSequences
<1>2. k \in 0..Len(SourceFiles) /\ k - 1 \in 0..Len(SourceFiles) /\ Len(SourceFiles) \in k..Len(SourceFiles)
  BY <1>1
<1>3. /\ First(k) \in Seq(Nat) /\ First(k - 1) \in Seq(Nat)
      /\ First(k) = First(k - 1) \o SourceFiles[k]
      /\ Whole = First(Len(SourceFiles))
  BY <1>2, FirstSources
<1>4. Before(k) = Len(First(k - 1)) /\ Before(k) \in Nat
  BY <1>3, LenProperties DEF Before
<1>5. /\ Len(First(k)) = Before(k) + Len(SourceFiles[k])
      /\ \A x \in 1..Before(k) + Len(SourceFiles[k]) :
           First(k)[x] = IF x <= Before(k) THEN First(k - 1)[x]
                         ELSE SourceFiles[k][x - Before(k)]
  <2> DEFINE f == First(k - 1)
             s == SourceFiles[k]
  <2>1. f \in Seq(Nat) /\ s \in Seq(Nat) /\ First(k) = f \o s /\ Before(k) = Len(f)
    BY <1>1, <1>3, <1>4
  <2> HIDE DEF f, s
  <2>2. /\ Len(f \o s) = Len(f) + Len(s)
        /\ \A x \in 1..Len(f) + Len(s) :
             (f \o s)[x] = IF x <= Len(f) THEN f[x] ELSE s[x - Len(f)]
    BY <2>1, ConcatProperties
  <2>3. /\ Len(First(k)) = Before(k) + Len(s)
        /\ \A x \in 1..Before(k) + Len(s) :
             First(k)[x] = IF x <= Before(k) THEN f[x] ELSE s[x - Before(k)]
    BY <2>1, <2>2
  <2> QED BY <2>3 DEF f, s
<1>6. /\ Len(First(k)) <= Len(Whole)
      /\ \A x \in 1..Len(First(k)) : Whole[x] = First(k)[x]
  BY <1>2, <1>3, FirstStays
<1>7. Whole \in Seq(Nat) /\ Len(Whole) \in Nat
  BY <1>1, <1>3, FirstSources, LenProperties
<1>8. Before(k) + b <= Len(Whole)
  <2>1. Len(First(k)) \in Nat
    BY <1>3, LenProperties
  <2>2. Before(k) + b <= Len(First(k))
    BY <1>1, <1>4, <1>5
  <2> QED BY <1>4, <1>6, <1>7, <2>1, <2>2
<1>9. ASSUME NEW x \in 1..b PROVE Whole[Before(k) + x] = SourceFiles[k][x]
  <2>1. /\ Before(k) + x \in 1..Before(k) + Len(SourceFiles[k])
        /\ ~ (Before(k) + x <= Before(k))
        /\ Before(k) + x - Before(k) = x
    BY <1>1, <1>4
  <2> DEFINE y == Before(k) + x
  <2>a. y \in 1..Before(k) + Len(SourceFiles[k]) /\ ~ (y <= Before(k)) /\ y - Before(k) = x
    <3>1. \A u, v \in Nat : u + v - u = v
      OBVIOUS
    <3>2. x \in Nat
      OBVIOUS
    <3> QED BY <1>4, <2>1, <3>1, <3>2
  <2> HIDE DEF y
  <2>b. First(k)[y] = SourceFiles[k][y - Before(k)]
    BY <1>5, <2>a
  <2>2. First(k)[Before(k) + x] = SourceFiles[k][x]
    BY <2>a, <2>b DEF y
  <2>3. Whole[Before(k) + x] = First(k)[Before(k) + x]
    BY <1>5, <1>6, <2>1
  <2> QED BY <2>2, <2>3
<1> DEFINE p == SubSeq(SourceFiles[k], a + 1, b)
           q == SubSeq(Whole, Before(k) + a + 1, Before(k) + b)
<1>10. /\ p \in Seq(Nat) /\ Len(p) = b - a
       /\ \A x \in 1..b - a : p[x] = SourceFiles[k][a + x]
  <2>1. \A x \in (a + 1)..b : SourceFiles[k][x] \in Nat
    BY <1>1, ElementOfSeq
  <2>2. /\ p \in Seq(Nat) /\ Len(p) = IF a + 1 <= b THEN b - (a + 1) + 1 ELSE 0
        /\ \A x \in 1..b - (a + 1) + 1 : p[x] = SourceFiles[k][a + 1 + x - 1]
    BY <2>1, SubSeqProperties
  <2> HIDE DEF p
  <2>3. b - (a + 1) + 1 = b - a /\ \A x \in 1..b - a : a + 1 + x - 1 = a + x
    OBVIOUS
  <2>4. Len(p) = b - a
    <3>1. CASE a = b
      BY <2>2, <3>1
    <3>2. CASE a # b
      BY <2>2, <3>2
    <3> QED BY <3>1, <3>2
  <2>5. \A x \in 1..b - a : p[x] = SourceFiles[k][a + x]
    BY <2>2, <2>3
  <2> QED BY <2>2, <2>4, <2>5
<1>11. /\ q \in Seq(Nat) /\ Len(q) = b - a
       /\ \A x \in 1..b - a : q[x] = Whole[Before(k) + (a + x)]
  <2> DEFINE u == Before(k) + a + 1
             v == Before(k) + b
  <2>1. \A x \in u..v : Whole[x] \in Nat
    BY <1>4, <1>7, <1>8, ElementOfSeq
  <2>2. /\ q \in Seq(Nat) /\ Len(q) = IF u <= v THEN v - u + 1 ELSE 0
        /\ \A x \in 1..v - u + 1 : q[x] = Whole[u + x - 1]
    BY <1>4, <2>1, SubSeqProperties
  <2>3. v - u + 1 = b - a /\ (u <= v <=> a # b)
    BY <1>4
  <2>4. \A x \in 1..b - a : u + x - 1 = Before(k) + (a + x)
    BY <1>4
  <2>5. u \in Nat /\ v \in Nat
    BY <1>4
  <2> HIDE DEF q, u, v
  <2>6. Len(q) = b - a
    <3>1. CASE a = b
      BY <2>2, <2>3, <3>1
    <3>2. CASE a # b
      BY <2>2, <2>3, <3>2
    <3> QED BY <3>1, <3>2
  <2>7. \A x \in 1..b - a : q[x] = Whole[Before(k) + (a + x)]
    BY <2>2, <2>3, <2>4
  <2> QED BY <2>2, <2>6, <2>7
<1> HIDE DEF p, q
<1>12. ASSUME NEW x \in 1..Len(p) PROVE p[x] = q[x]
  <2>1. x \in 1..b - a /\ a + x \in 1..b
    BY <1>10
  <2>2. p[x] = SourceFiles[k][a + x] /\ q[x] = Whole[Before(k) + (a + x)]
    BY <1>10, <1>11, <2>1
  <2>3. Whole[Before(k) + (a + x)] = SourceFiles[k][a + x]
    BY <1>9, <2>1
  <2> QED BY <2>2, <2>3
<1>13. p = q
  BY <1>10, <1>11, <1>12, SeqEqual
<1> QED BY <1>8, <1>13 DEF p, q

(* The output is the beginning of the whole, and the pipe what follows.    *)
CopyInv ==
  /\ total \in 0..Len(Whole) /\ dst = SubSeq(Whole, 1, total)
  /\ splice_phase = "start" => at = 1 /\ total = 0
  /\ splice_phase = "open" => total = Before(at)
  /\ splice_phase = "fill" => total = Before(at) + offset
  /\ splice_phase = "drain" =>
       /\ Before(at) + offset = total + remaining
       /\ pipe = SubSeq(Whole, total + 1, total + remaining)
  /\ splice_phase # "returned" => result = Copies!Result("none", 0)

LEMMA WholeIsSequence ==
  ASSUME Copies!SpliceAssumption PROVE Whole \in Seq(Nat) /\ Len(Whole) \in Nat
<1>1. Len(SourceFiles) \in 0..Len(SourceFiles)
  BY SourcesAreSequences
<1>2. Whole \in Seq(Nat)
  BY <1>1, FirstSources
<1> QED BY <1>2, LenProperties

LEMMA BeginningOfWhole ==
  ASSUME Copies!SpliceAssumption, NEW a \in Nat, NEW b \in a..Len(Whole)
  PROVE  /\ Len(SubSeq(Whole, 1, a)) = a
         /\ SubSeq(Whole, 1, a) \o SubSeq(Whole, a + 1, b) = SubSeq(Whole, 1, b)
<1>1. Whole \in Seq(Nat) /\ Len(Whole) \in Nat
  BY WholeIsSequence
<1>2. \A x \in 1..a : Whole[x] \in Nat
  <2>1. \A x \in 1..a : x \in 1..Len(Whole)
    BY <1>1
  <2> QED BY <1>1, <2>1, ElementOfSeq
<1>3. Len(SubSeq(Whole, 1, a)) = a
  BY <1>2, SubSeqProperties
<1>4. SubSeq(Whole, 1, a) \o SubSeq(Whole, a + 1, b) = SubSeq(Whole, 1, b)
  BY <1>1, ConcatAdjacentSubSeq
<1> QED BY <1>3, <1>4

LEMMA InitCopy == ASSUME Copies!SpliceAssumption, Copies!Init PROVE CopyInv
<1>1. SubSeq(Whole, 1, 0) = << >>
  BY SubSeqEmpty
<1> QED BY <1>1, WholeIsSequence DEF Copies!Init, CopyInv

(* A round puts the next bytes of the whole into the empty pipe. *)
LEMMA FillFollows ==
  ASSUME Copies!SpliceAssumption, SpliceInv, CopyInv, splice_phase = "fill",
         NEW n \in 1..Copies!AtMost(Copies!AtMost(RoundSize, Copies!Left), Capacity - Len(pipe))
  PROVE  /\ Before(at) + (offset + n) = total + n
         /\ pipe \o SubSeq(SourceFiles[at], offset + 1, offset + n)
              = SubSeq(Whole, total + 1, total + n)
<1>1. /\ SubSeq(SourceFiles[at], offset + 1, offset + n) \in Seq(Nat)
      /\ offset + n \in 0..Len(SourceFiles[at]) /\ n \in 1..RoundSize
      /\ SourceFiles[at] \in Seq(Nat) /\ Len(SourceFiles[at]) \in Nat
  BY RoundInRange
<1>2. /\ at \in 1..Len(SourceFiles) /\ offset \in Nat /\ pipe = << >>
      /\ total = Before(at) + offset
  BY SourcesAreSequences DEF SpliceInv, Copies!TypeOK, Copies!PipeSettled, InSource,
     CopyInv
<1>3. n \in Nat /\ offset + n \in Nat /\ offset <= offset + n /\ offset + n <= Len(SourceFiles[at])
  BY <1>1, <1>2, SourcesAreSequences
<1>4. Before(at) \in Nat
  <2>1. at \in 1..Len(SourceFiles) + 1
    BY <1>2, SourcesAreSequences
  <2> QED BY <2>1, Beginnings
<1> DEFINE m == offset + n
<1>5. SubSeq(SourceFiles[at], offset + 1, m)
        = SubSeq(Whole, Before(at) + offset + 1, Before(at) + m)
  <2> m \in Nat /\ offset <= m /\ m <= Len(SourceFiles[at])
    BY <1>3
  <2> HIDE DEF m
  <2> QED BY <1>2, PartOfWhole
<1>6. Before(at) + m = total + n
  BY <1>2, <1>3, <1>4
<1>7. pipe \o SubSeq(SourceFiles[at], offset + 1, m) = SubSeq(SourceFiles[at], offset + 1, m)
  BY <1>1, <1>2, ConcatEmptySeq
<1> QED BY <1>2, <1>5, <1>6, <1>7

(* A drain moves the next bytes of the whole. *)
LEMMA DrainExtends ==
  ASSUME Copies!SpliceAssumption, SpliceInv, CopyInv, splice_phase = "drain",
         NEW n \in 1..Copies!AtMost(remaining, Len(pipe))
  PROVE  /\ total + n \in (total + 1)..Len(Whole)
         /\ dst \o SubSeq(pipe, 1, n) = SubSeq(Whole, 1, total + n)
         /\ SubSeq(pipe, n + 1, Len(pipe)) = SubSeq(Whole, total + n + 1, total + remaining)
<1> DEFINE end == total + remaining
<1>1. Whole \in Seq(Nat) /\ Len(Whole) \in Nat
  BY WholeIsSequence
<1>2. /\ total \in 0..Len(Whole) /\ dst = SubSeq(Whole, 1, total)
      /\ end = Before(at) + offset
      /\ pipe = SubSeq(Whole, total + 1, end)
  BY DEF CopyInv
<1>3. /\ remaining \in Nat /\ Len(pipe) = remaining /\ n \in 1..remaining
  BY PartsOfPipe
<1>4. end \in Nat /\ end <= Len(Whole)
  <2>1. at \in 1..Len(SourceFiles) /\ offset \in Nat /\ offset <= Len(SourceFiles[at])
    BY SourcesAreSequences DEF SpliceInv, Copies!TypeOK, InSource
  <2>2. Before(at) + offset <= Len(Whole)
    BY <2>1, PartOfWhole
  <2> QED BY <1>2, <1>3, <2>2
<1>5. total + n \in (total + 1)..Len(Whole) /\ total + n <= end
  BY <1>1, <1>2, <1>3, <1>4
<1>6. SubSeq(pipe, 1, n) = SubSeq(Whole, total + 1, total + n)
  <2>1. pipe \in Seq(Nat) /\ total \in Nat
    BY <1>2 DEF SpliceInv, Copies!TypeOK
  <2> HIDE DEF end
  <2> QED BY <1>1, <1>2, <1>3, <1>4, <1>5, <2>1, SubSeqOfSubSeq
<1>7. dst \o SubSeq(pipe, 1, n) = SubSeq(Whole, 1, total + n)
  <2>1. total \in Nat /\ total + n \in total..Len(Whole)
    BY <1>2, <1>3, <1>5
  <2> DEFINE m == total + n
  <2>2. SubSeq(Whole, 1, total) \o SubSeq(Whole, total + 1, m) = SubSeq(Whole, 1, m)
    BY <2>1, BeginningOfWhole
  <2> QED BY <1>2, <1>6, <2>2
<1>8. SubSeq(pipe, n + 1, Len(pipe)) = SubSeq(Whole, total + n + 1, end)
  <2>1. CASE n = remaining
    BY <1>1, <1>2, <1>3, <1>4, <2>1, SubSeqEmpty
  <2>2. CASE n < remaining
    <3>1. pipe \in Seq(Nat)
      BY DEF SpliceInv, Copies!TypeOK
    <3> QED BY <1>1, <1>2, <1>3, <1>4, <2>2, <3>1, SubSeqOfSubSeq
  <2>3. n = remaining \/ n < remaining
    BY <1>3
  <2> QED BY <2>1, <2>2, <2>3
<1> QED BY <1>5, <1>7, <1>8

LEMMA NextCopy ==
  ASSUME Copies!SpliceAssumption, SpliceInv, CopyInv, [Copies!Next]_(Copies!vars)
  PROVE  CopyInv' /\ [Copies!Copy!CopyNext]_<<dst, result>>
<1>s. /\ Whole \in Seq(Nat) /\ Len(Whole) \in Nat /\ Len(SourceFiles) \in Nat
      /\ Copies!FlattenSeq(SourceFiles) = Whole
  BY WholeIsSequence, SourcesAreSequences DEF Whole
<1>t. total \in 0..Len(Whole) /\ dst = SubSeq(Whole, 1, total) /\ Len(dst) = total
  <2>1. total \in Nat /\ total \in 0..Len(Whole) /\ dst = SubSeq(Whole, 1, total)
    BY <1>s DEF CopyInv
  <2>2. Len(Whole) \in total..Len(Whole)
    BY <1>s, <2>1
  <2> QED BY <2>1, <2>2, BeginningOfWhole
<1>b. /\ Before(1) = 0 /\ Before(Len(SourceFiles) + 1) = Len(Whole)
      /\ \A k \in 1..Len(SourceFiles) + 1 : Before(k) \in Nat
      /\ \A k \in 1..Len(SourceFiles) : Before(k + 1) = Before(k) + Len(SourceFiles[k])
  BY Beginnings
<1>g. ASSUME result = Copies!Result("none", 0), result' = Copies!Result("error", 0), dst' = dst
      PROVE  Copies!Copy!CopyNext
  BY <1>g DEF Copies!Copy!CopyNext, Copies!Copy!GiveUp, Copies!Result
<1>1. CASE Copies!NoSources
  <2>1. total = 0 /\ SourceFiles = << >>
    BY <1>1 DEF Copies!NoSources, CopyInv
  <2>2. Whole = << >>
    <3>1. Len(SourceFiles) = 0 /\ 0 \in 0..Len(SourceFiles)
      BY <2>1, EmptySeq
    <3>2. Whole = First(0)
      BY <3>1, FirstSources
    <3> QED BY <3>2 DEF First
  <2>3. CopyInv'
    BY <1>1, <2>1 DEF Copies!NoSources, Copies!Return, CopyInv
  <2>4. dst = Whole /\ Len(Whole) = 0
    BY <1>s, <1>t, <2>1, <2>2, EmptySeq
  <2>5. Copies!Copy!Succeed
    BY <1>1, <1>s, <2>4 DEF Copies!NoSources, Copies!Return, Copies!Copy!Succeed,
       Copies!Result
  <2>6. Copies!Copy!CopyNext
    BY <1>1, <2>5 DEF Copies!NoSources, CopyInv, Copies!Copy!CopyNext, Copies!Result
  <2> QED BY <2>3, <2>6
<1>2. CASE Copies!MakePipe
  <2>1. CopyInv'
    BY <1>2, <1>b DEF Copies!MakePipe, Copies!Return, CopyInv
  <2>2. [Copies!Copy!CopyNext]_<<dst, result>>
    BY <1>2, <1>g DEF Copies!MakePipe, Copies!Return, CopyInv
  <2> QED BY <2>1, <2>2
<1>3. CASE Copies!OpenSource
  <2>1. at \in 1..Len(SourceFiles) + 1 /\ total = Before(at) /\ Before(at) \in Nat
    BY <1>3, <1>b DEF Copies!OpenSource, CopyInv, SpliceInv, Copies!TypeOK
  <2>2. CopyInv'
    BY <1>3, <2>1 DEF Copies!OpenSource, Copies!ReturnClosing, Copies!Return, CopyInv
  <2>3. [Copies!Copy!CopyNext]_<<dst, result>>
    BY <1>3, <1>g DEF Copies!OpenSource, Copies!ReturnClosing, Copies!Return, CopyInv
  <2> QED BY <2>2, <2>3
<1>4. CASE Copies!Fill
  <2> PICK n \in 1..Copies!AtMost(Copies!AtMost(RoundSize, Copies!Left), Capacity - Len(pipe)) :
               /\ pipe' = pipe \o SubSeq(SourceFiles[at], offset + 1, offset + n)
               /\ offset' = offset + n
               /\ remaining' = n
    BY <1>4 DEF Copies!Fill
  <2>1. splice_phase = "fill" /\ splice_phase' = "drain" /\ UNCHANGED <<at, total, dst, result>>
    BY <1>4 DEF Copies!Fill
  <2>2. Before(at) + offset' = total + n /\ pipe' = SubSeq(Whole, total + 1, total + n)
    BY <2>1, FillFollows
  <2>4. CopyInv'
    BY <2>1, <2>2 DEF CopyInv
  <2> QED BY <2>1, <2>4
<1>5. CASE Copies!EndOfSource
  <2>1. /\ splice_phase = "fill" /\ at \in 1..Len(SourceFiles) /\ offset \in Nat
        /\ Len(SourceFiles[at]) \in Nat
    BY <1>5, SourcesAreSequences DEF Copies!EndOfSource, SpliceInv, Copies!TypeOK,
       InSource
  <2>2. offset = Len(SourceFiles[at]) /\ total = Before(at) + offset
    BY <1>5, <2>1 DEF Copies!EndOfSource, Copies!Left, CopyInv
  <2>3. total = Before(at + 1)
    BY <1>b, <2>1, <2>2
  <2>4. CopyInv'
    BY <1>5, <2>3 DEF Copies!EndOfSource, CopyInv
  <2>5. UNCHANGED <<dst, result>>
    BY <1>5 DEF Copies!EndOfSource
  <2> QED BY <2>4, <2>5
<1>6. CASE Copies!Drain
  <2> PICK n \in 1..Copies!AtMost(remaining, Len(pipe)) :
               /\ dst' = dst \o SubSeq(pipe, 1, n)
               /\ pipe' = SubSeq(pipe, n + 1, Len(pipe))
               /\ remaining' = remaining - n
               /\ total' = total + n
    BY <1>6 DEF Copies!Drain
  <2>1. /\ splice_phase = "drain" /\ Before(at) + offset = total + remaining
        /\ result = Copies!Result("none", 0)
        /\ UNCHANGED <<splice_phase, at, offset, result, opened, closed>>
    BY <1>6 DEF Copies!Drain, CopyInv
  <2>2. /\ total' \in (total + 1)..Len(Whole)
        /\ dst' = SubSeq(Whole, 1, total')
        /\ pipe' = SubSeq(Whole, total' + 1, total + remaining)
    BY <2>1, DrainExtends
  <2>3. remaining \in Nat /\ n \in Nat
    BY <2>1, PartsOfPipe
  <2>4. total' \in 0..Len(Whole) /\ total' + remaining' = total + remaining
    BY <1>s, <1>t, <2>1, <2>2, <2>3
  <2>5. CopyInv'
    BY <2>1, <2>2, <2>4 DEF CopyInv
  <2>6. Copies!Copy!Extend
    BY <1>s, <1>t, <2>1, <2>2 DEF Copies!Copy!Extend, Copies!Result
  <2>7. Copies!Copy!CopyNext
    BY <2>6 DEF Copies!Copy!CopyNext
  <2> QED BY <2>5, <2>7
<1>7. CASE Copies!Drained
  <2>1. Before(at) + offset = total + remaining /\ remaining = 0
    BY <1>7 DEF Copies!Drained, CopyInv
  <2>2. CopyInv'
    BY <1>7, <1>t, <2>1 DEF Copies!Drained, CopyInv
  <2>3. UNCHANGED <<dst, result>>
    BY <1>7 DEF Copies!Drained
  <2> QED BY <2>2, <2>3
<1>8. CASE Copies!SpliceFails
  <2>1. CopyInv'
    BY <1>8 DEF Copies!SpliceFails, Copies!ReturnClosing, Copies!Return, CopyInv
  <2>2. Copies!Copy!CopyNext
    BY <1>8, <1>g DEF Copies!SpliceFails, Copies!ReturnClosing, Copies!Return, CopyInv
  <2> QED BY <2>1, <2>2
<1>9. CASE Copies!Finish
  <2>1. /\ at = Len(SourceFiles) + 1 /\ total = Before(at) /\ result = Copies!Result("none", 0)
        /\ result' = Copies!Result("ok", total) /\ dst' = dst
    BY <1>9, <1>s DEF Copies!Finish, Copies!ReturnClosing, Copies!Return, CopyInv,
       SpliceInv, Copies!TypeOK
  <2>2. CopyInv'
    BY <1>9 DEF Copies!Finish, Copies!ReturnClosing, Copies!Return, CopyInv
  <2>3. total = Len(Whole)
    BY <1>b, <2>1
  <2>4. dst = Whole
    BY <1>s, <1>t, <2>3, SubSeqFull
  <2>5. Copies!Copy!Succeed
    BY <1>s, <2>1, <2>3, <2>4 DEF Copies!Copy!Succeed, Copies!Result
  <2>6. Copies!Copy!CopyNext
    BY <2>1, <2>5 DEF Copies!Copy!CopyNext, Copies!Result
  <2> QED BY <2>2, <2>6
<1>10. CASE UNCHANGED Copies!vars
  BY <1>10 DEF Copies!vars, CopyInv
<1> QED BY <1>1, <1>2, <1>3, <1>4, <1>5, <1>6, <1>7, <1>8, <1>9, <1>10
        DEF Copies!Next, Copies!Work, Copies!Returned

(* splice_copy and splice_concat copy everything or say that they did not: *)
(* the output grows by the bytes of the sources in their order, however    *)
(* the kernel cuts the transfers, for any number of sources (empty ones    *)
(* and none among them), any size of a round and any capacity of the pipe. *)
THEOREM SourcesAreCopied == ASSUME Copies!SpliceAssumption PROVE Copies!Spec => Copies!ImplementsWholeCopy
<1>1. Copies!Init => SpliceInv /\ CopyInv /\ Copies!Copy!CopyInit
  BY InitInv, InitCopy DEF Copies!Init, Copies!Copy!CopyInit, Copies!Result
<1>2. SpliceInv /\ CopyInv /\ [Copies!Next]_(Copies!vars)
        => SpliceInv' /\ CopyInv' /\ [Copies!Copy!CopyNext]_<<dst, result>>
  BY NextInv, NextCopy
<1> QED BY <1>1, <1>2, PTL DEF Copies!Spec, Copies!ImplementsWholeCopy,
   Copies!Copy!CopySpec

(* The variables of a copy keep their types, for any sources.              *)
THEOREM CopyTypes == ASSUME Copies!SpliceAssumption PROVE Copies!Spec => []Copies!TypeOK
<1>1. Copies!Init => SpliceInv
  BY InitInv
<1>2. SpliceInv /\ [Copies!Next]_(Copies!vars) => SpliceInv'
  BY NextInv
<1>3. SpliceInv => Copies!TypeOK
  BY DEF SpliceInv
<1> QED BY <1>1, <1>2, <1>3, PTL DEF Copies!Spec

-----------------------------------------------------------------------------
(* stat_batch of io/uring.rs, next to the splice.                          *)
(* Cardinality is the same on both sides of the INSTANCE.                  *)
LEMMA UringCounts == \A S : Uring!Cardinality(S) = Cardinality(S)
BY DEF Cardinality, Uring!Cardinality


-----------------------------------------------------------------------------
(* stat_batch: chunks                                                      *)

LEMMA RingFits ==
  ASSUME Uring!UringAssumption
  PROVE  Uring!N \in Nat /\ Uring!RingCap \in Nat /\ (Uring!N > 0 => Uring!RingCap > 0)
<1>1. Uring!N \in Nat
  BY DEF Uring!UringAssumption, Uring!N
<1>2. \E x \in {Uring!N, RING_SIZE} : \A y \in {Uring!N, RING_SIZE} : x =< y
  BY <1>1 DEF Uring!UringAssumption
<1>3. Uring!RingCap \in {Uring!N, RING_SIZE}
  BY <1>2 DEF Uring!RingCap, Uring!Min
<1> QED BY <1>1, <1>3 DEF Uring!UringAssumption

(* A chunk starts at i, has a path in it, and ends within the list. *)
LEMMA ChunkInRange ==
  ASSUME Uring!UringAssumption, next \in 1..Uring!N
  PROVE  /\ Uring!ChunkEnd \in next..Uring!N
         /\ Uring!Chunk \subseteq 1..Uring!N /\ IsFiniteSet(Uring!Chunk)
         /\ \A x \in 1..Uring!N : x < Uring!ChunkEnd + 1 => x < next \/ x \in Uring!Chunk
<1> DEFINE e == next + Uring!RingCap - 1
<1>1. Uring!N \in Nat /\ Uring!N > 0 /\ Uring!RingCap \in Nat /\ Uring!RingCap > 0
  BY RingFits
<1>2. e \in Int /\ e >= next
  BY <1>1
<1> HIDE DEF e
<1>3. \E x \in {e, Uring!N} : \A y \in {e, Uring!N} : x =< y
  BY <1>1, <1>2
<1>4. Uring!ChunkEnd \in {e, Uring!N} /\ \A y \in {e, Uring!N} : Uring!ChunkEnd =< y
  BY <1>3 DEF Uring!ChunkEnd, Uring!Min, e
<1>5. Uring!ChunkEnd \in next..Uring!N
  BY <1>1, <1>2, <1>4
<1>6. /\ Uring!Chunk \subseteq 1..Uring!N
      /\ \A x \in 1..Uring!N :
           x < Uring!ChunkEnd + 1 => x < next \/ x \in Uring!Chunk
  BY <1>1, <1>5 DEF Uring!Chunk
<1>7. IsFiniteSet(Uring!Chunk)
  BY <1>1, <1>5, FS_Interval DEF Uring!Chunk
<1> QED BY <1>5, <1>6, <1>7

(* A submission of as many as there are takes them all. *)
LEMMA FrontOfAll ==
  ASSUME IsFiniteSet(sq), sq \subseteq Nat
  PROVE  Uring!Front(Cardinality(sq)) = sq
<1> SUFFICES ASSUME NEW x \in sq
             PROVE  Cardinality({y \in sq : y < x}) < Cardinality(sq)
  BY UringCounts DEF Uring!Front
<1> DEFINE below == {y \in sq : y < x}
<1>1. below \in SUBSET sq /\ x \notin below
  OBVIOUS
<1> HIDE DEF below
<1>2. /\ Cardinality(below) <= Cardinality(sq)
      /\ Cardinality(below) # Cardinality(sq)
      /\ IsFiniteSet(below)
  BY <1>1, FS_Subset
<1>3. Cardinality(below) < Cardinality(sq)
  BY <1>2, FS_CardinalityType
<1> QED BY <1>3 DEF below

LEMMA FrontIsPart == ASSUME NEW n \in Nat PROVE Uring!Front(n) \subseteq sq
BY DEF Uring!Front

-----------------------------------------------------------------------------
(* The inductive invariant: as long as the kernel has not let a call go    *)
(* early, the operations that are somewhere between a push and the reaping *)
(* are those of the chunk, and all of them are at the place the phase says.*)
InChunk ==
  /\ uring_phase = "setup" => next = 1
  /\ uring_phase \in {"push", "submit", "wait", "harvest"} => next \in 1..Uring!N

Reaped ==
  \A x \in 1..Uring!N :
    \/ stats[x] = Stats[x]
    \/ stats[x] = Uring!Missing /\ (short \/ x >= next)

WhereTheOpsAre ==
  ~short =>
    /\ uring_phase \in {"setup", "push"} => sq = {} /\ inflight = {} /\ cq = {}
    /\ uring_phase = "submit" => sq = Uring!Chunk /\ inflight = {} /\ cq = {}
    /\ uring_phase = "wait" => sq = {} /\ inflight \cup cq = Uring!Chunk /\ inflight \cap cq = {}
    /\ uring_phase = "harvest" => sq = {} /\ inflight = {} /\ cq = Uring!Chunk
    /\ uring_phase = "returned" => inflight = {} /\ cq = {}

UringInv == Uring!TypeOK /\ InChunk /\ Reaped /\ WhereTheOpsAre /\ Uring!AnswersInOrder

LEMMA InitUring == ASSUME Uring!UringAssumption, Uring!Init PROVE UringInv
<1>1. Uring!N \in Nat
  BY RingFits
<1>2. Uring!TypeOK
  <2>1. DOMAIN stats = 1..Uring!N
    BY DEF Uring!Init
  <2>2. next \in 1..(Uring!N + 1) /\ uring_answer.kind = "none"
    BY <1>1 DEF Uring!Init, Uring!None
  <2> QED BY <2>1, <2>2 DEF Uring!Init, Uring!TypeOK
<1>3. Reaped
  BY <1>1 DEF Uring!Init, Reaped
<1>4. InChunk /\ WhereTheOpsAre /\ Uring!AnswersInOrder
  BY DEF Uring!Init, InChunk, WhereTheOpsAre, Uring!AnswersInOrder, Uring!None
<1> QED BY <1>2, <1>3, <1>4 DEF UringInv

(* A step that leaves the results and the answer alone, and does not make  *)
(* an early return undone, keeps what is said of them.                     *)
LEMMA AnswersStay ==
  ASSUME Reaped, Uring!AnswersInOrder, UNCHANGED <<next, stats>>, short => short',
         uring_answer' = uring_answer \/ uring_answer'.kind # "ok"
  PROVE  Reaped' /\ Uring!AnswersInOrder'
BY DEF Reaped, Uring!AnswersInOrder

LEMMA NextUring ==
  ASSUME Uring!UringAssumption, UringInv, [Uring!Next]_(Uring!uringVars)
  PROVE  UringInv'
<1> USE DEF UringInv
<1>n. Uring!N \in Nat
  BY RingFits
<1>1. CASE Uring!Setup
  <2>1. Uring!TypeOK' /\ InChunk' /\ WhereTheOpsAre'
    BY <1>1, <1>n DEF Uring!Setup, Uring!Return, Uring!TypeOK, InChunk,
       WhereTheOpsAre, Uring!Error
  <2>2. Reaped'
    BY <1>1 DEF Uring!Setup, Reaped
  <2>3. Uring!AnswersInOrder'
    BY <1>1, <1>n DEF Uring!Setup, Uring!Return, Uring!AnswersInOrder, Uring!Error
  <2> QED BY <2>1, <2>2, <2>3
<1>2. CASE Uring!PushChunk
  <2>c. Uring!Chunk \subseteq 1..Uring!N
    BY <1>2, ChunkInRange DEF Uring!PushChunk, InChunk
  <2>1. Uring!TypeOK' /\ InChunk'
    <3>1. CASE Uring!Return(Uring!Error) /\ UNCHANGED sq
      BY <1>2, <3>1 DEF Uring!PushChunk, Uring!Return, Uring!TypeOK, InChunk,
         Uring!Error
    <3>2. CASE uring_phase' = "submit" /\ sq' = sq \cup Uring!Chunk /\ UNCHANGED uring_answer
      BY <1>2, <2>c, <3>2 DEF Uring!PushChunk, Uring!TypeOK, InChunk
    <3> QED BY <1>2, <3>1, <3>2 DEF Uring!PushChunk
  <2>2. Uring!Chunk' = Uring!Chunk
    BY <1>2 DEF Uring!PushChunk, Uring!Chunk, Uring!ChunkEnd
  <2>3. WhereTheOpsAre'
    BY <1>2, <2>2 DEF Uring!PushChunk, Uring!Return, WhereTheOpsAre
  <2>4. Reaped' /\ Uring!AnswersInOrder'
    BY <1>2, AnswersStay DEF Uring!PushChunk, Uring!Return, Uring!Error
  <2> QED BY <2>1, <2>3, <2>4
<1>3. CASE Uring!Submit
  <2>1. CASE Uring!Return(Uring!Error) /\ UNCHANGED <<sq, inflight, short>>
    <3>1. Uring!TypeOK' /\ InChunk' /\ WhereTheOpsAre'
      BY <1>3, <2>1 DEF Uring!Submit, Uring!Return, Uring!TypeOK, InChunk,
         WhereTheOpsAre, Uring!Error
    <3>2. Reaped' /\ Uring!AnswersInOrder'
      BY <1>3, <2>1, AnswersStay DEF Uring!Submit, Uring!Return, Uring!Error
    <3> QED BY <3>1, <3>2
  <2>2. CASE \E n \in 1..Cardinality(sq) :
               /\ inflight' = inflight \cup Uring!Front(n)
               /\ sq' = sq \ Uring!Front(n)
               /\ short' = (short \/ n < Cardinality(sq))
               /\ uring_phase' = "wait"
               /\ UNCHANGED uring_answer
    <3> PICK n \in 1..Cardinality(sq) :
               /\ inflight' = inflight \cup Uring!Front(n)
               /\ sq' = sq \ Uring!Front(n)
               /\ short' = (short \/ n < Cardinality(sq))
               /\ uring_phase' = "wait"
               /\ UNCHANGED uring_answer
      BY <2>2
    <3>1. uring_phase = "submit" /\ UNCHANGED <<next, cq, stats>>
      BY <1>3 DEF Uring!Submit
    <3>2. IsFiniteSet(sq) /\ sq \subseteq Nat /\ Cardinality(sq) \in Nat
      <4>1. sq \in SUBSET (1..Uring!N) /\ IsFiniteSet(1..Uring!N)
        BY <1>n, FS_Interval DEF Uring!TypeOK
      <4>2. IsFiniteSet(sq)
        BY <4>1, FS_Subset
      <4>3. sq \subseteq Nat
        BY <1>n, <4>1
      <4> QED BY <4>2, <4>3, FS_CardinalityType
    <3>3. Uring!Front(n) \subseteq sq
      BY FrontIsPart
    <3>4. Uring!TypeOK' /\ InChunk'
      BY <3>1, <3>3 DEF Uring!TypeOK, InChunk
    <3>5. Uring!Chunk' = Uring!Chunk
      BY <3>1 DEF Uring!Chunk, Uring!ChunkEnd
    <3>6. ASSUME ~short' PROVE ~short /\ Uring!Front(n) = sq
      <4>1. ~(short \/ n < Cardinality(sq))
        BY <3>6
      <4>2. n = Cardinality(sq)
        BY <3>2, <4>1
      <4> QED BY <4>1, <4>2, <3>2, FrontOfAll
    <3>7. WhereTheOpsAre'
      BY <3>1, <3>5, <3>6 DEF WhereTheOpsAre
    <3>8. Reaped' /\ Uring!AnswersInOrder'
      BY <3>1, AnswersStay
    <3> QED BY <3>4, <3>7, <3>8
  <2> QED BY <1>3, <2>1, <2>2, UringCounts DEF Uring!Submit
<1>4. CASE Uring!Complete
  <2> PICK x \in inflight : inflight' = inflight \ {x} /\ cq' = cq \cup {x}
    BY <1>4 DEF Uring!Complete
  <2>1. UNCHANGED <<uring_phase, next, sq, stats, uring_answer, short>>
    BY <1>4 DEF Uring!Complete
  <2>2. Uring!TypeOK' /\ InChunk'
    BY <2>1 DEF Uring!TypeOK, InChunk
  <2>3. Uring!Chunk' = Uring!Chunk
    BY <2>1 DEF Uring!Chunk, Uring!ChunkEnd
  <2>4. WhereTheOpsAre'
    BY <2>1, <2>3 DEF WhereTheOpsAre, Uring!TypeOK
  <2> QED BY <2>1, <2>2, <2>4, AnswersStay
<1>5. CASE Uring!WaitOver
  <2>1. Uring!TypeOK' /\ InChunk'
    BY <1>5 DEF Uring!WaitOver, Uring!TypeOK, InChunk
  <2>2. Uring!Chunk' = Uring!Chunk
    BY <1>5 DEF Uring!WaitOver, Uring!Chunk, Uring!ChunkEnd
  <2>3. ASSUME ~short PROVE cq = Uring!Chunk /\ inflight = {} /\ sq = {}
    <3>1. /\ sq = {} /\ inflight \cup cq = Uring!Chunk /\ inflight \cap cq = {}
          /\ Cardinality(cq) >= Cardinality(Uring!Chunk)
      BY <1>5, <2>3, UringCounts DEF Uring!WaitOver, WhereTheOpsAre
    <3>2. IsFiniteSet(Uring!Chunk)
      BY <1>5, ChunkInRange DEF Uring!WaitOver, InChunk
    <3>3. /\ IsFiniteSet(cq) /\ Cardinality(cq) <= Cardinality(Uring!Chunk)
          /\ Cardinality(Uring!Chunk) = Cardinality(cq) => Uring!Chunk = cq
      BY <3>1, <3>2, FS_Subset
    <3>4. Uring!Chunk = cq
      BY <3>1, <3>2, <3>3, FS_CardinalityType
    <3> QED BY <3>1, <3>4
  <2>4. WhereTheOpsAre'
    BY <1>5, <2>2, <2>3 DEF Uring!WaitOver, WhereTheOpsAre
  <2>5. Reaped' /\ Uring!AnswersInOrder'
    BY <1>5, AnswersStay DEF Uring!WaitOver
  <2> QED BY <2>1, <2>4, <2>5
<1>6. CASE Uring!WaitCutShort
  <2>1. Uring!TypeOK' /\ InChunk' /\ WhereTheOpsAre'
    BY <1>6 DEF Uring!WaitCutShort, Uring!TypeOK, InChunk, WhereTheOpsAre
  <2>2. Reaped' /\ Uring!AnswersInOrder'
    BY <1>6, AnswersStay DEF Uring!WaitCutShort
  <2> QED BY <2>1, <2>2
<1>7. CASE Uring!Harvest
  <2>i. next \in 1..Uring!N
    BY <1>7 DEF Uring!Harvest, InChunk
  <2>c. /\ Uring!ChunkEnd \in next..Uring!N
        /\ \A x \in 1..Uring!N : x < Uring!ChunkEnd + 1 => x < next \/ x \in Uring!Chunk
    BY <2>i, ChunkInRange
  <2>1. /\ stats' = [x \in 1..Uring!N |-> IF x \in cq THEN Stats[x] ELSE stats[x]]
        /\ next' = Uring!ChunkEnd + 1 /\ cq' = {} /\ UNCHANGED <<sq, inflight, short>>
    BY <1>7 DEF Uring!Harvest
  <2>2. next' \in 1..(Uring!N + 1)
    BY <1>n, <2>i, <2>c, <2>1
  <2>3. Uring!TypeOK' /\ InChunk'
    BY <1>7, <1>n, <2>1, <2>2 DEF Uring!Harvest, Uring!Return, Uring!TypeOK, InChunk
  <2>4. WhereTheOpsAre'
    BY <1>7 DEF Uring!Harvest, Uring!Return, WhereTheOpsAre
  <2>5. Reaped'
    <3> SUFFICES ASSUME NEW x \in 1..Uring!N
                 PROVE  \/ stats'[x] = Stats[x]
                        \/ stats'[x] = Uring!Missing /\ (short \/ x >= next')
      BY <2>1 DEF Reaped
    <3>1. CASE x \in cq
      BY <2>1, <3>1
    <3>2. CASE x \notin cq
      <4>1. stats'[x] = stats[x]
        BY <2>1, <3>2
      <4>2. CASE short
        BY <4>1, <4>2 DEF Reaped
      <4>3. CASE ~short
        <5>1. x \notin Uring!Chunk
          BY <1>7, <3>2, <4>3 DEF Uring!Harvest, WhereTheOpsAre
        <5>2. x < next \/ x >= next'
          BY <1>n, <2>c, <2>1, <2>2, <5>1
        <5> QED BY <1>n, <2>i, <4>1, <5>2 DEF Reaped
      <4> QED BY <4>2, <4>3
    <3> QED BY <3>1, <3>2
  <2>6. Uring!AnswersInOrder'
    <3>1. CASE next' <= Uring!N
      BY <1>7, <2>1, <3>1 DEF Uring!Harvest, Uring!AnswersInOrder
    <3>2. CASE ~(next' <= Uring!N)
      <4>1. uring_answer' = [kind |-> "ok", list |-> stats']
        BY <1>7, <3>2 DEF Uring!Harvest, Uring!Return
      <4>2. \A x \in 1..Uring!N : ~(x >= next')
        BY <1>n, <2>2, <3>2
      <4> QED BY <2>1, <2>5, <4>1, <4>2 DEF Uring!AnswersInOrder, Reaped
    <3> QED BY <3>1, <3>2
  <2> QED BY <2>3, <2>4, <2>5, <2>6
<1>8. CASE UNCHANGED Uring!uringVars
  BY <1>8 DEF Uring!uringVars, Uring!TypeOK, InChunk, Reaped, WhereTheOpsAre,
     Uring!AnswersInOrder, Uring!Chunk, Uring!ChunkEnd
<1> QED BY <1>1, <1>2, <1>3, <1>4, <1>5, <1>6, <1>7, <1>8 DEF Uring!Next, Uring!Returned

-----------------------------------------------------------------------------
(* A batch that returns Ok answers each path with its own stat, in the     *)
(* order of the paths, and calls one missing only after an early return of *)
(* the kernel, for any number of paths and any size of the ring.           *)
THEOREM EachPathItsAnswer ==
  ASSUME Uring!UringAssumption
  PROVE  Uring!Spec => []Uring!AnswersInOrder
<1>1. Uring!Init => UringInv
  BY InitUring
<1>2. UringInv /\ [Uring!Next]_(Uring!uringVars) => UringInv'
  BY NextUring
<1>3. UringInv => Uring!AnswersInOrder
  BY DEF UringInv
<1> QED BY <1>1, <1>2, <1>3, PTL DEF Uring!Spec

(* The variables of a batch of stats keep their types: nothing is pushed,  *)
(* submitted or reaped that is not a path of the call.                     *)
THEOREM UringTyped ==
  ASSUME Uring!UringAssumption
  PROVE  Uring!Spec => []Uring!TypeOK
<1>1. Uring!Init => UringInv
  BY InitUring
<1>2. UringInv /\ [Uring!Next]_(Uring!uringVars) => UringInv'
  BY NextUring
<1>3. UringInv => Uring!TypeOK
  BY DEF UringInv
<1> QED BY <1>1, <1>2, <1>3, PTL DEF Uring!Spec

(* Buffers are freed while no operation is under way, unless the kernel    *)
(* has let the call go early.                                              *)
THEOREM NoOpOutlivesBuffers ==
  ASSUME Uring!UringAssumption
  PROVE  Uring!Spec => []Uring!BuffersOutliveOps
<1>1. Uring!Init => UringInv
  BY InitUring
<1>2. UringInv /\ [Uring!Next]_(Uring!uringVars) => UringInv'
  BY NextUring
<1>3. UringInv => Uring!BuffersOutliveOps
  BY DEF UringInv, WhereTheOpsAre, Uring!BuffersOutliveOps
<1> QED BY <1>1, <1>2, <1>3, PTL DEF Uring!Spec

-----------------------------------------------------------------------------
(* FfmpegCalls: decodes that share a temporary file, and profiled runs.    *)
LEMMA CallsCounts ==
  \A S : Calls!Cardinality(S) = Cardinality(S) /\ Calls!IsFiniteSet(S) = IsFiniteSet(S)
BY DEF Cardinality, Calls!Cardinality, IsFiniteSet, Calls!IsFiniteSet

(* The steps of a run after ffmpeg has ended, and the counters it has      *)
(* written when it is at one of them.                                      *)
Ended == Calls!Counters \cup {"status"}
Written(c) ==
  {"status"} \cup IF c = "subprocess_count" THEN {"io_bytes_written", "io_bytes_read"}
                  ELSE IF c = "io_bytes_written" THEN {"io_bytes_read"} ELSE {}

(* The runs that have something to report for a counter, and those of them *)
(* that the counter has in it already.                                     *)
Reporting(c) == {t \in Threads : bytes[t][c] = 1}
Counted(c) == {t \in Reporting(c) : call_pc[t] \in Written(c)}

(* A decode that met no other one is alone at the temporary file, and the  *)
(* file has its samples from the moment it is opened to that when it is    *)
(* read.                                                                   *)
OwnFile ==
  /\ \A t \in Threads : call_pc[t] = "writing" <=> fd[t] # Calls!NoFile
  /\ \A t \in Threads : t \notin shared =>
       /\ call_pc[t] \in Calls!InFile =>
            \A u \in Threads \ {t} : call_pc[u] \notin Calls!InFile
       /\ call_pc[t] = "writing" => entry = fd[t]
       /\ call_pc[t] \in {"writing", "read"} =>
            entry # Calls!NoFile /\ holds[entry] = {t}
       /\ call_pc[t] \in {"remove", "answer"} => got[t] = {t}

(* A run adds at most one to a counter, and nothing outside its report.    *)
OneEach ==
  \A t \in Threads : \A c \in Calls!Counters :
    bytes[t][c] \in 0..1 /\ (call_pc[t] \notin Ended => bytes[t][c] = 0)

(* What is in a counter and what has happened, beyond the runs that have   *)
(* returned, is what the runs under way have to report.                    *)
Tallied ==
  \A c \in Calls!Counters :
    /\ count[c] = reported[c] + Cardinality(Counted(c))
    /\ happened[c] = reported[c] + Cardinality(Reporting(c))

Reported ==
  \A c \in Calls!Counters :
    /\ floor[c] <= reported[c]
    /\ c \notin unread => floor[c] <= report[c] /\ report[c] <= happened[c]

CallsInv == Calls!TypeOK /\ OwnFile /\ OneEach /\ Tallied /\ Reported

LEMMA ThreadsFinite ==
  ASSUME Calls!CallsAssumption
  PROVE  /\ IsFiniteSet(Threads) /\ Cardinality(Threads) \in Nat
         /\ Calls!Inodes = 1..Cardinality(Threads)
<1>1. IsFiniteSet(Threads)
  BY CallsCounts DEF Calls!CallsAssumption
<1>2. Cardinality(Threads) \in Nat
  BY <1>1, FS_CardinalityType
<1> QED BY <1>1, <1>2, CallsCounts DEF Calls!Inodes

(* There is an inode for each thread, so one is free for a thread that     *)
(* writes to none.                                                         *)
LEMMA FreeInode ==
  ASSUME Calls!CallsAssumption, Calls!TypeOK, NEW t \in Threads, fd[t] = Calls!NoFile
  PROVE  Calls!temp_file \in Calls!Inodes
<1>1. SUFFICES ASSUME \A i \in Calls!Inodes : i \in Calls!InUse PROVE FALSE
  <2>1. ASSUME NEW i \in Calls!Inodes, i \notin Calls!InUse
        PROVE  Calls!temp_file \in Calls!Inodes
    BY <2>1 DEF Calls!temp_file, Calls!TypeOK
  <2> QED BY <2>1
<1> DEFINE f == [i \in Calls!Inodes |-> CHOOSE u \in Threads : fd[u] = i]
<1>2. \A i \in Calls!Inodes : f[i] \in Threads /\ fd[f[i]] = i
  BY <1>1 DEF Calls!InUse
<1>3. t \notin {f[i] : i \in Calls!Inodes}
  BY <1>2, ThreadsFinite DEF Calls!NoFile
<1>4. f \in [Calls!Inodes -> Threads \ {t}]
  BY <1>2, <1>3
<1>5. /\ IsFiniteSet(Calls!Inodes) /\ Cardinality(Calls!Inodes) = Cardinality(Threads)
  <2>1. /\ IsFiniteSet(1..Cardinality(Threads))
        /\ Cardinality(1..Cardinality(Threads)) = Cardinality(Threads)
    BY ThreadsFinite, FS_Interval
  <2> QED BY <2>1, ThreadsFinite
<1>6. /\ IsFiniteSet(Threads \ {t})
      /\ Cardinality(Threads \ {t}) = Cardinality(Threads) - 1
  BY ThreadsFinite, FS_RemoveElement
<1>7. Cardinality(Threads \ {t}) < Cardinality(Calls!Inodes)
  BY <1>5, <1>6, ThreadsFinite
<1> HIDE DEF f
<1>8. PICK i, j \in Calls!Inodes : i # j /\ f[i] = f[j]
  BY <1>4, <1>5, <1>6, <1>7, FS_PigeonHole
<1> QED BY <1>2, <1>8

LEMMA InitCalls == ASSUME Calls!CallsAssumption, Calls!Init PROVE CallsInv
<1>1. Calls!TypeOK
  BY DEF Calls!Init, Calls!TypeOK, Calls!Nothing, Calls!CallsAssumption
<1>2. OwnFile
  BY DEF Calls!Init, OwnFile, Calls!InFile
<1>3. OneEach
  BY DEF Calls!Init, OneEach, Calls!Nothing
<1>4. Tallied
  <2>1. \A c \in Calls!Counters : Reporting(c) = {} /\ Counted(c) = {}
    BY DEF Calls!Init, Reporting, Counted, Calls!Nothing
  <2>2. \A c \in Calls!Counters :
          Cardinality(Reporting(c)) = 0 /\ Cardinality(Counted(c)) = 0
    BY <2>1, FS_EmptySet
  <2>3. \A c \in Calls!Counters : count[c] = 0 /\ reported[c] = 0 /\ happened[c] = 0
    BY DEF Calls!Init, Calls!Nothing
  <2> QED BY <2>2, <2>3 DEF Tallied
<1>5. Reported
  BY DEF Calls!Init, Reported, Calls!Nothing
<1> QED BY <1>1, <1>2, <1>3, <1>4, <1>5 DEF CallsInv

(* A step outside the decodes keeps what is said of the file.              *)
LEMMA OwnFileStays ==
  ASSUME Calls!TypeOK, OwnFile, NEW t \in Threads, NEW l, Calls!Goto(t, l),
         UNCHANGED <<entry, holds, fd, got, shared>>,
         call_pc[t] \notin Calls!InFile \cup {"answer"},
         l \notin Calls!InFile \cup {"answer"}
  PROVE  OwnFile'
BY DEF Calls!TypeOK, OwnFile, Calls!Goto, Calls!InFile

(* A step outside the reports of the runs keeps what is said of them.      *)
LEMMA TallyStays ==
  ASSUME CallsInv, NEW t \in Threads, NEW l, Calls!Goto(t, l),
         UNCHANGED <<count, bytes, reported, happened, report, floor, unread>>,
         call_pc[t] \notin Ended, l \notin Ended
  PROVE  OneEach' /\ Tallied' /\ Reported'
<1>1. OneEach'
  BY DEF CallsInv, OneEach, Calls!TypeOK, Calls!Goto, Ended
<1>2. \A c \in Calls!Counters : Reporting(c)' = Reporting(c) /\ Counted(c)' = Counted(c)
  <2> SUFFICES ASSUME NEW c \in Calls!Counters
               PROVE  Reporting(c)' = Reporting(c) /\ Counted(c)' = Counted(c)
    OBVIOUS
  <2>1. Written(c) \subseteq Ended
    BY DEF Written, Ended, Calls!Counters
  <2>2. \A u \in Threads : call_pc'[u] \in Written(c) <=> call_pc[u] \in Written(c)
    BY <2>1 DEF CallsInv, Calls!TypeOK, Calls!Goto
  <2> QED BY <2>2 DEF Reporting, Counted
<1>3. Tallied'
  BY <1>2 DEF CallsInv, Tallied
<1>4. Reported'
  BY DEF CallsInv, Reported
<1> QED BY <1>1, <1>3, <1>4

(* The steps of a decode.                                                  *)
LEMMA DecodeSteps ==
  ASSUME Calls!CallsAssumption, CallsInv, NEW t \in Threads,
         \/ Calls!Decode(t) \/ Calls!Open(t) \/ Calls!Finish(t) \/ Calls!DecodeFails(t)
         \/ Calls!Read(t) \/ Calls!Remove(t) \/ Calls!Answer(t)
  PROVE  CallsInv'
<1> USE DEF CallsInv
<1>1. CASE Calls!Decode(t)
  <2>1. Calls!TypeOK'
    BY <1>1 DEF Calls!CallsAssumption, Calls!Decode, Calls!TypeOK, Calls!Goto,
       Calls!fileVars, Calls!reportVars
  <2>2. OwnFile'
    BY <1>1, OwnFileStays DEF Calls!Decode, Calls!fileVars, Calls!InFile
  <2>3. OneEach' /\ Tallied' /\ Reported'
    BY <1>1, TallyStays DEF Calls!Decode, Calls!reportVars, Ended, Calls!Counters
  <2> QED BY <2>1, <2>2, <2>3
<1>2. CASE Calls!Open(t)
  <2>i. fd[t] = Calls!NoFile
    BY <1>2 DEF Calls!Open, OwnFile
  <2>f. Calls!temp_file \in Calls!Inodes
    BY <2>i, FreeInode
  <2>z. Calls!temp_file # Calls!NoFile
    BY <2>f, ThreadsFinite DEF Calls!NoFile
  <2> DEFINE others == {u \in Threads \ {t} : call_pc[u] \in Calls!InFile}
  <2>s. shared' = shared \cup others \cup IF others = {} THEN {} ELSE {t}
    BY <1>2 DEF Calls!Open
  <2>1. Calls!TypeOK'
    BY <1>2, <2>f, <2>s DEF Calls!Open, Calls!TypeOK, Calls!Goto, Calls!Truncated,
       Calls!reportVars
  <2>2. OwnFile'
    <3>1. \A u \in Threads : call_pc'[u] = "writing" <=> fd'[u] # Calls!NoFile
      BY <1>2, <2>z DEF Calls!Open, OwnFile, Calls!TypeOK, Calls!Goto
    <3>2. ASSUME NEW u \in Threads, u \notin shared', u # t
          PROVE  call_pc'[u] = call_pc[u] /\ call_pc[u] \notin Calls!InFile
                 /\ u \notin shared /\ got'[u] = got[u]
      BY <1>2, <2>s, <3>2 DEF Calls!Open, Calls!TypeOK, Calls!Goto
    <3>3. t \notin shared' => \A u \in Threads \ {t} : call_pc'[u] \notin Calls!InFile
      BY <1>2, <2>s DEF Calls!Open, Calls!TypeOK, Calls!Goto
    <3>4. /\ entry' = fd'[t] /\ entry' # Calls!NoFile /\ holds'[entry'] = {t}
          /\ call_pc'[t] = "writing"
      BY <1>2, <2>z, <2>f DEF Calls!Open, Calls!TypeOK, Calls!Goto, Calls!Truncated
    <3> HIDE DEF others
    <3>5. ASSUME NEW u \in Threads, u \notin shared'
          PROVE  /\ call_pc'[u] \in Calls!InFile =>
                      \A v \in Threads \ {u} : call_pc'[v] \notin Calls!InFile
                 /\ call_pc'[u] = "writing" => entry' = fd'[u]
                 /\ call_pc'[u] \in {"writing", "read"} =>
                      entry' # Calls!NoFile /\ holds'[entry'] = {u}
                 /\ call_pc'[u] \in {"remove", "answer"} => got'[u] = {u}
      <4>1. CASE u = t
        BY <3>3, <3>4, <3>5, <4>1
      <4>2. CASE u # t
        <5>1. /\ call_pc'[u] = call_pc[u] /\ call_pc[u] \notin Calls!InFile
              /\ u \notin shared /\ got'[u] = got[u]
          BY <3>2, <3>5, <4>2
        <5> QED BY <5>1 DEF OwnFile, Calls!InFile
      <4> QED BY <4>1, <4>2
    <3> QED BY <3>1, <3>5 DEF OwnFile, Calls!InFile, Calls!NoFile
  <2>3. OneEach' /\ Tallied' /\ Reported'
    BY <1>2, TallyStays DEF Calls!Open, Calls!reportVars, Ended, Calls!Counters
  <2> QED BY <2>1, <2>2, <2>3
<1>3. CASE Calls!Finish(t)
  <2>1. Calls!TypeOK'
    BY <1>3 DEF Calls!Finish, Calls!TypeOK, Calls!Goto, Calls!reportVars
  <2>2. OwnFile'
    <3>1. \A u \in Threads : u # t =>
            call_pc'[u] = call_pc[u] /\ fd'[u] = fd[u] /\ got'[u] = got[u]
      BY <1>3 DEF Calls!Finish, Calls!TypeOK, Calls!Goto
    <3>2. /\ call_pc[t] = "writing" /\ call_pc'[t] = "read" /\ fd'[t] = Calls!NoFile
          /\ shared' = shared /\ entry' = entry
      BY <1>3 DEF Calls!Finish, Calls!TypeOK, Calls!Goto
    <3>3. t \notin shared => holds'[entry] = {t}
      BY <1>3 DEF Calls!Finish, OwnFile, Calls!TypeOK
    <3> QED BY <3>1, <3>2, <3>3 DEF OwnFile, Calls!InFile, Calls!NoFile
  <2>3. OneEach' /\ Tallied' /\ Reported'
    BY <1>3, TallyStays DEF Calls!Finish, Calls!reportVars, Ended, Calls!Counters
  <2> QED BY <2>1, <2>2, <2>3
<1>4. CASE Calls!DecodeFails(t)
  <2>1. Calls!TypeOK'
    BY <1>4 DEF Calls!DecodeFails, Calls!TypeOK, Calls!Goto, Calls!reportVars
  <2>2. OwnFile'
    <3>1. \A u \in Threads : u # t =>
            call_pc'[u] = call_pc[u] /\ fd'[u] = fd[u] /\ got'[u] = got[u]
      BY <1>4 DEF Calls!DecodeFails, Calls!TypeOK, Calls!Goto
    <3>2. /\ call_pc[t] \in {"decode", "writing"} /\ call_pc'[t] = "idle"
          /\ fd'[t] = Calls!NoFile /\ shared' = shared \ {t} /\ entry' = entry
          /\ call_pc[t] = "decode" => holds' = holds
      BY <1>4 DEF Calls!DecodeFails, Calls!TypeOK, Calls!Goto
    <3> QED BY <3>1, <3>2 DEF OwnFile, Calls!InFile, Calls!NoFile
  <2>3. OneEach' /\ Tallied' /\ Reported'
    BY <1>4, TallyStays DEF Calls!DecodeFails, Calls!reportVars, Ended, Calls!Counters
  <2> QED BY <2>1, <2>2, <2>3
<1>5. CASE Calls!Read(t)
  <2>1. Calls!TypeOK'
    BY <1>5 DEF Calls!Read, Calls!TypeOK, Calls!Goto, Calls!reportVars, Calls!fileVars
  <2>2. OwnFile'
    <3>1. \A u \in Threads : u # t => call_pc'[u] = call_pc[u] /\ got'[u] = got[u]
      BY <1>5 DEF Calls!Read, Calls!TypeOK, Calls!Goto
    <3>2. /\ call_pc[t] = "read" /\ call_pc'[t] \in {"remove", "answer"}
          /\ UNCHANGED <<entry, holds, fd, shared>>
          /\ entry # Calls!NoFile => call_pc'[t] = "remove" /\ got'[t] = holds[entry]
      BY <1>5 DEF Calls!Read, Calls!TypeOK, Calls!Goto, Calls!fileVars
    <3> QED BY <3>1, <3>2 DEF OwnFile, Calls!InFile, Calls!NoFile
  <2>3. OneEach' /\ Tallied' /\ Reported'
    BY <1>5, TallyStays DEF Calls!Read, Calls!reportVars, Ended, Calls!Counters
  <2> QED BY <2>1, <2>2, <2>3
<1>6. CASE Calls!Remove(t)
  <2>1. Calls!TypeOK'
    BY <1>6 DEF Calls!Remove, Calls!TypeOK, Calls!Goto, Calls!reportVars
  <2>2. OwnFile'
    <3>1. \A u \in Threads : u # t => call_pc'[u] = call_pc[u]
      BY <1>6 DEF Calls!Remove, Calls!TypeOK, Calls!Goto
    <3>2. /\ call_pc[t] = "remove" /\ call_pc'[t] = "answer"
          /\ UNCHANGED <<holds, fd, shared, got>>
      BY <1>6 DEF Calls!Remove, Calls!TypeOK, Calls!Goto
    <3> QED BY <3>1, <3>2 DEF OwnFile, Calls!InFile, Calls!NoFile
  <2>3. OneEach' /\ Tallied' /\ Reported'
    BY <1>6, TallyStays DEF Calls!Remove, Calls!reportVars, Ended, Calls!Counters
  <2> QED BY <2>1, <2>2, <2>3
<1>7. CASE Calls!Answer(t)
  <2>1. Calls!TypeOK'
    BY <1>7 DEF Calls!Answer, Calls!TypeOK, Calls!Goto, Calls!reportVars, Calls!fileVars
  <2>2. OwnFile'
    <3>1. \A u \in Threads : u # t => call_pc'[u] = call_pc[u] /\ got'[u] = got[u]
      BY <1>7 DEF Calls!Answer, Calls!TypeOK, Calls!Goto
    <3>2. /\ call_pc[t] = "answer" /\ call_pc'[t] = "idle"
          /\ UNCHANGED <<entry, holds, fd>> /\ shared' = shared \ {t}
      BY <1>7 DEF Calls!Answer, Calls!TypeOK, Calls!Goto, Calls!fileVars
    <3> QED BY <3>1, <3>2 DEF OwnFile, Calls!InFile, Calls!NoFile
  <2>3. OneEach' /\ Tallied' /\ Reported'
    BY <1>7, TallyStays DEF Calls!Answer, Calls!reportVars, Ended, Calls!Counters
  <2> QED BY <2>1, <2>2, <2>3
<1> QED BY <1>1, <1>2, <1>3, <1>4, <1>5, <1>6, <1>7

LEMMA TalliesFinite ==
  ASSUME Calls!CallsAssumption, NEW c
  PROVE  /\ IsFiniteSet(Reporting(c)) /\ IsFiniteSet(Counted(c))
         /\ Cardinality(Reporting(c)) \in Nat /\ Cardinality(Counted(c)) \in Nat
         /\ Cardinality(Counted(c)) <= Cardinality(Reporting(c))
<1>1. IsFiniteSet(Reporting(c)) /\ Cardinality(Reporting(c)) \in Nat
  <2>1. Reporting(c) \in SUBSET Threads
    BY DEF Reporting
  <2>2. IsFiniteSet(Reporting(c))
    BY <2>1, ThreadsFinite, FS_Subset
  <2> QED BY <2>2, FS_CardinalityType
<1>2. Counted(c) \in SUBSET Reporting(c)
  BY DEF Counted
<1>3. IsFiniteSet(Counted(c)) /\ Cardinality(Counted(c)) <= Cardinality(Reporting(c))
  BY <1>1, <1>2, FS_Subset
<1> QED BY <1>1, <1>3, FS_CardinalityType

(* The counters and the sums are natural numbers.                          *)
LEMMA NumbersTyped ==
  ASSUME Calls!TypeOK, NEW c \in Calls!Counters
  PROVE  /\ count[c] \in Nat /\ report[c] \in Nat /\ floor[c] \in Nat
         /\ reported[c] \in Nat /\ happened[c] \in Nat
         /\ \A t \in Threads : bytes[t][c] \in Nat
BY DEF Calls!TypeOK

LEMMA AddedToTally ==
  ASSUME NEW S, IsFiniteSet(S), NEW t, t \notin S, NEW n \in 0..1
  PROVE  Cardinality(IF n = 1 THEN S \cup {t} ELSE S) = Cardinality(S) + n
<1>1. Cardinality(S) \in Nat
  BY FS_CardinalityType
<1>2. Cardinality(S \cup {t}) = Cardinality(S) + 1
  BY FS_AddElement
<1>3. CASE n = 0
  BY <1>1, <1>3
<1>4. CASE n = 1
  BY <1>1, <1>2, <1>4
<1> QED BY <1>3, <1>4

LEMMA TakenFromTally ==
  ASSUME NEW S, IsFiniteSet(S), NEW t, NEW n \in 0..1, t \in S <=> n = 1
  PROVE  Cardinality(S \ {t}) = Cardinality(S) - n
<1>1. Cardinality(S) \in Nat
  BY FS_CardinalityType
<1>2. Cardinality(S \ {t}) = IF t \in S THEN Cardinality(S) - 1 ELSE Cardinality(S)
  BY FS_RemoveElement
<1> QED BY <1>1, <1>2

LEMMA ExitStep ==
  ASSUME Calls!CallsAssumption, CallsInv, NEW t \in Threads, Calls!Exit(t)
  PROVE  CallsInv'
<1> USE DEF CallsInv
<1>1. PICK r \in [Calls!Counters -> 0..1] :
        /\ bytes' = [bytes EXCEPT ![t] = r]
        /\ happened' = Calls!Plus(happened, bytes'[t])
  <2>1. PICK w \in 0..1 : bytes' = [bytes EXCEPT ![t] =
          [subprocess_count |-> 1, io_bytes_read |-> 1, io_bytes_written |-> w]]
    BY DEF Calls!Exit
  <2> DEFINE q == [subprocess_count |-> 1, io_bytes_read |-> 1, io_bytes_written |-> w]
  <2>2. q \in [Calls!Counters -> 0..1]
    BY DEF Calls!Counters
  <2>3. happened' = Calls!Plus(happened, bytes'[t])
    BY DEF Calls!Exit
  <2> QED BY <2>1, <2>2, <2>3
<1>2. /\ call_pc[t] = "run" /\ Calls!Goto(t, "subprocess_count")
      /\ UNCHANGED <<entry, holds, fd, got, count, report, unread, reports, floor,
                     calls, shared, reported>>
  BY DEF Calls!Exit, Calls!fileVars, Calls!reportVars
<1>3. /\ bytes'[t] = r /\ \A u \in Threads : u # t => bytes'[u] = bytes[u]
      /\ \A c \in Calls!Counters : happened'[c] = happened[c] + r[c]
      /\ call_pc'[t] = "subprocess_count"
      /\ \A u \in Threads : u # t => call_pc'[u] = call_pc[u]
  BY <1>1, <1>2 DEF Calls!TypeOK, Calls!Goto, Calls!Plus
<1>4. Calls!TypeOK'
  <2>1. happened' \in [Calls!Counters -> Nat]
    BY <1>1, <1>3 DEF Calls!TypeOK, Calls!Plus
  <2>2. bytes' \in [Threads -> [Calls!Counters -> Nat]]
    BY <1>1 DEF Calls!TypeOK
  <2>3. call_pc' = [call_pc EXCEPT ![t] = "subprocess_count"]
        /\ "subprocess_count" \in Calls!Counters
    BY <1>2 DEF Calls!Goto, Calls!Counters
  <2> QED BY <1>2, <2>1, <2>2, <2>3 DEF Calls!TypeOK
<1>5. OwnFile'
  BY <1>2, OwnFileStays DEF Calls!InFile
<1>6. OneEach'
  BY <1>1, <1>3 DEF OneEach, Ended, Calls!Counters
<1>7. Tallied' /\ Reported'
  <2> SUFFICES ASSUME NEW c \in Calls!Counters
               PROVE  /\ count'[c] = reported'[c] + Cardinality(Counted(c)')
                      /\ happened'[c] = reported'[c] + Cardinality(Reporting(c)')
                      /\ floor'[c] <= reported'[c]
                      /\ c \notin unread' =>
                           floor'[c] <= report'[c] /\ report'[c] <= happened'[c]
    BY DEF Tallied, Reported
  <2>1. t \notin Reporting(c) /\ r[c] \in 0..1
    BY <1>1, <1>2 DEF OneEach, Reporting, Ended, Calls!Counters
  <2>2. Reporting(c)' = IF r[c] = 1 THEN Reporting(c) \cup {t} ELSE Reporting(c)
    BY <1>3, <2>1 DEF Reporting
  <2>3. Counted(c)' = Counted(c)
    BY <1>3, <2>1, <2>2 DEF Counted, Written, Reporting
  <2>4. Cardinality(Reporting(c)') = Cardinality(Reporting(c)) + r[c]
    BY <2>1, <2>2, TalliesFinite, AddedToTally
  <2> QED BY <1>2, <1>3, <2>1, <2>3, <2>4, NumbersTyped, TalliesFinite
        DEF Tallied, Reported
<1> QED BY <1>4, <1>5, <1>6, <1>7

LEMMA RecordStep ==
  ASSUME Calls!CallsAssumption, CallsInv, NEW t \in Threads, Calls!Record(t)
  PROVE  CallsInv'
<1> USE DEF CallsInv
<1>0. PICK k \in Calls!Counters : k = call_pc[t]
  BY DEF Calls!Record
<1>1. PICK l : l = Calls!AfterCounter[k]
  OBVIOUS
<1>2. /\ l \in Ended /\ l \in Written(k)
      /\ \A c \in Calls!Counters : c # k => (k \in Written(c) <=> l \in Written(c))
      /\ k \notin Written(k)
  BY <1>1 DEF Calls!AfterCounter, Calls!Counters, Written, Ended
<1>3. /\ Calls!Goto(t, l) /\ count' = [count EXCEPT ![k] = count[k] + bytes[t][k]]
      /\ UNCHANGED <<entry, holds, fd, got, bytes, report, unread, reports, floor,
                     calls, shared, reported, happened>>
  BY <1>0, <1>1 DEF Calls!Record, Calls!fetch_add, Calls!fileVars, Calls!reportVars
<1>4. /\ call_pc'[t] = l /\ \A u \in Threads : u # t => call_pc'[u] = call_pc[u]
      /\ count'[k] = count[k] + bytes[t][k]
      /\ \A c \in Calls!Counters : c # k => count'[c] = count[c]
  BY <1>3 DEF Calls!TypeOK, Calls!Goto
<1>5. Calls!TypeOK'
  <2>1. count' \in [Calls!Counters -> Nat]
    BY <1>3, NumbersTyped DEF Calls!TypeOK
  <2>2. call_pc' = [call_pc EXCEPT ![t] = l] /\ l \in Calls!Counters \cup {"status"}
    BY <1>2, <1>3 DEF Calls!Goto, Ended
  <2>3. \A u \in Threads : call_pc'[u] = "writing" => call_pc[u] = "writing"
    BY <1>2, <1>4 DEF Ended, Calls!Counters
  <2> QED BY <1>3, <2>1, <2>2, <2>3 DEF Calls!TypeOK
<1>6. OwnFile'
  BY <1>0, <1>2, <1>3, OwnFileStays DEF Calls!InFile, Ended, Calls!Counters
<1>7. OneEach'
  BY <1>2, <1>3, <1>4 DEF OneEach
<1>8. Tallied' /\ Reported'
  <2> SUFFICES ASSUME NEW c \in Calls!Counters
               PROVE  /\ count'[c] = reported[c] + Cardinality(Counted(c)')
                      /\ Reporting(c)' = Reporting(c)
    BY <1>3 DEF Tallied, Reported
  <2>1. Reporting(c)' = Reporting(c)
    BY <1>3 DEF Reporting
  <2>2. CASE c = k
    <3>1. t \notin Counted(c) /\ bytes[t][c] \in 0..1
      BY <1>0, <1>2, <2>2 DEF Counted, OneEach
    <3>2. Counted(c)' = IF bytes[t][c] = 1 THEN Counted(c) \cup {t} ELSE Counted(c)
      BY <1>2, <1>4, <2>1, <2>2, <3>1 DEF Counted, Reporting
    <3>3. Cardinality(Counted(c)') = Cardinality(Counted(c)) + bytes[t][c]
      BY <3>1, <3>2, TalliesFinite, AddedToTally
    <3> QED BY <1>4, <2>1, <2>2, <3>1, <3>3, NumbersTyped, TalliesFinite DEF Tallied
  <2>3. CASE c # k
    <3>1. Counted(c)' = Counted(c)
      BY <1>0, <1>2, <1>4, <2>1, <2>3 DEF Counted, Reporting
    <3> QED BY <1>4, <2>1, <2>3, <3>1 DEF Tallied
  <2> QED BY <2>2, <2>3
<1> QED BY <1>5, <1>6, <1>7, <1>8

LEMMA ReturnStep ==
  ASSUME Calls!CallsAssumption, CallsInv, NEW t \in Threads, Calls!Return(t)
  PROVE  CallsInv'
<1> USE DEF CallsInv
<1>1. /\ call_pc[t] = "status" /\ Calls!Goto(t, "idle")
      /\ reported' = Calls!Plus(reported, bytes[t])
      /\ bytes' = [bytes EXCEPT ![t] = Calls!Nothing]
      /\ UNCHANGED <<entry, holds, fd, got, count, report, unread, reports, floor,
                     calls, shared, happened>>
  BY DEF Calls!Return, Calls!fileVars, Calls!reportVars
<1>2. /\ call_pc'[t] = "idle" /\ \A u \in Threads : u # t => call_pc'[u] = call_pc[u]
      /\ bytes'[t] = Calls!Nothing /\ \A u \in Threads : u # t => bytes'[u] = bytes[u]
      /\ \A c \in Calls!Counters : reported'[c] = reported[c] + bytes[t][c]
  BY <1>1 DEF Calls!TypeOK, Calls!Goto, Calls!Plus
<1>3. Calls!TypeOK'
  <2>1. reported' \in [Calls!Counters -> Nat]
    BY <1>1, <1>2, NumbersTyped DEF Calls!Plus
  <2>2. bytes' \in [Threads -> [Calls!Counters -> Nat]]
    BY <1>1 DEF Calls!TypeOK, Calls!Nothing
  <2>3. call_pc' = [call_pc EXCEPT ![t] = "idle"]
    BY <1>1 DEF Calls!Goto
  <2> QED BY <1>1, <2>1, <2>2, <2>3 DEF Calls!TypeOK
<1>4. OwnFile'
  BY <1>1, OwnFileStays DEF Calls!InFile
<1>5. OneEach'
  BY <1>2 DEF OneEach, Calls!Nothing
<1>6. Tallied' /\ Reported'
  <2> SUFFICES ASSUME NEW c \in Calls!Counters
               PROVE  /\ count[c] = reported'[c] + Cardinality(Counted(c)')
                      /\ happened[c] = reported'[c] + Cardinality(Reporting(c)')
                      /\ floor[c] <= reported'[c]
    BY <1>1 DEF Tallied, Reported
  <2>1. bytes[t][c] \in 0..1 /\ (t \in Reporting(c) <=> bytes[t][c] = 1)
        /\ (t \in Counted(c) <=> bytes[t][c] = 1)
    BY <1>1 DEF OneEach, Reporting, Counted, Written
  <2>2. Reporting(c)' = Reporting(c) \ {t}
    BY <1>2 DEF Reporting, Calls!Nothing
  <2>3. Counted(c)' = Counted(c) \ {t}
    BY <1>2, <2>2 DEF Counted, Reporting
  <2>4. /\ Cardinality(Reporting(c)') = Cardinality(Reporting(c)) - bytes[t][c]
        /\ Cardinality(Counted(c)') = Cardinality(Counted(c)) - bytes[t][c]
    <3>1. Cardinality(Reporting(c) \ {t}) = Cardinality(Reporting(c)) - bytes[t][c]
      BY <2>1, TalliesFinite, TakenFromTally
    <3>2. Cardinality(Counted(c) \ {t}) = Cardinality(Counted(c)) - bytes[t][c]
      BY <2>1, TalliesFinite, TakenFromTally
    <3> QED BY <2>2, <2>3, <3>1, <3>2
  <2> QED BY <1>2, <2>1, <2>4, NumbersTyped, TalliesFinite DEF Tallied, Reported
<1> QED BY <1>3, <1>4, <1>5, <1>6

LEMMA NextCalls ==
  ASSUME Calls!CallsAssumption, CallsInv, [Calls!Next]_(Calls!vars)
  PROVE  CallsInv'
<1> USE DEF CallsInv
<1>1. ASSUME NEW t \in Threads, Calls!Run(t) \/ Calls!SpawnFails(t) PROVE CallsInv'
  <2>1. PICK l \in {"run", "idle"} :
          /\ Calls!Goto(t, l) /\ call_pc[t] \in {"run", "idle"}
          /\ UNCHANGED <<entry, holds, fd, got, count, bytes, report, unread,
                         reports, floor, shared, reported, happened>>
          /\ calls' = calls \/ (calls < MaxCalls /\ calls' = calls + 1)
    <3>1. CASE Calls!Run(t)
      <4> WITNESS "run" \in {"run", "idle"}
      <4> QED BY <3>1 DEF Calls!Run, Calls!fileVars, Calls!reportVars
    <3>2. CASE Calls!SpawnFails(t)
      <4>1. Calls!Goto(t, "idle") /\ call_pc[t] = "run"
        BY <3>2 DEF Calls!SpawnFails
      <4>2. UNCHANGED <<entry, holds, fd, got, count, bytes, report, unread,
                        reports, floor, shared, reported, happened, calls>>
        BY <3>2 DEF Calls!SpawnFails, Calls!fileVars, Calls!reportVars
      <4> WITNESS "idle" \in {"run", "idle"}
      <4> QED BY <4>1, <4>2
    <3> QED BY <1>1, <3>1, <3>2
  <2>2. Calls!TypeOK'
    BY <2>1 DEF Calls!CallsAssumption, Calls!TypeOK, Calls!Goto
  <2>3. OwnFile'
    BY <2>1, OwnFileStays DEF Calls!InFile
  <2>4. OneEach' /\ Tallied' /\ Reported'
    BY <2>1, TallyStays DEF Ended, Calls!Counters
  <2> QED BY <2>2, <2>3, <2>4
<1>2. CASE Calls!BeginReport
  <2>1. Calls!TypeOK'
    BY <1>2 DEF Calls!CallsAssumption, Calls!BeginReport, Calls!TypeOK, Calls!Nothing,
       Calls!fileVars
  <2>2. OwnFile' /\ OneEach'
    BY <1>2 DEF Calls!BeginReport, Calls!fileVars, OwnFile, OneEach
  <2>3. Tallied' /\ Reported'
    BY <1>2, NumbersTyped DEF Calls!BeginReport, Tallied, Reported, Counted, Reporting
  <2> QED BY <2>1, <2>2, <2>3
<1>3. ASSUME NEW c \in Calls!Counters, Calls!Load(c) PROVE CallsInv'
  <2>0. /\ report' = [report EXCEPT ![c] = count[c]] /\ unread' = unread \ {c}
        /\ UNCHANGED <<call_pc, entry, holds, fd, got, count, bytes, reports, floor,
                       calls, shared, reported, happened>>
    BY <1>3 DEF Calls!Load, Calls!fileVars
  <2>1. Calls!TypeOK'
    BY <2>0, NumbersTyped DEF Calls!TypeOK
  <2>2. OwnFile' /\ OneEach'
    BY <2>0 DEF OwnFile, OneEach
  <2>3. Tallied'
    BY <2>0 DEF Tallied, Counted, Reporting
  <2>4. floor[c] <= count[c] /\ count[c] <= happened[c]
    BY NumbersTyped, TalliesFinite DEF Tallied, Reported
  <2>5. Reported'
    BY <2>0, <2>4 DEF Reported, Calls!TypeOK
  <2> QED BY <2>1, <2>2, <2>3, <2>5
<1>4. CASE UNCHANGED Calls!vars
  <2>0. UNCHANGED <<call_pc, entry, holds, fd, got, count, bytes, report, unread,
                    reports, floor, calls, shared, reported, happened>>
    BY <1>4 DEF Calls!vars, Calls!fileVars, Calls!reportVars
  <2>1. Calls!TypeOK'
    BY <2>0 DEF Calls!TypeOK
  <2>2. OwnFile'
    BY <2>0 DEF OwnFile
  <2>3. OneEach' /\ Reported'
    BY <2>0 DEF OneEach, Reported
  <2>4. Tallied'
    BY <2>0 DEF Tallied, Counted, Reporting
  <2> QED BY <2>1, <2>2, <2>3, <2>4
<1> QED BY <1>1, <1>2, <1>3, <1>4, DecodeSteps, ExitStep, RecordStep, ReturnStep
      DEF Calls!Next, Calls!GoOn, Calls!Quiet

-----------------------------------------------------------------------------
(* Every variable of the calls of ffmpeg keeps its type; in particular a   *)
(* decode always finds an inode to write to.                               *)
THEOREM CallsTyped ==
  ASSUME Calls!CallsAssumption
  PROVE  Calls!Spec => []Calls!TypeOK
<1>1. Calls!Init => CallsInv
  BY InitCalls
<1>2. CallsInv /\ [Calls!Next]_(Calls!vars) => CallsInv'
  BY NextCalls
<1>3. CallsInv => Calls!TypeOK
  BY DEF CallsInv
<1> QED BY <1>1, <1>2, <1>3, PTL DEF Calls!Spec

(* A decode that met no other one at the temporary file answers with its   *)
(* own samples, for any number of threads.                                 *)
THEOREM OwnSamples ==
  ASSUME Calls!CallsAssumption
  PROVE  Calls!Spec => []Calls!OwnSamplesUnlessShared
<1>1. Calls!Init => CallsInv
  BY InitCalls
<1>2. CallsInv /\ [Calls!Next]_(Calls!vars) => CallsInv'
  BY NextCalls
<1>3. CallsInv => Calls!OwnSamplesUnlessShared
  BY DEF CallsInv, OwnFile, Calls!OwnSamplesUnlessShared
<1> QED BY <1>1, <1>2, <1>3, PTL DEF Calls!Spec

(* A report has in it every run that had returned when it began, and       *)
(* nothing that has not happened, however the adds and the loads interleave.*)
THEOREM ReportsInBounds ==
  ASSUME Calls!CallsAssumption
  PROVE  Calls!Spec => []Calls!ReportInBounds
<1>1. Calls!Init => CallsInv
  BY InitCalls
<1>2. CallsInv /\ [Calls!Next]_(Calls!vars) => CallsInv'
  BY NextCalls
<1>3. CallsInv => Calls!ReportInBounds
  BY DEF CallsInv, Reported, Calls!ReportInBounds
<1> QED BY <1>1, <1>2, <1>3, PTL DEF Calls!Spec

-----------------------------------------------------------------------------
(* The components next to each other (CoreParts).  Whatever part runs, the *)
(* variables of every component but the batch take steps of its own        *)
(* specification, most often none; those of the batch do if it is the part *)
(* that runs.                                                              *)
LEMMA PartsStep ==
  ASSUME [CoreNext]_coreVars
  PROVE  /\ component' = component
         /\ component = "batch" => [Next]_vars
         /\ [Pool!Next]_(Pool!vars) /\ [Calls!Next]_(Calls!vars)
         /\ [Copies!Next]_(Copies!vars) /\ [Uring!Next]_(Uring!uringVars)
         /\ [Render!Next]_(Render!renderVars)
<1>a. UNCHANGED vars => [Next]_vars
  OBVIOUS
<1>b. UNCHANGED poolVars => [Pool!Next]_(Pool!vars)
  BY DEF poolVars, Pool!vars
<1>c. UNCHANGED callVars => [Calls!Next]_(Calls!vars)
  BY DEF callVars, Calls!vars, Calls!fileVars, Calls!reportVars
<1>d. UNCHANGED spliceVars => [Copies!Next]_(Copies!vars)
  BY DEF spliceVars, Copies!vars
<1>e. UNCHANGED uringVars => [Uring!Next]_(Uring!uringVars)
  BY DEF uringVars, Uring!uringVars
<1>f. UNCHANGED renderVars => [Render!Next]_(Render!renderVars)
  BY DEF renderVars, Render!renderVars
<1>1. CASE component = "batch" /\ Next
           /\ UNCHANGED <<component, poolVars, callVars, spliceVars, uringVars, renderVars>>
  BY <1>a, <1>b, <1>c, <1>d, <1>e, <1>f, <1>1
<1>2. CASE component = "pool" /\ Pool!Next
           /\ UNCHANGED <<component, vars, callVars, spliceVars, uringVars, renderVars>>
  BY <1>a, <1>b, <1>c, <1>d, <1>e, <1>f, <1>2
<1>3. CASE component = "calls" /\ Calls!Next
           /\ UNCHANGED <<component, vars, poolVars, spliceVars, uringVars, renderVars>>
  BY <1>a, <1>b, <1>c, <1>d, <1>e, <1>f, <1>3
<1>4. CASE component = "splice" /\ Copies!Next
           /\ UNCHANGED <<component, vars, poolVars, callVars, uringVars, renderVars>>
  BY <1>a, <1>b, <1>c, <1>d, <1>e, <1>f, <1>4
<1>5. CASE component = "uring" /\ Uring!Next
           /\ UNCHANGED <<component, vars, poolVars, callVars, spliceVars, renderVars>>
  BY <1>a, <1>b, <1>c, <1>d, <1>e, <1>f, <1>5
<1>6. CASE component = "render" /\ Render!Next
           /\ UNCHANGED <<component, vars, poolVars, callVars, spliceVars, uringVars>>
  BY <1>a, <1>b, <1>c, <1>d, <1>e, <1>f, <1>6
<1>7. CASE UNCHANGED coreVars
  <2>1. UNCHANGED <<component, vars, poolVars, callVars, spliceVars, uringVars, renderVars>>
    BY <1>7 DEF coreVars
  <2> QED BY <1>a, <1>b, <1>c, <1>d, <1>e, <1>f, <2>1
<1> QED BY <1>1, <1>2, <1>3, <1>4, <1>5, <1>6, <1>7 DEF CoreNext

LEMMA PartsInit ==
  ASSUME CoreInit
  PROVE  /\ component = "batch" => Init
         /\ Pool!Init /\ Calls!Init /\ Copies!Init /\ Uring!Init /\ Render!Init
BY DEF CoreInit

LEMMA EachPartRuns ==
  CoreSpec => Pool!Spec /\ Calls!Spec /\ Copies!Spec /\ Uring!Spec /\ Render!Spec
<1>1. CoreInit => Pool!Init /\ Calls!Init /\ Copies!Init /\ Uring!Init /\ Render!Init
  BY PartsInit
<1>2. [CoreNext]_coreVars
        => /\ [Pool!Next]_(Pool!vars) /\ [Calls!Next]_(Calls!vars)
           /\ [Copies!Next]_(Copies!vars) /\ [Uring!Next]_(Uring!uringVars)
           /\ [Render!Next]_(Render!renderVars)
  BY PartsStep
<1> QED BY <1>1, <1>2, PTL
        DEF CoreSpec, Pool!Spec, Calls!Spec, Copies!Spec, Uring!Spec, Render!Spec

LEMMA BatchRuns ==
  CoreSpec => (component = "batch" => Spec) /\ (component # "batch" => [](component # "batch"))
<1>1. CoreInit /\ component = "batch" => Init
  BY PartsInit
<1>2. component = "batch" /\ [CoreNext]_coreVars => (component = "batch")' /\ [Next]_vars
  BY PartsStep
<1>3. component # "batch" /\ [CoreNext]_coreVars => (component # "batch")'
  BY PartsStep
<1> QED BY <1>1, <1>2, <1>3, PTL DEF CoreSpec, Spec

LEMMA Apart == component = "batch" \/ component # "batch"
OBVIOUS

(* Whatever part runs, the variables of its component keep their types.    *)
THEOREM PartsTyped == ASSUME CoreAssumption PROVE CoreSpec => []PartsTypeOK
<1>1. Pool!Spec /\ Calls!Spec /\ Copies!Spec /\ Uring!Spec /\ Render!Spec
        => [](Pool!TypeOK /\ Calls!TypeOK /\ Copies!TypeOK /\ Uring!TypeOK /\ Render!TypeOK)
  <2>1. Pool!Spec => []Pool!TypeOK
    BY PoolTyped DEF CoreAssumption
  <2>2. Calls!Spec => []Calls!TypeOK
    BY CallsTyped DEF CoreAssumption
  <2>3. Copies!Spec => []Copies!TypeOK
    BY CopyTypes DEF CoreAssumption
  <2>4. Uring!Spec => []Uring!TypeOK
    BY UringTyped DEF CoreAssumption
  <2>5. Render!Spec => []Render!TypeOK
    BY RenderTyped DEF CoreAssumption
  <2> QED BY <2>1, <2>2, <2>3, <2>4, <2>5, PTL
<1>2. (component = "batch" => TypeOK) /\ Pool!TypeOK /\ Calls!TypeOK
        /\ Copies!TypeOK /\ Uring!TypeOK /\ Render!TypeOK
      => PartsTypeOK
  BY DEF PartsTypeOK
<1>3. CoreSpec => [](component = "batch" => TypeOK)
  <2>1. TypeOK => (component = "batch" => TypeOK)
    OBVIOUS
  <2>2. component # "batch" => (component = "batch" => TypeOK)
    OBVIOUS
  <2>3. CoreSpec => []TypeOK \/ [](component # "batch")
    BY BatchRuns, TypeCorrect, Apart, PTL
  <2> QED BY <2>1, <2>2, <2>3, PTL
<1> QED BY <1>1, <1>2, <1>3, EachPartRuns, PTL

(* See ThreadPool: the pool info is computed once and tells the truth,     *)
(* whatever part of the composition runs.                                  *)
THEOREM PartsInfo == ASSUME CoreAssumption PROVE CoreSpec => []InfoHolds
<1>1. Pool!Spec => []Pool!InfoHolds
  BY InfoTrue DEF CoreAssumption
<1>2. Pool!InfoHolds => InfoHolds
  BY DEF InfoHolds
<1> QED BY <1>1, <1>2, EachPartRuns, PTL

(* See ThreadPool: no two workers are pinned to one core.                  *)
THEOREM PartsPinned == ASSUME CoreAssumption PROVE CoreSpec => []PinnedApart
<1>1. Pool!Spec => []Pool!PinnedApart
  BY CoresApart DEF CoreAssumption
<1>2. Pool!PinnedApart => PinnedApart
  BY DEF PinnedApart
<1> QED BY <1>1, <1>2, EachPartRuns, PTL

(* See FfmpegCalls: a decode that met no other one at the temporary file   *)
(* answers with its own samples.                                           *)
THEOREM PartsOwnSamples == ASSUME CoreAssumption PROVE CoreSpec => []OwnSamplesUnlessShared
<1>1. Calls!Spec => []Calls!OwnSamplesUnlessShared
  BY OwnSamples DEF CoreAssumption
<1>2. Calls!OwnSamplesUnlessShared => OwnSamplesUnlessShared
  BY DEF OwnSamplesUnlessShared
<1> QED BY <1>1, <1>2, EachPartRuns, PTL

(* See FfmpegCalls: a report lies between what had returned and what had   *)
(* happened.                                                               *)
THEOREM PartsReports == ASSUME CoreAssumption PROVE CoreSpec => []ReportInBounds
<1>1. Calls!Spec => []Calls!ReportInBounds
  BY ReportsInBounds DEF CoreAssumption
<1>2. Calls!ReportInBounds => ReportInBounds
  BY DEF ReportInBounds
<1> QED BY <1>1, <1>2, EachPartRuns, PTL

(* See BatchScheduler and Splice: no job of a batch and no byte in the     *)
(* pipe is left behind.                                                    *)
THEOREM PartsLoseNothing == ASSUME CoreAssumption PROVE CoreSpec => []NothingLost
<1>1. Copies!Spec => []Copies!PipeSettled
  BY RoundsSettle DEF CoreAssumption
<1>2. CoreSpec => [](component = "batch" => PartsCoverPending)
  <2>1. PartsCoverPending => (component = "batch" => PartsCoverPending)
    OBVIOUS
  <2>2. component # "batch" => (component = "batch" => PartsCoverPending)
    OBVIOUS
  <2>3. CoreSpec => []PartsCoverPending \/ [](component # "batch")
    BY BatchRuns, NoJobLost, Apart, PTL
  <2> QED BY <2>1, <2>2, <2>3, PTL
<1>3. (component = "batch" => PartsCoverPending) /\ Copies!PipeSettled => NothingLost
  BY DEF NothingLost
<1> QED BY <1>1, <1>2, <1>3, EachPartRuns, PTL

(* See UringStat: each path gets its own answer, and no operation outlives *)
(* the buffers, unless the kernel let the call go early.                   *)
THEOREM PartsAnswers == ASSUME CoreAssumption PROVE CoreSpec => []AnswersInOrder
<1>1. Uring!Spec => []Uring!AnswersInOrder
  BY EachPathItsAnswer DEF CoreAssumption
<1>2. Uring!Spec => []Uring!BuffersOutliveOps
  BY NoOpOutlivesBuffers DEF CoreAssumption
<1>3. Uring!AnswersInOrder /\ Uring!BuffersOutliveOps => AnswersInOrder
  BY DEF AnswersInOrder
<1> QED BY <1>1, <1>2, <1>3, EachPartRuns, PTL

(* See RenderGraph: a render fails at the first flaw of its graph.         *)
THEOREM PartsOutcome == ASSUME CoreAssumption PROVE CoreSpec => []OutcomeIsFirstFlaw
<1>1. Render!Spec => []Render!OutcomeIsFirstFlaw
  BY FirstFlawNamed DEF CoreAssumption
<1>2. Render!OutcomeIsFirstFlaw => OutcomeIsFirstFlaw
  BY DEF OutcomeIsFirstFlaw
<1> QED BY <1>1, <1>2, EachPartRuns, PTL

(* See RenderGraph: attempts, successes, fallbacks and times add up.       *)
THEOREM PartsMetrics == ASSUME CoreAssumption PROVE CoreSpec => []MetricsAddUp
<1>1. Render!Spec => []Render!MetricsAddUp
  BY CountsAddUp DEF CoreAssumption
<1>2. Render!MetricsAddUp => MetricsAddUp
  BY DEF MetricsAddUp
<1> QED BY <1>1, <1>2, EachPartRuns, PTL

(* See Splice: the composition implements a whole copy.                    *)
THEOREM PartsCopyWhole == ASSUME CoreAssumption PROVE CoreSpec => ImplementsWholeCopy
<1>1. Copies!Spec => Copies!ImplementsWholeCopy
  BY SourcesAreCopied DEF CoreAssumption
<1> QED BY <1>1, EachPartRuns, PTL DEF ImplementsWholeCopy
=============================================================================
