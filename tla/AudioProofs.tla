---------------------------- MODULE AudioProofs ----------------------------
(***************************************************************************)
(* Theorems about three components that share no state: AacEncoder, for    *)
(* every frame size, threshold and chunk; MixKernels, for every width of   *)
(* the vectors, every length, every list of inputs and volumes; and        *)
(* FilterJobs, for every set of jobs and files.  Then about AudioParts,    *)
(* which puts the three and BufferPool (see BufferPoolProofs) in a run.    *)
(***************************************************************************)
EXTENDS AudioParts, SequenceTheorems, NaturalsInduction, WellFoundedInduction,
        TLAPS

-----------------------------------------------------------------------------
(* Sequences of integers that are cut and joined.                          *)

LEMMA JoinPieces ==
  ASSUME NEW s \in Seq(Int), NEW t \in Seq(Int), NEW u \in Seq(Int)
  PROVE  s \o (t \o u) = (s \o t) \o u
<1>1. (s \o t) \o u = s \o (t \o u)
  BY ConcatAssociative, SMTT(60)
<1> QED BY ONLY <1>1

LEMMA DropFrontProperties ==
  ASSUME NEW S, NEW s \in Seq(S), NEW k \in 0..Len(s)
  PROVE  /\ DropFront(s, k) \in Seq(S)
         /\ Len(DropFront(s, k)) = Len(s) - k
         /\ \A i \in 1..(Len(s) - k) : DropFront(s, k)[i] = s[k + i]
PROOF
<1>1. Len(s) \in Nat /\ \A i \in (k+1)..Len(s) : s[i] \in S
  BY LenProperties, ElementOfSeq
<1>2. k + 1 \in Int /\ Len(s) \in Int
  BY <1>1
<1>3. /\ SubSeq(s, k+1, Len(s)) \in Seq(S)
      /\ Len(SubSeq(s, k+1, Len(s))) =
           IF k+1 <= Len(s) THEN Len(s)-(k+1)+1 ELSE 0
      /\ \A i \in 1..(Len(s)-(k+1)+1) :
           SubSeq(s, k+1, Len(s))[i] = s[(k+1)+i-1]
  BY <1>1, <1>2, SubSeqProperties
<1> QED BY <1>1, <1>3 DEF DropFront

LEMMA WindowProperties ==
  ASSUME NEW S, NEW s \in Seq(S), NEW k \in 0..Len(s), NEW m \in Nat,
         k + m <= Len(s)
  PROVE  /\ SubSeq(s, k+1, k+m) \in Seq(S)
         /\ Len(SubSeq(s, k+1, k+m)) = m
         /\ \A i \in 1..m : SubSeq(s, k+1, k+m)[i] = s[k + i]
PROOF
<1>1. Len(s) \in Nat /\ \A i \in (k+1)..(k+m) : s[i] \in S
  BY LenProperties, ElementOfSeq
<1>2. k + 1 \in Int /\ k + m \in Int
  BY <1>1
<1>3. /\ SubSeq(s, k+1, k+m) \in Seq(S)
      /\ Len(SubSeq(s, k+1, k+m)) = IF k+1 <= k+m THEN k+m-(k+1)+1 ELSE 0
      /\ \A i \in 1..(k+m-(k+1)+1) : SubSeq(s, k+1, k+m)[i] = s[(k+1)+i-1]
  BY <1>1, <1>2, SubSeqProperties
<1> QED BY <1>1, <1>3

(* What is dropped from a longer sequence leaves the added part alone. *)
LEMMA DropFrontOfConcat ==
  ASSUME NEW S, NEW s \in Seq(S), NEW t \in Seq(S), NEW k \in 0..Len(s)
  PROVE  DropFront(s \o t, k) = DropFront(s, k) \o t
PROOF
<1> DEFINE u == s \o t
           a == DropFront(u, k)
           d == DropFront(s, k)
           e == d \o t
<1>1. Len(s) \in Nat /\ Len(t) \in Nat
  BY LenProperties
<1>2. u \in Seq(S) /\ Len(u) = Len(s) + Len(t)
      /\ \A i \in 1..(Len(s) + Len(t)) :
           u[i] = IF i <= Len(s) THEN s[i] ELSE t[i - Len(s)]
  BY ConcatProperties
<1> HIDE DEF u
<1>3. k \in 0..Len(u)
  BY <1>1, <1>2
<1>4. a \in Seq(S) /\ Len(a) = Len(u) - k
      /\ \A i \in 1..(Len(u) - k) : a[i] = u[k + i]
  BY <1>2, <1>3, DropFrontProperties
<1>5. d \in Seq(S) /\ Len(d) = Len(s) - k
      /\ \A i \in 1..(Len(s) - k) : d[i] = s[k + i]
  BY DropFrontProperties
<1> HIDE DEF a, d
<1>6. e \in Seq(S) /\ Len(e) = Len(d) + Len(t)
      /\ \A i \in 1..(Len(d) + Len(t)) :
           e[i] = IF i <= Len(d) THEN d[i] ELSE t[i - Len(d)]
  BY <1>5, ConcatProperties
<1> HIDE DEF e
<1>7. ASSUME NEW i \in 1..Len(a) PROVE a[i] = e[i]
  <2>1. i \in Nat /\ i \in 1..(Len(u) - k) /\ k + i \in 1..Len(u)
    BY <1>1, <1>2, <1>3, <1>4, <1>7
  <2>2. a[i] = u[k + i]
    BY <2>1, <1>4
  <2>3. CASE k + i <= Len(s)
    BY <2>1, <2>2, <2>3, <1>1, <1>2, <1>5, <1>6
  <2>4. CASE k + i > Len(s)
    <3>1. (k + i) - Len(s) = i - Len(d) /\ i > Len(d)
          /\ i \in 1..(Len(d) + Len(t))
      BY <2>1, <2>4, <1>1, <1>2, <1>5
    <3>2. u[k + i] = t[(k + i) - Len(s)]
      BY <2>1, <2>4, <1>1, <1>2
    <3>3. e[i] = t[i - Len(d)]
      BY <3>1, <1>6
    <3> QED BY <2>2, <3>1, <3>2, <3>3
  <2> QED BY <2>1, <2>3, <2>4, <1>1
<1>8. Len(a) = Len(e)
  BY <1>1, <1>2, <1>4, <1>5, <1>6
<1>9. a = e
  BY <1>4, <1>6, <1>7, <1>8, SeqEqual
<1> QED BY <1>9 DEF a, d, e, u

(* A window and what follows it are what was there before. *)
LEMMA WindowThenRest ==
  ASSUME NEW S, NEW s \in Seq(S), NEW k \in 0..Len(s), NEW m \in Nat,
         k + m <= Len(s)
  PROVE  SubSeq(s, k+1, k+m) \o DropFront(s, k+m) = DropFront(s, k)
PROOF
<1> DEFINE w == SubSeq(s, k+1, k+m)
           d == DropFront(s, k+m)
           a == DropFront(s, k)
           e == w \o d
<1>1. Len(s) \in Nat /\ k \in Nat /\ k + m \in 0..Len(s)
  BY LenProperties
<1>2. w \in Seq(S) /\ Len(w) = m /\ \A i \in 1..m : w[i] = s[k + i]
  BY WindowProperties
<1>3. d \in Seq(S) /\ Len(d) = Len(s) - (k+m)
      /\ \A i \in 1..(Len(s) - (k+m)) : d[i] = s[(k+m) + i]
  BY <1>1, DropFrontProperties
<1>4. a \in Seq(S) /\ Len(a) = Len(s) - k
      /\ \A i \in 1..(Len(s) - k) : a[i] = s[k + i]
  BY DropFrontProperties
<1> HIDE DEF w, d, a
<1>5. e \in Seq(S) /\ Len(e) = Len(w) + Len(d)
      /\ \A i \in 1..(Len(w) + Len(d)) :
           e[i] = IF i <= Len(w) THEN w[i] ELSE d[i - Len(w)]
  BY <1>2, <1>3, ConcatProperties
<1> HIDE DEF e
<1>6. Len(e) = Len(s) - k
  BY <1>1, <1>2, <1>3, <1>5
<1>7. ASSUME NEW i \in 1..Len(a) PROVE a[i] = e[i]
  <2>1. i \in Nat /\ i \in 1..(Len(s) - k) /\ i \in 1..(Len(w) + Len(d))
    BY <1>1, <1>2, <1>3, <1>4, <1>7
  <2>2. a[i] = s[k + i]
    BY <2>1, <1>4
  <2>3. CASE i <= m
    <3>1. i \in 1..m
      BY <2>1, <2>3
    <3>2. w[i] = s[k + i]
      BY <3>1, <1>2
    <3>3. e[i] = w[i]
      BY <2>1, <2>3, <1>2, <1>5
    <3> QED BY <2>2, <3>2, <3>3
  <2>4. CASE i > m
    <3>1. i - m \in 1..(Len(s) - (k+m)) /\ (k+m) + (i-m) = k + i /\ ~(i <= m)
      BY <2>1, <2>4, <1>1
    <3>2. e[i] = d[i - m]
      BY <2>1, <3>1, <1>2, <1>5
    <3>3. d[i - m] = s[(k+m) + (i - m)]
      BY <3>1, <1>3
    <3> QED BY <2>2, <3>1, <3>2, <3>3
  <2> QED BY <2>1, <2>3, <2>4
<1>8. Len(a) = Len(e)
  BY <1>4, <1>6
<1>9. a = e
  BY <1>4, <1>5, <1>7, <1>8, SeqEqual
<1> QED BY <1>9 DEF w, d, a, e

Numbers(p) == [i \in 1..p |-> i]
Chunk(p, c) == [i \in 1..c |-> p + i]

LEMMA FunctionIsSeq ==
  ASSUME NEW S, NEW m \in Nat, NEW f \in [1..m -> S]
  PROVE  f \in Seq(S) /\ Len(f) = m
PROOF
<1>1. f \in Seq(S)
  BY SeqDef
<1>2. Len(f) \in Nat /\ DOMAIN f = 1..Len(f)
  BY <1>1, LenProperties
<1>3. 1..m = 1..Len(f)
  BY <1>2
<1>4. Len(f) = m
  BY <1>2, <1>3
<1> QED BY <1>1, <1>4

LEMMA ChunkProperties ==
  ASSUME NEW p \in Nat, NEW c \in Nat
  PROVE  /\ Chunk(p, c) \in Seq(1..(p+c)) /\ Len(Chunk(p, c)) = c
         /\ Chunk(p, c) \in Seq(Int)
         /\ Numbers(p) \in Seq(Int) /\ Len(Numbers(p)) = p
PROOF
<1>1. \A i \in 1..c : p + i \in 1..(p+c) /\ p + i \in Int
  OBVIOUS
<1>2. Chunk(p, c) \in [1..c -> 1..(p+c)] /\ Chunk(p, c) \in [1..c -> Int]
  BY <1>1 DEF Chunk
<1>3. Numbers(p) \in [1..p -> Int]
  BY DEF Numbers
<1>4. Chunk(p, c) \in Seq(1..(p+c)) /\ Len(Chunk(p, c)) = c
  BY <1>2, FunctionIsSeq
<1>5. Chunk(p, c) \in Seq(Int)
  BY <1>2, FunctionIsSeq
<1>6. Numbers(p) \in Seq(Int) /\ Len(Numbers(p)) = p
  BY <1>3, FunctionIsSeq
<1> QED BY <1>4, <1>5, <1>6

LEMMA NumbersThenChunk ==
  ASSUME NEW p \in Nat, NEW c \in Nat
  PROVE  Numbers(p) \o Chunk(p, c) = Numbers(p + c)
PROOF
<1> DEFINE a == Numbers(p)
           b == Chunk(p, c)
           n == Numbers(p + c)
           e == a \o b
<1>0. p + c \in Nat
  OBVIOUS
<1>1. a \in Seq(Int) /\ Len(a) = p /\ b \in Seq(Int) /\ Len(b) = c
      /\ n \in Seq(Int) /\ Len(n) = p + c
  BY <1>0, ChunkProperties
<1>2. /\ \A i \in 1..p : a[i] = i
      /\ \A i \in 1..c : b[i] = p + i
      /\ \A i \in 1..(p + c) : n[i] = i
  BY DEF Numbers, Chunk
<1> HIDE DEF a, b, n
<1>3. e \in Seq(Int) /\ Len(e) = p + c
      /\ \A i \in 1..(p + c) : e[i] = IF i <= p THEN a[i] ELSE b[i - p]
  BY <1>1, ConcatProperties
<1> HIDE DEF e
<1>4. ASSUME NEW i \in 1..Len(e) PROVE e[i] = n[i]
  <2>0. i \in Nat /\ i \in 1..(p + c) /\ n[i] = i
    BY <1>0, <1>2, <1>3, <1>4
  <2>1. CASE i <= p
    <3>1. i \in 1..p
      BY <2>0, <2>1
    <3>2. e[i] = a[i] /\ a[i] = i
      BY <3>1, <2>0, <2>1, <1>2, <1>3
    <3> QED BY <3>2, <2>0
  <2>2. CASE i > p
    <3>1. i - p \in 1..c /\ p + (i - p) = i /\ ~(i <= p)
      BY <2>0, <2>2
    <3>2. e[i] = b[i - p]
      BY <2>0, <3>1, <1>3
    <3>3. b[i - p] = p + (i - p)
      BY <3>1, <1>2
    <3> QED BY <2>0, <3>1, <3>2, <3>3
  <2> QED BY <2>0, <2>1, <2>2
<1>5. Len(e) = Len(n)
  BY <1>1, <1>3
<1>6. e = n
  BY <1>1, <1>3, <1>4, <1>5, SeqEqual
<1> QED BY <1>6 DEF a, b, n, e

-----------------------------------------------------------------------------
(* What extend and consume do to the unread samples.                       *)

Values == Samples \cup {Silence}

LEMMA ValuesSubset ==
  Samples \subseteq Values /\ Samples \subseteq Int /\ Values \subseteq Int
  BY AacAssumption DEF Values, Samples, Silence

LEMMA ExtendAppends ==
  ASSUME TypeOK, NEW k \in Nat, produced + k <= MaxSamples, extend(k)
  PROVE  /\ channel' \in Seq(Samples) /\ Len(channel') = Len(channel) + k
         /\ DropFront(channel', read_pos)
              = DropFront(channel, read_pos) \o Chunk(produced, k)
PROOF
<1>1. channel \in Seq(Samples) /\ read_pos \in 0..Len(channel)
      /\ produced \in 0..MaxSamples /\ MaxSamples \in Nat
  BY AacAssumption DEF TypeOK
<1>2. \A i \in 1..k : produced + i \in Samples
  BY <1>1 DEF Samples
<1>3. Chunk(produced, k) \in [1..k -> Samples]
  BY <1>2 DEF Chunk
<1>4. Chunk(produced, k) \in Seq(Samples) /\ Len(Chunk(produced, k)) = k
  BY <1>3, FunctionIsSeq
<1>5. channel' = channel \o Chunk(produced, k)
  BY DEF extend, Chunk
<1>6. channel' \in Seq(Samples) /\ Len(channel') = Len(channel) + k
  BY <1>1, <1>4, <1>5, ConcatProperties
<1>7. DropFront(channel', read_pos)
        = DropFront(channel, read_pos) \o Chunk(produced, k)
  BY <1>1, <1>4, <1>5, DropFrontOfConcat
<1> QED BY <1>6, <1>7

LEMMA ConsumeDrops ==
  ASSUME TypeOK, NEW k \in Nat, read_pos + k <= Len(channel), consume(k)
  PROVE  /\ channel' \in Seq(Samples) /\ Len(channel') <= Len(channel)
         /\ read_pos' \in 0..Len(channel') /\ read_pos' < Threshold
         /\ DropFront(channel', read_pos') = DropFront(channel, read_pos + k)
PROOF
<1>1. /\ channel \in Seq(Samples) /\ Len(channel) \in Nat
      /\ read_pos \in 0..Len(channel) /\ Threshold \in Nat \ {0}
  BY AacAssumption, LenProperties DEF TypeOK
<1>2. read_pos + k \in 0..Len(channel)
  BY <1>1
<1>3. CASE read_pos + k >= Threshold
  <2> DEFINE rest == DropFront(channel, read_pos + k)
  <2>1. channel' = rest /\ read_pos' = 0
    BY <1>3 DEF consume
  <2>2. rest \in Seq(Samples) /\ Len(rest) = Len(channel) - (read_pos + k)
    BY <1>1, <1>2, DropFrontProperties
  <2>3. DropFront(rest, 0) = rest
    <3>1. /\ DropFront(rest, 0) \in Seq(Samples)
          /\ Len(DropFront(rest, 0)) = Len(rest) - 0
          /\ \A i \in 1..(Len(rest) - 0) : DropFront(rest, 0)[i] = rest[0 + i]
      <4>1. Len(rest) \in Nat /\ 0 \in 0..Len(rest)
        BY <1>1, <1>2, <2>2
      <4> HIDE DEF rest
      <4> QED BY <2>2, <4>1, DropFrontProperties
    <3>2. Len(rest) \in Nat
      BY <2>2, LenProperties
    <3> HIDE DEF rest
    <3>3. Len(DropFront(rest, 0)) = Len(rest)
          /\ \A i \in 1..Len(DropFront(rest, 0)) : DropFront(rest, 0)[i] = rest[i]
      BY <3>1, <3>2
    <3> QED BY <2>2, <3>1, <3>3, SeqEqual
  <2> HIDE DEF rest
  <2> QED BY <1>1, <1>2, <2>1, <2>2, <2>3 DEF rest
<1>4. CASE ~(read_pos + k >= Threshold)
  <2>1. channel' = channel /\ read_pos' = read_pos + k
    BY <1>4 DEF consume
  <2> QED BY <1>1, <1>2, <1>4, <2>1
<1> QED BY <1>3, <1>4

LEMMA UnreadSamples ==
  ASSUME TypeOK
  PROVE  /\ Available = Len(channel) - read_pos /\ Available \in Nat
         /\ Len(channel) \in Nat /\ read_pos \in Nat
         /\ DropFront(channel, read_pos) \in Seq(Samples)
         /\ Len(DropFront(channel, read_pos)) = Available
PROOF
<1>1. channel \in Seq(Samples) /\ Len(channel) \in Nat
      /\ read_pos \in 0..Len(channel)
  BY LenProperties DEF TypeOK
<1>2. Available = Len(channel) - read_pos /\ Available \in Nat
  BY <1>1 DEF Available, saturating_sub
<1> QED BY <1>1, <1>2, DropFrontProperties

-----------------------------------------------------------------------------
(* The inductive invariant.  BufferIsBounded needs that the frames are     *)
(* taken out before the next packet is read.                               *)

LessThanFrame == phase = "packets" => Available < FrameSize

IInv == TypeOK /\ StreamIsContiguous /\ LessThanFrame /\ BufferIsBounded

LEMMA InitIInv == Init => IInv
PROOF
<1> SUFFICES ASSUME Init PROVE IInv
  OBVIOUS
<1>1. TypeOK
  BY AacAssumption, EmptySeq DEF Init, TypeOK, Samples, Silence
<1>2. StreamIsContiguous
  <2>1. DropFront(channel, read_pos) = << >>
    BY SubSeqEmpty, EmptySeq DEF Init, DropFront
  <2>2. Numbers(0) \in Seq(Int) /\ Len(Numbers(0)) = 0
    BY ChunkProperties
  <2>3. Numbers(0) = << >>
    BY <2>2, EmptySeq
  <2>4. sent \o DropFront(channel, read_pos) = << >>
    BY <2>1, EmptySeq, ConcatEmptySeq DEF Init
  <2> QED BY <2>3, <2>4 DEF Init, StreamIsContiguous, Numbers
<1>3. LessThanFrame /\ BufferIsBounded
  BY <1>1, UnreadSamples, AacAssumption, EmptySeq
  DEF Init, LessThanFrame, BufferIsBounded
<1> QED BY <1>1, <1>2, <1>3 DEF IInv

(* The two loops that add samples. *)
LEMMA DeliverKeepsIInv ==
  ASSUME IInv, NEW chunk \in 0..MaxChunk, Resample(chunk) \/ Flush(chunk)
  PROVE  IInv'
PROOF
<1>1. /\ chunk \in Nat /\ produced + chunk <= MaxSamples /\ extend(chunk)
      /\ produced' = produced + chunk /\ phase # "done"
      /\ UNCHANGED <<read_pos, pts, sent>>
  BY AacAssumption DEF Resample, Flush
<1>2. /\ TypeOK /\ StreamIsContiguous
      /\ produced \in 0..MaxSamples /\ MaxSamples \in Nat
      /\ sent \in Seq(Values)
  BY AacAssumption DEF IInv, TypeOK, Values
<1>3. /\ channel' \in Seq(Samples) /\ Len(channel') = Len(channel) + chunk
      /\ DropFront(channel', read_pos)
           = DropFront(channel, read_pos) \o Chunk(produced, chunk)
  BY <1>1, <1>2, ExtendAppends
<1>4. /\ Len(channel) \in Nat /\ read_pos \in Nat /\ Available \in Nat
      /\ Available = Len(channel) - read_pos
      /\ DropFront(channel, read_pos) \in Seq(Samples)
  BY <1>2, UnreadSamples
<1>5. TypeOK'
  BY <1>1, <1>2, <1>3, <1>4 DEF Resample, Flush, TypeOK
<1>6. StreamIsContiguous'
  <2>1. Chunk(produced, chunk) \in Seq(Int)
    BY <1>1, <1>2, ChunkProperties
  <2>2. sent \in Seq(Int) /\ DropFront(channel, read_pos) \in Seq(Int)
    BY <1>2, <1>4, ValuesSubset, SeqMonotonic
  <2>3. sent \o (DropFront(channel, read_pos) \o Chunk(produced, chunk))
          = (sent \o DropFront(channel, read_pos)) \o Chunk(produced, chunk)
    <3> DEFINE unread == DropFront(channel, read_pos)
               new == Chunk(produced, chunk)
    <3>1. sent \in Seq(Int) /\ unread \in Seq(Int) /\ new \in Seq(Int)
      BY <2>1, <2>2
    <3> HIDE DEF unread, new
    <3>2. sent \o (unread \o new) = (sent \o unread) \o new
      BY ONLY <3>1, JoinPieces, Zenon
    <3> QED BY <3>2 DEF unread, new
  <2>4. sent \o DropFront(channel, read_pos) = Numbers(produced)
    BY <1>1, <1>2 DEF StreamIsContiguous, Numbers
  <2>5. Numbers(produced) \o Chunk(produced, chunk) = Numbers(produced + chunk)
    <3>1. produced \in Nat /\ chunk \in Nat
      BY <1>1, <1>2
    <3> QED BY ONLY <3>1, NumbersThenChunk
  <2>6. sent' \o DropFront(channel', read_pos') = Numbers(produced')
    BY <1>1, <1>3, <2>3, <2>4, <2>5
  <2> QED BY <2>6 DEF StreamIsContiguous, Numbers
<1>7. LessThanFrame' /\ BufferIsBounded'
  <2>1. Available' = Len(channel') - read_pos'
    BY <1>1, <1>3, <1>4, <1>5 DEF Available, saturating_sub, TypeOK
  <2>2. CASE Resample(chunk)
    <3>1. /\ phase = "packets" /\ Len(channel) < Threshold + FrameSize
          /\ (chunk = 0 => Available' = Available)
          /\ (phase' = "packets" => chunk = 0)
      BY <2>1, <2>2, <1>1, <1>3, <1>4, AacAssumption
      DEF Resample, IInv, TypeOK, LessThanFrame
    <3> QED BY <3>1, <1>1, <1>3, <1>4, AacAssumption
        DEF IInv, LessThanFrame, BufferIsBounded
  <2>3. CASE Flush(chunk)
    BY <2>3 DEF Flush, LessThanFrame, BufferIsBounded
  <2> QED BY <1>1, <2>2, <2>3
<1> QED BY <1>5, <1>6, <1>7 DEF IInv

LEMMA EncodeKeepsIInv ==
  ASSUME IInv, EncodeFrame
  PROVE  IInv'
PROOF
<1>1. /\ TypeOK /\ StreamIsContiguous /\ BufferIsBounded
      /\ FrameSize \in Nat /\ pts \in Nat
      /\ channel \in Seq(Samples) /\ sent \in Seq(Values)
      /\ phase = "frames" /\ Available >= FrameSize /\ consume(FrameSize)
  BY AacAssumption DEF IInv, TypeOK, Values, EncodeFrame
<1>2. /\ Len(channel) \in Nat /\ read_pos \in 0..Len(channel)
      /\ Available = Len(channel) - read_pos
  BY <1>1, UnreadSamples DEF TypeOK
<1>3. read_pos + FrameSize <= Len(channel)
  BY <1>1, <1>2
<1>4. /\ channel' \in Seq(Samples) /\ Len(channel') <= Len(channel)
      /\ read_pos' \in 0..Len(channel') /\ read_pos' < Threshold
      /\ DropFront(channel', read_pos') = DropFront(channel, read_pos + FrameSize)
  BY <1>1, <1>3, ConsumeDrops
<1>5. /\ Window(FrameSize) \in Seq(Samples)
      /\ Window(FrameSize) \o DropFront(channel, read_pos + FrameSize)
           = DropFront(channel, read_pos)
  BY <1>1, <1>2, <1>3, WindowProperties, WindowThenRest DEF Window
<1>6. Window(FrameSize) \in Seq(Values)
      /\ DropFront(channel, read_pos + FrameSize) \in Seq(Values)
  <2>1. read_pos + FrameSize \in 0..Len(channel)
    BY <1>1, <1>2, <1>3
  <2>2. DropFront(channel, read_pos + FrameSize) \in Seq(Samples)
    BY <1>1, <2>1, DropFrontProperties
  <2> QED BY <1>5, <2>2, ValuesSubset, SeqMonotonic
<1>7. sent' = sent \o Window(FrameSize) /\ sent' \in Seq(Values)
  BY <1>1, <1>6, ConcatProperties DEF EncodeFrame
<1>8. TypeOK'
  BY <1>1, <1>4, <1>7 DEF EncodeFrame, TypeOK, Values
<1>9. StreamIsContiguous'
  <2> DEFINE w == Window(FrameSize)
             d == DropFront(channel, read_pos + FrameSize)
  <2>0. (sent \o w) \o d = sent \o (w \o d)
    <3> HIDE DEF w, d
    <3> QED BY <1>1, <1>6, ConcatAssociative DEF w, d
  <2>1. sent' \o DropFront(channel', read_pos') = sent \o (w \o d)
    BY <1>4, <1>7, <2>0
  <2>2. sent' \o DropFront(channel', read_pos') = sent \o DropFront(channel, read_pos)
    BY <1>5, <2>1
  <2> QED BY <1>1, <2>2 DEF StreamIsContiguous, EncodeFrame
<1>10. LessThanFrame' /\ BufferIsBounded'
  <2>1. Len(channel') \in Nat
    BY <1>4, LenProperties
  <2> QED BY <1>1, <1>2, <1>4, <2>1, AacAssumption
      DEF EncodeFrame, LessThanFrame, BufferIsBounded
<1> QED BY <1>8, <1>9, <1>10 DEF IInv

(* What Finish sends: the unread samples, cut or padded with silence. *)
LEMMA ResizedProperties ==
  ASSUME NEW s \in Seq(Samples), NEW k \in Nat
  PROVE  /\ Resized(s, k) \in Seq(Values) /\ Len(Resized(s, k)) = k
         /\ \A i \in 1..k :
              Resized(s, k)[i] = IF i <= Len(s) THEN s[i] ELSE Silence
PROOF
<1>1. Len(s) \in Nat /\ s \in Seq(Values) /\ Silence \in Values
  BY ValuesSubset, SeqMonotonic, LenProperties DEF Values
<1>2. CASE Len(s) < k
  <2> DEFINE pad == [i \in 1..(k - Len(s)) |-> Silence]
             e == s \o pad
  <2>1. k - Len(s) \in Nat
    BY <1>1, <1>2
  <2>2. pad \in [1..(k - Len(s)) -> Values] /\ \A i \in 1..(k - Len(s)) : pad[i] = Silence
    BY <1>1
  <2> HIDE DEF pad
  <2>3. pad \in Seq(Values) /\ Len(pad) = k - Len(s)
    BY <2>1, <2>2, FunctionIsSeq
  <2>4. e \in Seq(Values) /\ Len(e) = Len(s) + Len(pad)
        /\ \A i \in 1..(Len(s) + Len(pad)) :
             e[i] = IF i <= Len(s) THEN s[i] ELSE pad[i - Len(s)]
    BY <1>1, <2>3, ConcatProperties
  <2> HIDE DEF e
  <2>5. Len(e) = k
    BY <1>1, <2>3, <2>4
  <2>6. ASSUME NEW i \in 1..k PROVE e[i] = IF i <= Len(s) THEN s[i] ELSE Silence
    <3>1. i \in Nat /\ i \in 1..(Len(s) + Len(pad))
      BY <1>1, <2>3
    <3>2. CASE i <= Len(s)
      BY <3>1, <3>2, <2>4
    <3>3. CASE i > Len(s)
      <4>1. i - Len(s) \in 1..(k - Len(s)) /\ ~(i <= Len(s))
        BY <3>1, <3>3, <1>1
      <4> QED BY <3>1, <4>1, <2>2, <2>4
    <3> QED BY <3>1, <3>2, <3>3, <1>1
  <2>7. Resized(s, k) = e
    BY <1>2 DEF Resized, e, pad
  <2> QED BY <2>4, <2>5, <2>6, <2>7
<1>3. CASE ~(Len(s) < k)
  <2> DEFINE w == SubSeq(s, 1, k)
  <2>1. w \in Seq(Samples) /\ Len(w) = k /\ \A i \in 1..k : w[i] = s[i]
    <3>1. 0 \in 0..Len(s) /\ 0 + k <= Len(s) /\ 0 + k = k /\ 0 + 1 = 1
      BY <1>1, <1>3
    <3>2. \A i \in 1..k : 0 + i = i
      OBVIOUS
    <3> QED BY <3>1, <3>2, WindowProperties
  <2>2. Resized(s, k) = w
    BY <1>3 DEF Resized
  <2> HIDE DEF w
  <2>3. w \in Seq(Values)
    BY <2>1, ValuesSubset, SeqMonotonic
  <2>4. \A i \in 1..k : i <= Len(s)
    BY <1>1, <1>3
  <2> QED BY <2>1, <2>2, <2>3, <2>4
<1> QED BY <1>2, <1>3

LEMMA FinishKeepsIInv ==
  ASSUME IInv, Finish
  PROVE  IInv'
PROOF
<1> DEFINE left == DropFront(channel, read_pos)
<1>1. TypeOK /\ left \in Seq(Samples) /\ FrameSize \in Nat
  BY UnreadSamples, AacAssumption DEF IInv
<1>2. Resized(left, FrameSize) \in Seq(Values) /\ sent \in Seq(Values)
  BY <1>1, ResizedProperties DEF TypeOK, Values
<1>3. sent' \in Seq(Values)
  BY <1>2, ConcatProperties DEF Finish
<1>4. channel' = << >> /\ read_pos' = 0 /\ phase' = "done"
      /\ UNCHANGED <<produced, pts>>
  BY DEF Finish
<1>5. TypeOK'
  BY <1>1, <1>3, <1>4, AacAssumption, EmptySeq DEF TypeOK, Values
<1> QED BY <1>4, <1>5
           DEF IInv, StreamIsContiguous, LessThanFrame, BufferIsBounded

LEMMA PhaseKeepsIInv ==
  ASSUME IInv, FramesEncoded \/ SendEof \/ UNCHANGED vars
  PROVE  IInv'
PROOF
<1>1. /\ UNCHANGED <<channel, read_pos, produced, pts, sent>>
      /\ phase' \in {"packets", "frames", "flush", "done"}
      /\ phase' # "done" => phase # "done"
      /\ Available' = Available
  BY DEF IInv, TypeOK, FramesEncoded, SendEof, vars, Available
<1>2. TypeOK' /\ StreamIsContiguous'
  BY <1>1 DEF IInv, TypeOK, StreamIsContiguous
<1>3. LessThanFrame'
  BY <1>1 DEF IInv, LessThanFrame, FramesEncoded, SendEof, vars
<1>4. BufferIsBounded'
  BY <1>1 DEF IInv, BufferIsBounded, FramesEncoded, SendEof, vars
<1> QED BY <1>2, <1>3, <1>4 DEF IInv

THEOREM IInvInvariant == Spec => []IInv
PROOF
<1>1. ASSUME IInv, [Next]_vars PROVE IInv'
  <2>1. ASSUME NEW chunk \in 0..MaxChunk, Resample(chunk) \/ Flush(chunk)
        PROVE  IInv'
    BY <1>1, <2>1, DeliverKeepsIInv
  <2>2. CASE EncodeFrame
    BY <1>1, <2>2, EncodeKeepsIInv
  <2>3. CASE Finish
    BY <1>1, <2>3, FinishKeepsIInv
  <2>4. CASE FramesEncoded \/ SendEof \/ UNCHANGED vars
    BY <1>1, <2>4, PhaseKeepsIInv
  <2> QED BY <1>1, <2>1, <2>2, <2>3, <2>4 DEF Next
<1> QED BY <1>1, InitIInv, PTL DEF Spec

(* The buffer's variables keep their types: read_pos stays inside the      *)
(* channel and below the threshold.                                        *)
THEOREM TypeCorrect == Spec => []TypeOK
PROOF
<1>1. IInv => TypeOK
  BY DEF IInv
<1> QED BY <1>1, IInvInvariant, PTL

(* However the packets, the threshold and the frame size fall, the encoder *)
(* gets the resampled samples in order, each once, until the flush.        *)
THEOREM StreamContiguous == Spec => []StreamIsContiguous
PROOF
<1>1. IInv => StreamIsContiguous
  BY DEF IInv
<1> QED BY <1>1, IInvInvariant, PTL

(* The channel never outgrows one threshold, one frame and one chunk.      *)
THEOREM BufferBounded == Spec => []BufferIsBounded
PROOF
<1>1. IInv => BufferIsBounded
  BY DEF IInv
<1> QED BY <1>1, IInvInvariant, PTL

-----------------------------------------------------------------------------
(* What the encoder has at the end.                                        *)

LEMMA RunningPrefix ==
  ASSUME IInv, phase # "done"
  PROVE  LET left == DropFront(channel, read_pos)
         IN  /\ Len(sent) \in Nat /\ Len(left) \in Nat
             /\ Len(sent) + Len(left) = produced
             /\ \A i \in 1..Len(sent) : sent[i] = i
             /\ \A j \in 1..Len(left) : left[j] = Len(sent) + j
PROOF
<1> DEFINE left == DropFront(channel, read_pos)
           e == sent \o left
<1>1. sent \in Seq(Int) /\ left \in Seq(Int)
  BY UnreadSamples, ValuesSubset, SeqMonotonic DEF IInv, TypeOK, Values
<1> HIDE DEF left
<1>2. Len(sent) \in Nat /\ Len(left) \in Nat
  BY <1>1, LenProperties
<1>3. e \in Seq(Int) /\ Len(e) = Len(sent) + Len(left)
      /\ \A i \in 1..(Len(sent) + Len(left)) :
           e[i] = IF i <= Len(sent) THEN sent[i] ELSE left[i - Len(sent)]
  BY <1>1, ConcatProperties
<1>4. e = Numbers(produced)
  BY DEF IInv, StreamIsContiguous, Numbers, left
<1> HIDE DEF e
<1>5. produced \in Nat
  BY AacAssumption DEF IInv, TypeOK
<1>6. Len(e) = produced
  BY <1>4, <1>5, ChunkProperties
<1>7. \A i \in 1..produced : e[i] = i
  BY <1>4 DEF Numbers
<1>8. ASSUME NEW i \in 1..Len(sent) PROVE sent[i] = i
  <2>1. i \in 1..produced /\ i \in 1..(Len(sent) + Len(left)) /\ i <= Len(sent)
    BY <1>2, <1>3, <1>6
  <2> QED BY <2>1, <1>3, <1>7
<1>9. ASSUME NEW j \in 1..Len(left) PROVE left[j] = Len(sent) + j
  <2> DEFINE i == Len(sent) + j
  <2>1. i \in 1..produced /\ i \in 1..(Len(sent) + Len(left))
        /\ ~(i <= Len(sent)) /\ i - Len(sent) = j
    BY <1>2, <1>3, <1>6
  <2> HIDE DEF i
  <2>2. e[i] = i /\ e[i] = left[i - Len(sent)]
    BY <2>1, <1>3, <1>7
  <2> QED BY <2>1, <2>2 DEF i
<1> QED BY <1>2, <1>3, <1>6, <1>8, <1>9 DEF left

LEMMA FinishSendsPrefix ==
  ASSUME IInv, Finish
  PROVE  SentIsPrefix'
PROOF
<1> DEFINE left == DropFront(channel, read_pos)
           r == Resized(left, FrameSize)
           e == sent \o r
<1>1. /\ Len(sent) \in Nat /\ Len(left) \in Nat
      /\ Len(sent) + Len(left) = produced
      /\ \A i \in 1..Len(sent) : sent[i] = i
      /\ \A j \in 1..Len(left) : left[j] = Len(sent) + j
  BY RunningPrefix DEF Finish
<1>2. left \in Seq(Samples) /\ FrameSize \in Nat /\ sent \in Seq(Values)
  BY UnreadSamples, AacAssumption DEF IInv, TypeOK, Values
<1>3. produced' = produced /\ sent' = (IF left # << >> THEN e ELSE sent)
  BY DEF Finish
<1> HIDE DEF left
<1>4. /\ r \in Seq(Values) /\ Len(r) = FrameSize
      /\ \A j \in 1..FrameSize :
           r[j] = IF j <= Len(left) THEN left[j] ELSE Silence
  BY <1>2, ResizedProperties
<1> HIDE DEF r
<1>5. e \in Seq(Values) /\ Len(e) = Len(sent) + Len(r)
      /\ \A i \in 1..(Len(sent) + Len(r)) :
           e[i] = IF i <= Len(sent) THEN sent[i] ELSE r[i - Len(sent)]
  BY <1>2, <1>4, ConcatProperties
<1> HIDE DEF e
<1>6. ASSUME NEW i \in 1..Len(e)
      PROVE  e[i] = IF i <= produced THEN i ELSE Silence
  <2>1. i \in Nat /\ i \in 1..(Len(sent) + Len(r))
    BY <1>1, <1>4, <1>5
  <2>2. CASE i <= Len(sent)
    <3>1. i \in 1..Len(sent) /\ i <= produced
      BY <2>1, <2>2, <1>1
    <3> QED BY <3>1, <2>1, <2>2, <1>1, <1>5
  <2>3. CASE i > Len(sent)
    <3> DEFINE j == i - Len(sent)
    <3>1. j \in Nat /\ j \in 1..FrameSize /\ ~(i <= Len(sent))
          /\ Len(sent) + j = i /\ (j <= Len(left) <=> i <= produced)
      BY <2>1, <2>3, <1>1, <1>4
    <3>2. e[i] = r[j]
      BY <2>1, <3>1, <1>5
    <3> HIDE DEF j
    <3>3. r[j] = IF j <= Len(left) THEN left[j] ELSE Silence
      BY <3>1, <1>4
    <3>4. j <= Len(left) => left[j] = i
      <4>1. j <= Len(left) => j \in 1..Len(left)
        BY <3>1, <1>1
      <4> QED BY <4>1, <3>1, <1>1
    <3> QED BY <3>1, <3>2, <3>3, <3>4
  <2> QED BY <2>1, <2>2, <2>3, <1>1
<1>7. \A i \in 1..Len(sent) : i <= produced
  BY <1>1
<1> QED BY <1>1, <1>3, <1>6, <1>7 DEF SentIsPrefix

Running == phase # "done"

(* In the end the encoder has got the first samples of the stream and then *)
(* nothing but padding: neither the flushes nor the last frame reorder,    *)
(* repeat or skip samples.                                                 *)
THEOREM SentPrefix == Spec => []SentIsPrefix
PROOF
<1>1. IInv /\ Running => SentIsPrefix
  <2> SUFFICES ASSUME IInv, phase # "done" PROVE SentIsPrefix
    BY DEF Running
  <2>1. \A i \in 1..Len(sent) : sent[i] = i /\ i <= produced
    BY RunningPrefix
  <2> QED BY <2>1 DEF SentIsPrefix
<1>2. Init => SentIsPrefix
  BY <1>1, InitIInv DEF Init, Running
<1>3. IInv' /\ Running' => SentIsPrefix'
  BY <1>1, PTL
<1>4. ASSUME SentIsPrefix, IInv, IInv', [Next]_vars PROVE SentIsPrefix'
  <2>1. CASE phase' # "done"
    BY <1>4, <1>3, <2>1 DEF Running
  <2>2. CASE Finish
    BY <1>4, <2>2, FinishSendsPrefix
  <2>3. CASE phase' = "done" /\ ~Finish
    <3>1. UNCHANGED <<sent, produced>>
      BY <1>4, <2>3 DEF Next, vars, Resample, Flush, EncodeFrame, FramesEncoded,
                        SendEof, IInv, TypeOK
    <3> QED BY <3>1, <1>4 DEF SentIsPrefix
  <2> QED BY <2>1, <2>2, <2>3
<1> QED BY <1>2, <1>4, IInvInvariant, PTL DEF Spec

-----------------------------------------------------------------------------
(* Whole frames.                                                           *)

LEMMA NextVector ==
  ASSUME NEW a \in Nat, NEW b \in Nat, NEW w \in Nat \ {0}, a * w < b * w
  PROVE  a * w + w <= b * w /\ a * w + w = (a + 1) * w
<1>1. a < b
  BY Z3
<1>2. a * w + w = (a + 1) * w
  BY Z3
<1>3. (a + 1) * w <= b * w
  BY <1>1, Z3
<1> QED BY <1>2, <1>3

LEMMA OneFrameMore ==
  ASSUME NEW n \in Nat, NEW f \in Nat \ {0}, n % f = 0
  PROVE  (n + f) % f = 0
<1> DEFINE q == (n \div f) + 1
           d == (n + f) \div f
           r == (n + f) % f
<1>1. q \in Nat /\ n + f = q * f
  <2>1. (n \div f) \in Nat /\ n = f * (n \div f)
    OBVIOUS
  <2> HIDE DEF q
  <2>2. q = (n \div f) + 1
    BY DEF q
  <2> QED BY <2>1, <2>2, Z3
<1>2. d \in Nat /\ r \in 0..(f - 1) /\ n + f = f * d + r
  OBVIOUS
<1> HIDE DEF q, d, r
<1>3. q * f \in Nat /\ d * f \in Nat /\ q * f = d * f + r
  BY <1>1, <1>2, Z3
<1>4. ASSUME r # 0 PROVE FALSE
  <2>1. d * f < q * f
    BY <1>2, <1>3, <1>4
  <2>2. d * f + f <= q * f
    BY <1>1, <1>2, <2>1, NextVector
  <2> QED BY <1>2, <1>3, <2>2
<1>5. r = 0
  BY <1>4
<1> QED BY <1>5 DEF r

LEMMA EncodeSendsFrame ==
  ASSUME IInv, EncodeFrame
  PROVE  Len(sent') = Len(sent) + FrameSize
<1>1. channel \in Seq(Samples) /\ read_pos \in Nat /\ Len(channel) \in Nat
      /\ sent \in Seq(Values) /\ FrameSize \in Nat
  BY LenProperties, AacAssumption DEF IInv, TypeOK, Values
<1>2. read_pos \in 0..Len(channel) /\ read_pos + FrameSize <= Len(channel)
  BY <1>1 DEF EncodeFrame, Available, saturating_sub, IInv, TypeOK
<1> DEFINE w == Window(FrameSize)
<1>3. w \in Seq(Samples) /\ Len(w) = FrameSize
  BY <1>1, <1>2, WindowProperties DEF Window
<1>4. sent' = sent \o w
  BY DEF EncodeFrame
<1> HIDE DEF w
<1>5. w \in Seq(Values)
  BY <1>3, ValuesSubset, SeqMonotonic
<1> QED BY <1>1, <1>3, <1>4, <1>5, ConcatProperties

LEMMA FinishSendsFrame ==
  ASSUME IInv, Finish
  PROVE  Len(sent') \in {Len(sent), Len(sent) + FrameSize}
<1> DEFINE left == DropFront(channel, read_pos)
           r == Resized(left, FrameSize)
<1>1. left \in Seq(Samples) /\ FrameSize \in Nat /\ sent \in Seq(Values)
  BY UnreadSamples, AacAssumption DEF IInv, TypeOK, Values
<1>2. sent' = (IF left # << >> THEN sent \o r ELSE sent)
  BY DEF Finish
<1> HIDE DEF left
<1>3. r \in Seq(Values) /\ Len(r) = FrameSize
  BY <1>1, ResizedProperties
<1> HIDE DEF r
<1>4. Len(sent \o r) = Len(sent) + FrameSize
  BY <1>1, <1>3, ConcatProperties
<1> QED BY <1>2, <1>4

(* The encoder gets nothing but whole frames, the last one included, and   *)
(* a frame's presentation time is the number of samples sent before it.    *)
THEOREM FramesWhole == Spec => []WholeFrames
<1>1. Init => WholeFrames
  <2>1. FrameSize \in Nat \ {0} /\ 0 % FrameSize = 0 /\ Len(<< >>) = 0
    BY AacAssumption
  <2> QED BY <2>1 DEF Init, WholeFrames
<1>2. ASSUME IInv, WholeFrames, [Next]_vars PROVE WholeFrames'
  <2>1. FrameSize \in Nat \ {0} /\ Len(sent) \in Nat
    BY <1>2, LenProperties, AacAssumption DEF IInv, TypeOK
  <2>2. (Len(sent) + FrameSize) % FrameSize = 0
    BY <1>2, <2>1, OneFrameMore DEF WholeFrames
  <2>3. CASE EncodeFrame
    <3>1. Len(sent') = Len(sent) + FrameSize
      BY <1>2, <2>3, EncodeSendsFrame
    <3>2. pts' = pts + FrameSize /\ pts = Len(sent)
      BY <1>2, <2>3 DEF EncodeFrame, WholeFrames
    <3> QED BY <2>2, <3>1, <3>2 DEF WholeFrames
  <2>4. CASE Finish
    <3>1. Len(sent') \in {Len(sent), Len(sent) + FrameSize} /\ phase' = "done"
      BY <1>2, <2>4, FinishSendsFrame DEF Finish
    <3> QED BY <1>2, <2>2, <3>1 DEF WholeFrames
  <2>5. CASE UNCHANGED <<sent, pts>> /\ (phase = "done" => phase' = "done")
    BY <1>2, <2>5 DEF WholeFrames
  <2>6. EncodeFrame \/ Finish
        \/ (UNCHANGED <<sent, pts>> /\ (phase = "done" => phase' = "done"))
    BY <1>2 DEF Next, vars, Resample, Flush, FramesEncoded, SendEof
  <2> QED BY <2>3, <2>4, <2>5, <2>6
<1> QED BY <1>1, <1>2, IInvInvariant, PTL DEF Spec

-----------------------------------------------------------------------------
(* Induction.  The library states it for operators; a set of naturals does *)
(* as well here, and its least element is what the provers can use.        *)

LEMMA LeastNatural ==
  ASSUME NEW T \in SUBSET Nat, T # {}
  PROVE  \E m \in T : \A k \in T : m <= k
<1> DEFINE R == OpToRel(<, Nat)
<1>1. IsWellFoundedOn(R, Nat)
  BY NatLessThanWellFounded
<1>2. \A a, b \in Nat : a < b => <<a, b>> \in R
  BY DEF OpToRel
<1> HIDE DEF R
<1>3. PICK m \in T : \A k \in T : ~ (<<k, m>> \in R)
  BY <1>1, WFMin
<1>4. \A k \in T : ~ (k < m)
  BY <1>2, <1>3
<1>5. \A k \in T : m <= k
  BY <1>4
<1> QED BY <1>5

(* A set with 0 and every successor has no least number outside it.        *)
LEMMA NaturalsFrom ==
  ASSUME NEW T \in SUBSET Nat, 0 \in T, \A n \in T : n + 1 \in T
  PROVE  T = Nat
<1> SUFFICES ASSUME T # Nat PROVE FALSE
  OBVIOUS
<1>1. PICK m \in Nat \ T : \A k \in Nat \ T : m <= k
  BY LeastNatural
<1>2. m # 0 /\ m - 1 \in Nat
  BY <1>1
<1>3. m - 1 \in T
  BY <1>1, <1>2
<1> QED BY <1>1, <1>2, <1>3

-----------------------------------------------------------------------------
(* One call of a mixing kernel.                                            *)

(* Whole vectors: how far they go, and that each of them lies within. *)
LEMMA WholeVectors ==
  ASSUME NEW n \in Nat, NEW w \in Nat \ {0}
  PROVE  (n \div w) \in Nat /\ (n \div w) * w <= n /\ n < (n \div w) * w + w
OBVIOUS

(* The second chunk begins where the first one has ended.                  *)
LEMMA ChunkStarts ==
  ASSUME NEW c \in Nat \ {0}, NEW s \in Nat, s % c = 0, s # 0
  PROVE  c <= s
OBVIOUS

LEMMA ZeroMod ==
  ASSUME NEW c \in Nat \ {0}
  PROVE  0 % c = 0
OBVIOUS

-----------------------------------------------------------------------------
(* The sum over the inputs, a recursive function: what the definition      *)
(* chooses exists, and the choices for two numbers of inputs agree.        *)

SumOf(g, n, i) ==
  g = [k \in 0..n |-> IF k = 0 THEN 0 ELSE g[k - 1] + Mix!Scaled(k, i)]

LEMMA SumsExist ==
  ASSUME NEW i
  PROVE  \A n \in Nat : \E g : SumOf(g, n, i)
<1> DEFINE Ns == {n \in Nat : \E g : SumOf(g, n, i)}
<1>1. 0 \in Ns
  <2> DEFINE g == [k \in 0..0 |-> 0]
  <2>1. SumOf(g, 0, i)
    BY DEF SumOf
  <2> QED BY <2>1
<1>2. ASSUME NEW n \in Ns PROVE n + 1 \in Ns
  <2>1. PICK g : SumOf(g, n, i)
    OBVIOUS
  <2> DEFINE h == [k \in 0..(n + 1) |->
                    IF k = n + 1 THEN g[n] + Mix!Scaled(k, i) ELSE g[k]]
  <2>2. ASSUME NEW k \in 0..(n + 1)
        PROVE  h[k] = IF k = 0 THEN 0 ELSE h[k - 1] + Mix!Scaled(k, i)
    <3>1. CASE k = n + 1
      BY <3>1
    <3>2. CASE k # n + 1
      <4>1. k \in 0..n /\ h[k] = g[k] /\ (k # 0 => h[k - 1] = g[k - 1])
        BY <3>2
      <4>2. g[k] = IF k = 0 THEN 0 ELSE g[k - 1] + Mix!Scaled(k, i)
        BY <2>1, <4>1 DEF SumOf
      <4> QED BY <4>1, <4>2
    <3> QED BY <3>1, <3>2
  <2> HIDE DEF h
  <2>3. SumOf(h, n + 1, i)
    <3>1. h = [k \in 0..(n + 1) |-> h[k]]
      BY DEF h
    <3> QED BY <2>2, <3>1 DEF SumOf
  <2> QED BY <2>3
<1>3. Ns = Nat
  <2> HIDE DEF Ns
  <2>1. Ns \in SUBSET Nat
    BY DEF Ns
  <2> QED BY <1>1, <1>2, <2>1, NaturalsFrom
<1> QED BY <1>3

LEMMA SumsAgree ==
  ASSUME NEW i, NEW n \in Nat, NEW g, NEW h, SumOf(g, n, i), SumOf(h, n + 1, i)
  PROVE  g[n] = h[n]
<1> DEFINE Ns == {k \in Nat : k <= n => g[k] = h[k]}
<1>1. 0 \in Ns
  BY DEF SumOf
<1>2. ASSUME NEW k \in Ns PROVE k + 1 \in Ns
  <2> SUFFICES ASSUME k + 1 <= n PROVE g[k + 1] = h[k + 1]
    OBVIOUS
  <2>1. k + 1 \in 0..n /\ k + 1 \in 0..(n + 1) /\ k + 1 # 0 /\ (k + 1) - 1 = k
    OBVIOUS
  <2>2. g[k + 1] = g[k] + Mix!Scaled(k + 1, i)
    BY <2>1 DEF SumOf
  <2>3. h[k + 1] = h[k] + Mix!Scaled(k + 1, i)
    BY <2>1 DEF SumOf
  <2> QED BY <2>2, <2>3
<1>3. Ns = Nat
  <2> HIDE DEF Ns
  <2>1. Ns \in SUBSET Nat
    BY DEF Ns
  <2> QED BY <1>1, <1>2, <2>1, NaturalsFrom
<1> QED BY <1>3

(* The sum of n + 1 inputs is that of n inputs and the next sample. *)
LEMMA SumRule ==
  ASSUME NEW i, NEW n \in Nat
  PROVE  /\ Mix!Sum(0, i) = 0
         /\ Mix!Sum(n + 1, i) = Mix!Sum(n, i) + Mix!Scaled(n + 1, i)
<1> DEFINE sum(m) == CHOOSE g : SumOf(g, m, i)
<1>1. \A m \in Nat : Mix!Sum(m, i) = sum(m)[m]
  BY DEF Mix!Sum, SumOf
<1>2. \A m \in Nat : SumOf(sum(m), m, i)
  BY SumsExist
<1> HIDE DEF sum
<1>3. sum(0)[0] = 0
  BY <1>2 DEF SumOf
<1>4. sum(n + 1)[n + 1] = sum(n + 1)[n] + Mix!Scaled(n + 1, i)
  <2>1. n + 1 \in Nat /\ n + 1 \in 0..(n + 1) /\ (n + 1) - 1 = n
    OBVIOUS
  <2>2. SumOf(sum(n + 1), n + 1, i)
    BY <1>2, <2>1
  <2> QED BY <2>1, <2>2 DEF SumOf
<1>5. sum(n)[n] = sum(n + 1)[n]
  <2>1. SumOf(sum(n), n, i) /\ SumOf(sum(n + 1), n + 1, i)
    BY <1>2
  <2> QED BY <2>1, SumsAgree
<1>6. Mix!Sum(0, i) = sum(0)[0] /\ Mix!Sum(n, i) = sum(n)[n]
      /\ Mix!Sum(n + 1, i) = sum(n + 1)[n + 1]
  BY <1>1
<1> QED BY <1>3, <1>4, <1>5, <1>6

-----------------------------------------------------------------------------
(* What is in a call.                                                      *)

NIn == Len(call.inputs)

LEMMA CallFacts ==
  ASSUME Mix!KernelAssumption, Mix!TypeOK
  PROVE  /\ call.kernel \in Mix!Kernels /\ Mix!len \in Lens /\ Mix!len \in Nat
         /\ Mix!W \in Nat \ {0} /\ Mix!len + Mix!W <= Reach
         /\ call.op \in {"mix", "volume", "gate"}
         /\ call.op = "mix" =>
              call.inputs \in Seq(Seq(Int)) /\ call.volumes \in Seq(Int)
         /\ call.op = "volume" => call.gain \in Int
         /\ call.op = "gate" => call.start \in Nat /\ call.end \in Nat
<1>1. /\ call.kernel \in Mix!Kernels /\ Mix!len \in Lens
      /\ call.op \in {"mix", "volume", "gate"}
      /\ call.op = "mix" => call.inputs \in Inputs /\ call.volumes \in Volumes
      /\ call.op = "volume" => call.gain \in Gains
      /\ call.op = "gate" => call.start \in Lens /\ call.end \in Lens
  <2>1. call \in Mix!Calls
    BY DEF Mix!TypeOK
  <2> QED BY <2>1 DEF Mix!Calls, Mix!len
<1> QED BY <1>1 DEF Mix!KernelAssumption, Mix!W

LEMMA MixFacts ==
  ASSUME Mix!KernelAssumption, Mix!TypeOK, call.op = "mix"
  PROVE  /\ NIn \in Nat /\ Mix!Zipped \in 0..NIn
         /\ Mix!Matching => Mix!Zipped = NIn
         /\ \A k \in 1..Mix!Zipped :
              /\ call.volumes[k] \in Int /\ call.inputs[k] \in Seq(Int)
              /\ Len(call.inputs[k]) \in Nat
              /\ \A i \in 1..Len(call.inputs[k]) : call.inputs[k][i] \in Int
         /\ \A k \in 1..Mix!Zipped : \A i \in Nat : Mix!Scaled(k, i) \in Int
<1>1. call.inputs \in Seq(Seq(Int)) /\ call.volumes \in Seq(Int)
  BY CallFacts
<1>2. /\ NIn \in Nat /\ Len(call.volumes) \in Nat /\ Mix!Zipped \in 0..NIn
      /\ Mix!Zipped <= Len(call.volumes)
      /\ Mix!Matching => Mix!Zipped = NIn
  BY <1>1 DEF Mix!Zipped, Mix!min, Mix!Matching, NIn
<1>3. \A k \in 1..Mix!Zipped :
         call.volumes[k] \in Int /\ call.inputs[k] \in Seq(Int)
  BY <1>1, <1>2, ElementOfSeq DEF NIn
<1>4. ASSUME NEW k \in 1..Mix!Zipped
      PROVE  /\ Len(call.inputs[k]) \in Nat
             /\ \A i \in 1..Len(call.inputs[k]) : call.inputs[k][i] \in Int
  BY <1>3, ElementOfSeq, LenProperties
<1>5. ASSUME NEW k \in 1..Mix!Zipped, NEW i \in Nat PROVE Mix!Scaled(k, i) \in Int
  <2>1. CASE i < Len(call.inputs[k])
    <3>1. i + 1 \in 1..Len(call.inputs[k])
      BY <1>4, <2>1
    <3> QED BY <1>3, <1>4, <2>1, <3>1 DEF Mix!Scaled
  <2>2. CASE ~ (i < Len(call.inputs[k]))
    BY <2>2 DEF Mix!Scaled
  <2> QED BY <2>1, <2>2
<1> QED BY <1>2, <1>3, <1>4, <1>5

(* Only inputs with a volume are gone through.                             *)
LEMMA InputsCounted ==
  ASSUME Mix!KernelAssumption, Mix!TypeOK, call.op = "mix"
  PROVE  Mix!Zipped \in Nat /\ input_idx \in 0..Mix!Zipped
<1>1. Mix!Zipped \in Nat
  <2>1. NIn \in Nat /\ Mix!Zipped \in 0..NIn
    BY MixFacts
  <2> QED BY <2>1
<1>2. input_idx \in 0..Mix!Zipped
  BY DEF Mix!TypeOK
<1> QED BY <1>1, <1>2

LEMMA SumTyped ==
  ASSUME Mix!KernelAssumption, Mix!TypeOK, call.op = "mix"
  PROVE  \A n \in 0..Mix!Zipped : \A i \in Nat : Mix!Sum(n, i) \in Int
<1>1. SUFFICES ASSUME NEW i \in Nat
               PROVE  \A n \in Nat : n <= Mix!Zipped => Mix!Sum(n, i) \in Int
  BY MixFacts
<1> DEFINE Ns == {n \in Nat : n <= Mix!Zipped => Mix!Sum(n, i) \in Int}
<1>2. 0 \in Ns
  BY SumRule
<1>3. ASSUME NEW n \in Ns PROVE n + 1 \in Ns
  <2> SUFFICES ASSUME n + 1 <= Mix!Zipped PROVE Mix!Sum(n + 1, i) \in Int
    OBVIOUS
  <2>1. Mix!Sum(n, i) \in Int /\ Mix!Scaled(n + 1, i) \in Int
    BY MixFacts
  <2> QED BY <2>1, SumRule
<1>4. Ns = Nat
  <2> HIDE DEF Ns
  <2>1. Ns \in SUBSET Nat
    BY DEF Ns
  <2> QED BY <1>2, <1>3, <2>1, NaturalsFrom
<1> QED BY <1>4

LEMMA ClampTyped ==
  ASSUME Mix!KernelAssumption, NEW x \in Int
  PROVE  Mix!clamp(x) \in Int
BY DEF Mix!clamp, Mix!max, Mix!min, Mix!KernelAssumption

-----------------------------------------------------------------------------
(* Where a call stands, and the memory it has no business with.            *)

InVectors == {"body", "tail", "masked tail", "accumulate"}
AfterVectors == {"tail", "masked tail", "accumulate"}
Blocks == Mix!len \div Mix!W

(* What each label of a kernel goes with.  The vectors begin at whole      *)
(* multiples of the width, so that none of them reaches over simd_len.     *)
Control ==
  /\ pc \in InVectors \cup {"chunks"} =>
       call.op = "mix" /\ Mix!len > 0 /\ call.inputs # << >>
  /\ pc \in InVectors => call.kernel \in Mix!Simd
  /\ pc = "chunks" => call.kernel \notin Mix!Simd
  /\ pc \in {"scale", "scale all"} => call.op = "volume"
  /\ pc \in {"call", "scale all"} => memory = before
  /\ pc = "call" => input_idx = 0 /\ at = 0
  /\ pc \in {"body", "scale"} => \E n \in 0..Blocks : at = n * Mix!W
  /\ pc = "body" /\ input_idx = Mix!Zipped => at = 0
  /\ pc \in AfterVectors => at = Mix!simd_len
  /\ pc \in {"tail", "masked tail"} => input_idx = 0
  /\ pc = "chunks" => \A s \in chunks_left : s \in 0..(Mix!len - 1)
  /\ pc = "chunks" /\ Mix!len < ParallelFrom => chunks_left \subseteq {0}

Shape == Mix!TypeOK /\ Mix!NeighboursKept /\ Control

LEMMA InitShape ==
  ASSUME Mix!KernelAssumption, Mix!Init PROVE Shape
<1>1. /\ call \in Mix!Calls /\ before = memory /\ input_idx = 0 /\ at = 0
      /\ chunks_left = {}
      /\ pc = "call"
  BY DEF Mix!Init
<1>2. memory \in [Mix!Addresses -> Int]
  <2>1. PICK g \in Garbage : memory = [a \in Mix!Addresses |-> g + a]
    BY DEF Mix!Init
  <2>2. g \in Int
    BY DEF Mix!KernelAssumption
  <2>3. \A a \in Mix!Addresses : g + a \in Int
    BY <2>2 DEF Mix!Addresses, Mix!KernelAssumption
  <2> QED BY <2>1, <2>3
<1>3. Mix!len \in Nat
  BY <1>1 DEF Mix!Calls, Mix!len, Mix!KernelAssumption
<1>4. 0 \in 0..(IF call.op = "mix" THEN Mix!Zipped ELSE 0)
  <2>1. CASE call.op = "mix"
    <3>1. call.inputs \in Inputs /\ call.volumes \in Volumes
      BY <1>1, <2>1 DEF Mix!Calls
    <3>2. Len(call.inputs) \in Nat /\ Len(call.volumes) \in Nat
      BY <3>1, LenProperties DEF Mix!KernelAssumption
    <3> QED BY <2>1, <3>2 DEF Mix!Zipped, Mix!min
  <2>2. CASE call.op # "mix"
    BY <2>2
  <2> QED BY <2>1, <2>2
<1>5. Mix!TypeOK
  BY <1>1, <1>2, <1>3, <1>4 DEF Mix!TypeOK
<1> QED BY <1>1, <1>5
           DEF Shape, Control, Mix!NeighboursKept, InVectors, AfterVectors

(* The vectors of a call. *)
LEMMA VectorFacts ==
  ASSUME Mix!KernelAssumption, Mix!TypeOK
  PROVE  /\ Mix!simd_len \in 0..Mix!len
         /\ Mix!len < Mix!simd_len + Mix!W
         /\ Blocks \in Nat /\ Mix!simd_len = Blocks * Mix!W
         /\ \A n \in 0..Blocks : n * Mix!W \in 0..Mix!simd_len
         /\ \A n \in 0..Blocks : n * Mix!W < Mix!simd_len =>
              /\ n * Mix!W + Mix!W <= Mix!simd_len
              /\ n + 1 \in 0..Blocks /\ n * Mix!W + Mix!W = (n + 1) * Mix!W
<1>1. Mix!len \in Nat /\ Mix!W \in Nat \ {0}
  BY CallFacts
<1> DEFINE w == Mix!W
<1> HIDE DEF w
<1>2. /\ Blocks \in Nat /\ Blocks * w <= Mix!len /\ Mix!len < Blocks * w + w
  BY <1>1, WholeVectors DEF Blocks, w
<1>3. Mix!simd_len = Blocks * w
  BY DEF Mix!simd_len, Blocks, w
<1>4. ASSUME NEW n \in 0..Blocks PROVE n * w \in 0..(Blocks * w)
  <2>1. n \in Nat /\ w \in Nat /\ Blocks \in Nat /\ n <= Blocks
    BY <1>1, <1>2 DEF w
  <2>2. n * w \in Nat /\ Blocks * w \in Nat
    BY <2>1
  <2>3. n * w <= Blocks * w
    BY <2>1, Z3
  <2> QED BY <2>2, <2>3
<1>5. ASSUME NEW n \in 0..Blocks, n * w < Blocks * w
      PROVE  n * w + w <= Blocks * w /\ n + 1 \in 0..Blocks /\ n * w + w = (n + 1) * w
  <2>1. n \in Nat /\ w \in Nat \ {0} /\ Blocks \in Nat
    BY <1>1, <1>2 DEF w
  <2>2. n # Blocks
    <3>1. n * w \in Int
      BY <2>1
    <3> QED BY <1>5, <3>1
  <2> QED BY <1>5, <2>1, <2>2, NextVector
<1> QED BY <1>1, <1>2, <1>3, <1>4, <1>5 DEF w

Frame == Mix!Addresses

LEMMA FrameFacts ==
  ASSUME Mix!KernelAssumption, Mix!TypeOK
  PROVE  memory \in [Frame -> Int] /\ before \in [Frame -> Int] /\ Frame \subseteq Nat
<1>1. memory \in [Frame -> Int] /\ before \in [Frame -> Int]
  BY DEF Frame, Mix!TypeOK
<1>2. Frame \subseteq Nat
  BY DEF Frame, Mix!Addresses, Mix!KernelAssumption
<1> QED BY <1>1, <1>2

(* Each step keeps the memory behind the buffer.                           *)
LEMMA StartShape ==
  ASSUME Mix!KernelAssumption, Shape,
         Mix!AudioMix \/ Mix!ApplyVolume
  PROVE  Shape'
<1>1. /\ call' = call /\ before' = before /\ memory' = memory
      /\ input_idx' = input_idx /\ at' = at
  BY DEF Mix!AudioMix, Mix!ApplyVolume, Mix!loops
<1>2. Mix!TypeOK' /\ Mix!NeighboursKept'
  <2>1. chunks_left' \subseteq 0..Mix!len
    <3>0. Mix!len \in Nat
      BY CallFacts DEF Shape
    <3>1. CASE Mix!AudioMix
      BY <3>0, <3>1 DEF Mix!AudioMix
    <3>2. CASE Mix!ApplyVolume
      BY <3>2 DEF Mix!ApplyVolume, Mix!loops, Shape, Mix!TypeOK
    <3> QED BY <3>1, <3>2
  <2>2. pc' \in {"body", "chunks", "scale", "scale all"}
    BY DEF Mix!AudioMix, Mix!ApplyVolume, Mix!Goto
  <2> QED BY <1>1, <2>1, <2>2
             DEF Shape, Mix!TypeOK, Mix!NeighboursKept, Mix!len, Mix!Zipped
<1>3. Blocks \in Nat /\ 0 \in 0..Blocks /\ 0 * Mix!W = 0
  BY VectorFacts, CallFacts DEF Shape
<1>4. /\ Blocks' = Blocks /\ Mix!W' = Mix!W
      /\ Mix!len' = Mix!len /\ Mix!Zipped' = Mix!Zipped
  BY <1>1 DEF Blocks, Mix!W, Mix!len, Mix!Zipped
<1>5. CASE Mix!AudioMix
  <2>1. /\ pc = "call" /\ call.op = "mix" /\ Mix!len > 0 /\ call.inputs # << >>
        /\ pc' = IF call.kernel \in Mix!Simd THEN "body" ELSE "chunks"
        /\ chunks_left' = IF Mix!len >= ParallelFrom
                   THEN {a \in 0..(Mix!len - 1) : a % ChunkSize = 0} ELSE {0}
    BY <1>5 DEF Mix!AudioMix, Mix!Goto
  <2>2. /\ \A s \in chunks_left' : s \in 0..(Mix!len - 1)
        /\ Mix!len < ParallelFrom => chunks_left' \subseteq {0}
    BY <2>1, CallFacts DEF Shape, Mix!KernelAssumption
  <2>3. at = 0 /\ input_idx = 0
    BY <2>1 DEF Shape, Control
  <2> QED BY <1>1, <1>2, <1>3, <1>4, <2>1, <2>2, <2>3
             DEF Shape, Control, InVectors, AfterVectors
<1>6. CASE Mix!ApplyVolume
  <2>1. /\ pc = "call" /\ call.op = "volume"
        /\ pc' = IF call.kernel \in Mix!Simd THEN "scale" ELSE "scale all"
    BY <1>6 DEF Mix!ApplyVolume, Mix!Goto
  <2>3. at = 0 /\ memory = before
    BY <2>1 DEF Shape, Control
  <2> QED BY <1>1, <1>2, <1>3, <1>4, <2>1, <2>3
             DEF Shape, Control, InVectors, AfterVectors
<1> QED BY <1>5, <1>6

(* A step to the end of the call, which stores within the buffer. *)
LEMMA EndShape ==
  ASSUME Mix!KernelAssumption, Shape, call' = call, before' = before,
         UNCHANGED Mix!loops, pc' \in {"done", "panicked"},
         memory' \in [Frame -> Int],
         \A a \in Frame : a >= Mix!len => memory'[a] = memory[a]
  PROVE  Shape'
<1>1. Mix!TypeOK'
  BY DEF Shape, Mix!TypeOK, Mix!loops, Frame, Mix!len, Mix!Zipped
<1>2. Mix!NeighboursKept'
  BY DEF Shape, Mix!NeighboursKept, Frame, Mix!len
<1> QED BY <1>1, <1>2 DEF Shape, Control, InVectors, AfterVectors

LEMMA FastShape ==
  ASSUME Mix!KernelAssumption, Shape,
         Mix!NoInputs \/ Mix!VolumeFastPath \/ Mix!ApplyGate
  PROVE  Shape'
<1>1. /\ call' = call /\ before' = before /\ UNCHANGED Mix!loops /\ pc' = "done"
  BY DEF Mix!NoInputs, Mix!VolumeFastPath, Mix!ApplyGate, Mix!Goto
<1>2. /\ memory' \in [Frame -> Int]
      /\ \A a \in Frame : a >= Mix!len => memory'[a] = memory[a]
  <2>0. memory \in [Frame -> Int] /\ Mix!len \in Nat
    BY CallFacts DEF Shape, Mix!TypeOK, Frame
  <2>a. Frame \subseteq Nat
    BY DEF Frame, Mix!Addresses, Mix!KernelAssumption
  <2>1. CASE Mix!NoInputs
    <3>1. memory' = [a \in Frame |->
                       IF a \in 0..(0 + Mix!len - 1) THEN 0 ELSE memory[a]]
      BY <2>0, <2>1 DEF Mix!NoInputs, Mix!Store
    <3> QED BY <2>0, <2>a, <3>1
  <2>2. CASE Mix!VolumeFastPath
    <3>1. memory' = memory \/
          memory' = [a \in Frame |->
                       IF a \in 0..(0 + Mix!len - 1) THEN 0 ELSE memory[a]]
      BY <2>0, <2>2 DEF Mix!VolumeFastPath, Mix!Store
    <3> QED BY <2>0, <2>a, <3>1
  <2>3. CASE Mix!ApplyGate
    <3> DEFINE silenced == Mix!max(0, Mix!min(call.end, Mix!len) - call.start)
             last == call.start + silenced - 1
    <3>0. call.start \in Nat /\ call.end \in Nat
      BY <2>3, CallFacts DEF Mix!ApplyGate, Shape
    <3>1. memory' = [a \in Frame |->
                       IF a \in call.start..last THEN 0 ELSE memory[a]]
      BY <2>0, <2>3 DEF Mix!ApplyGate, Mix!Store
    <3>2. last \in Int /\ (last < Mix!len \/ last < call.start)
      BY <2>0, <3>0 DEF Mix!max, Mix!min
    <3> HIDE DEF last
    <3> QED BY <2>0, <2>a, <3>0, <3>1, <3>2
  <2> QED BY <2>1, <2>2, <2>3
<1> QED BY <1>1, <1>2, EndShape

LEMMA ChunkShape ==
  ASSUME Mix!KernelAssumption, Shape, NEW start \in chunks_left, Mix!MixChunk(start)
  PROVE  Shape'
<1> DEFINE n == IF Mix!len >= ParallelFrom
                THEN Mix!min(ChunkSize, Mix!len - start) ELSE Mix!len
           V(a) == Mix!clamp(Mix!Sum(Mix!Zipped, a - start))
<1>1. /\ UNCHANGED <<call, before, input_idx, at, pc>> /\ pc = "chunks"
      /\ chunks_left' = chunks_left \ {start}
      /\ memory' = [a \in Frame |->
                      IF a \in start..(start + n - 1) THEN V(a) ELSE memory[a]]
  BY DEF Mix!MixChunk, Mix!Store, Shape, Mix!TypeOK, Frame
<1>2. /\ start \in 0..(Mix!len - 1) /\ Mix!len \in Nat /\ call.op = "mix"
      /\ Mix!len < ParallelFrom => start = 0
      /\ memory \in [Frame -> Int] /\ Frame \subseteq Nat
  <2>1. /\ start \in 0..(Mix!len - 1) /\ call.op = "mix"
        /\ Mix!len < ParallelFrom => chunks_left \subseteq {0}
    BY <1>1 DEF Shape, Control
  <2>2. Mix!len \in Nat
    BY CallFacts DEF Shape
  <2>3. memory \in [Frame -> Int] /\ Frame \subseteq Nat
    BY FrameFacts DEF Shape
  <2> QED BY <2>1, <2>2, <2>3
<1>3. n \in Nat /\ start + n <= Mix!len
  BY <1>2 DEF Mix!min, Mix!KernelAssumption
<1> HIDE DEF n
<1>4. \A a \in Nat : a \in start..(start + n - 1) => V(a) \in Int
  <2> SUFFICES ASSUME NEW a \in Nat, a \in start..(start + n - 1) PROVE V(a) \in Int
    OBVIOUS
  <2>1. a - start \in Nat /\ Mix!Zipped \in 0..Mix!Zipped
    BY <1>2, <1>3, MixFacts DEF Shape
  <2>2. Mix!Sum(Mix!Zipped, a - start) \in Int
    BY <1>2, <2>1, SumTyped DEF Shape
  <2> QED BY <2>2, ClampTyped
<1> HIDE DEF V
<1>5. /\ memory' \in [Frame -> Int]
      /\ \A a \in Frame : a >= Mix!len => memory'[a] = memory[a]
  BY <1>1, <1>2, <1>3, <1>4
<1>6. Mix!TypeOK' /\ Mix!NeighboursKept'
  BY <1>1, <1>5
     DEF Shape, Mix!TypeOK, Mix!NeighboursKept, Frame, Mix!len, Mix!Zipped
<1> QED BY <1>1, <1>6 DEF Shape, Control, InVectors, AfterVectors, Mix!len

(* What a vector is loaded with, whatever lies behind an input.            *)
LEMMA LoadTyped ==
  ASSUME Mix!KernelAssumption, Mix!TypeOK, call.op = "mix", at \in Nat,
         NEW k \in 1..Mix!Zipped, NEW garbage \in Garbage,
         NEW a \in at..(at + Mix!W - 1)
  PROVE  Mix!Load(k, garbage)[a - at] \in Int
<1> DEFINE j == a - at
<1>1. j \in 0..(Mix!W - 1) /\ j \in Nat
  BY CallFacts
<1>2. garbage \in Int
  BY DEF Mix!KernelAssumption
<1>3. Mix!Load(k, garbage)[j] =
        IF at + j < Len(call.inputs[k]) THEN call.inputs[k][at + j + 1] ELSE garbage
  BY <1>1 DEF Mix!Load
<1>4. ASSUME at + j < Len(call.inputs[k]) PROVE call.inputs[k][at + j + 1] \in Int
  <2>1. at + j + 1 \in 1..Len(call.inputs[k])
    <3>1. Len(call.inputs[k]) \in Nat
      BY MixFacts
    <3> HIDE DEF j
    <3> QED BY <1>1, <1>4, <3>1
  <2> QED BY <2>1, MixFacts
<1> QED BY <1>2, <1>3, <1>4

LEMMA VectorShape ==
  ASSUME Mix!KernelAssumption, Shape, Mix!MixVector
  PROVE  Shape'
<1>0. /\ UNCHANGED <<call, before, input_idx, chunks_left, pc>> /\ pc = "body"
      /\ input_idx < Mix!Zipped /\ at < Mix!simd_len /\ at' = at + Mix!W
  BY DEF Mix!MixVector
<1>1. /\ call.op = "mix" /\ memory \in [Frame -> Int] /\ Frame \subseteq Nat
      /\ DOMAIN memory = Frame
      /\ at \in Nat /\ input_idx \in Nat
  BY <1>0
     DEF Shape, Control, Mix!TypeOK, Frame, Mix!Addresses, Mix!KernelAssumption,
         InVectors
<1> DEFINE k == input_idx + 1
<1>2. PICK garbage \in Garbage :
        memory' = Mix!Store(at, Mix!W, LAMBDA a :
             IF input_idx = 0 THEN Mix!Load(k, garbage)[a - at] * call.volumes[k]
             ELSE IF input_idx < Mix!last_input_idx
                  THEN memory[a] + Mix!Load(k, garbage)[a - at] * call.volumes[k]
             ELSE Mix!clamp(memory[a]
                              + Mix!Load(k, garbage)[a - at] * call.volumes[k]))
  BY DEF Mix!MixVector
<1> DEFINE x(a) == Mix!Load(k, garbage)[a - at] * call.volumes[k]
           V(a) == IF input_idx = 0 THEN x(a)
                   ELSE IF input_idx < Mix!last_input_idx THEN memory[a] + x(a)
                   ELSE Mix!clamp(memory[a] + x(a))
<1>3. memory' = [a \in Frame |->
                   IF a \in at..(at + Mix!W - 1) THEN V(a) ELSE memory[a]]
  BY <1>1, <1>2 DEF Mix!Store
<1>4. ASSUME NEW a \in Frame, a \in at..(at + Mix!W - 1) PROVE V(a) \in Int
  <2>0. k \in 1..Mix!Zipped
    BY <1>0, <1>1, MixFacts DEF Shape
  <2>1. call.volumes[k] \in Int
    BY <1>1, <2>0, MixFacts DEF Shape
  <2>2. Mix!Load(k, garbage)[a - at] \in Int
    BY <1>1, <1>4, <2>0, LoadTyped DEF Shape
  <2>3. x(a) \in Int /\ memory[a] \in Int
    BY <1>1, <2>1, <2>2
  <2> HIDE DEF x
  <2>4. memory[a] + x(a) \in Int
    BY <2>3
  <2> QED BY <2>3, <2>4, ClampTyped
<1> HIDE DEF V
<1>5. at + Mix!W <= Mix!simd_len /\ Mix!simd_len \in 0..Mix!len /\ Mix!len \in Nat
      /\ \E n \in 0..Blocks : at + Mix!W = n * Mix!W
  BY <1>0, VectorFacts, CallFacts DEF Shape, Control
<1>6. /\ memory' \in [Frame -> Int]
      /\ \A a \in Frame : a >= Mix!len => memory'[a] = memory[a]
  <2>1. memory' \in [Frame -> Int]
    BY <1>1, <1>3, <1>4
  <2>2. Mix!W \in Nat
    BY CallFacts DEF Shape
  <2> QED BY <1>1, <1>3, <1>5, <2>1, <2>2
<1>7. at' \in 0..Mix!len
  BY <1>0, <1>1, <1>5, CallFacts DEF Shape
<1>8. Mix!TypeOK' /\ Mix!NeighboursKept'
  BY <1>0, <1>6, <1>7
     DEF Shape, Mix!TypeOK, Mix!NeighboursKept, Frame, Mix!len, Mix!Zipped
<1>9. Blocks' = Blocks /\ Mix!W' = Mix!W /\ Mix!Zipped' = Mix!Zipped
  BY <1>0 DEF Blocks, Mix!W, Mix!len, Mix!Zipped
<1>10. input_idx # Mix!Zipped
  BY <1>0, <1>1, MixFacts DEF Shape
<1> QED BY <1>0, <1>5, <1>8, <1>9, <1>10
           DEF Shape, Control, InVectors, AfterVectors, Mix!len

LEMMA TurnShape ==
  ASSUME Mix!KernelAssumption, Shape, Mix!NextInput \/ Mix!BodyDone
  PROVE  Shape'
<1>1. /\ UNCHANGED <<call, before, memory, chunks_left>> /\ pc = "body"
  BY DEF Mix!NextInput, Mix!BodyDone
<1>2. call.op = "mix" /\ Mix!simd_len \in 0..Mix!len /\ Mix!len \in Nat
      /\ input_idx \in 0..Mix!Zipped /\ Mix!Zipped \in Nat
  <2>1. call.op = "mix"
    BY <1>1 DEF Shape, Control, InVectors
  <2>2. Mix!simd_len \in 0..Mix!len /\ Mix!len \in Nat
    BY VectorFacts, CallFacts DEF Shape
  <2>3. Mix!Zipped \in Nat
    BY <2>1, InputsCounted DEF Shape
  <2>4. input_idx \in 0..Mix!Zipped
    BY <2>1, InputsCounted DEF Shape
  <2> QED BY <2>1, <2>2, <2>3, <2>4
<1>3. /\ at' \in 0..Mix!len /\ input_idx' \in 0..Mix!Zipped
      /\ pc' \in {"body", "done", "tail", "masked tail"}
  <2>1. CASE Mix!NextInput
    BY <1>1, <1>2, <2>1 DEF Mix!NextInput
  <2>2. CASE Mix!BodyDone
    <3>1. at' = Mix!simd_len /\ input_idx' = 0
      BY <2>2 DEF Mix!BodyDone
    <3>2. pc' \in {"done", "tail", "masked tail"}
      BY <2>2 DEF Mix!BodyDone, Mix!Goto
    <3>3. at' \in 0..Mix!len /\ 0 \in 0..Mix!Zipped
      BY <1>2, <3>1
    <3> QED BY <3>1, <3>2, <3>3
  <2> QED BY <2>1, <2>2
<1>4. Mix!TypeOK' /\ Mix!NeighboursKept'
  BY <1>1, <1>2, <1>3
     DEF Shape, Mix!TypeOK, Mix!NeighboursKept, Mix!len, Mix!Zipped
<1>5. Blocks' = Blocks /\ Mix!W' = Mix!W /\ Mix!len' = Mix!len
      /\ Mix!Zipped' = Mix!Zipped /\ Mix!simd_len' = Mix!simd_len
  BY <1>1 DEF Blocks, Mix!W, Mix!len, Mix!Zipped, Mix!simd_len
<1>6. Blocks \in Nat /\ 0 \in 0..Blocks /\ 0 * Mix!W = 0
  BY VectorFacts, CallFacts DEF Shape
<1>7. CASE Mix!NextInput
  <2>1. pc' = pc /\ at' = 0
    BY <1>7 DEF Mix!NextInput
  <2> QED BY <1>1, <1>4, <1>5, <1>6, <2>1
             DEF Shape, Control, InVectors, AfterVectors
<1>8. CASE Mix!BodyDone
  <2>1. pc' \in {"done", "tail", "masked tail"} /\ at' = Mix!simd_len /\ input_idx' = 0
    BY <1>8 DEF Mix!BodyDone, Mix!Goto
  <2> QED BY <1>1, <1>4, <1>5, <2>1 DEF Shape, Control, InVectors, AfterVectors
<1> QED BY <1>7, <1>8

LEMMA TailShape ==
  ASSUME Mix!KernelAssumption, Shape, Mix!ScalarTail \/ Mix!ClipTail
  PROVE  Shape'
<1>1. /\ UNCHANGED <<call, before>> /\ UNCHANGED Mix!loops /\ pc' = "done"
      /\ pc \in {"tail", "accumulate"}
  BY DEF Mix!ScalarTail, Mix!ClipTail, Mix!Goto
<1>2. call.op = "mix" /\ at = Mix!simd_len
  BY <1>1 DEF Shape, Control, InVectors, AfterVectors
<1>3. memory \in [Frame -> Int] /\ Frame \subseteq Nat /\ DOMAIN memory = Frame
      /\ Mix!simd_len \in 0..Mix!len /\ Mix!len \in Nat
  BY FrameFacts, VectorFacts, CallFacts DEF Shape
<1> DEFINE V(a) == IF pc = "tail" THEN Mix!clamp(Mix!Sum(Mix!Zipped, a))
                   ELSE Mix!clamp(memory[a])
<1>4. memory' = [a \in Frame |->
                   IF a \in Mix!simd_len..(Mix!simd_len + (Mix!len - Mix!simd_len) - 1)
                   THEN V(a) ELSE memory[a]]
  BY <1>2, <1>3 DEF Mix!ScalarTail, Mix!ClipTail, Mix!Store
<1>5. ASSUME NEW a \in Frame PROVE V(a) \in Int
  <2>1. Mix!Zipped \in 0..Mix!Zipped
    BY <1>2, MixFacts DEF Shape
  <2>2. Mix!Sum(Mix!Zipped, a) \in Int /\ memory[a] \in Int
    BY <1>2, <1>3, <2>1, SumTyped DEF Shape
  <2> QED BY <2>2, ClampTyped
<1> HIDE DEF V
<1>6. /\ memory' \in [Frame -> Int]
      /\ \A a \in Frame : a >= Mix!len => memory'[a] = memory[a]
  BY <1>3, <1>4, <1>5
<1> QED BY <1>1, <1>6, EndShape

(* The last vector reaches over the end of the buffer; the lanes there     *)
(* are masked when they are loaded, so that their memory is stored back.   *)
LEMMA AccumulateShape ==
  ASSUME Mix!KernelAssumption, Shape, Mix!ZeroTail \/ Mix!AccumulateTail
  PROVE  Shape'
<1>1. /\ UNCHANGED <<call, before, at, chunks_left>> /\ pc' = "accumulate"
      /\ pc \in {"masked tail", "accumulate"}
  BY DEF Mix!ZeroTail, Mix!AccumulateTail, Mix!Goto, Mix!loops
<1>2. call.op = "mix" /\ at = Mix!simd_len
  BY <1>1 DEF Shape, Control, InVectors, AfterVectors
<1>3. memory \in [Frame -> Int] /\ Frame \subseteq Nat /\ DOMAIN memory = Frame
      /\ Mix!simd_len \in 0..Mix!len /\ Mix!len \in Nat /\ Mix!W \in Nat
  BY FrameFacts, VectorFacts, CallFacts DEF Shape
<1>4. input_idx \in 0..Mix!Zipped /\ Mix!Zipped \in Nat
  BY <1>2, InputsCounted DEF Shape
<1>5. /\ memory' \in [Frame -> Int]
      /\ \A a \in Frame : a >= Mix!len => memory'[a] = memory[a]
      /\ input_idx' \in 0..Mix!Zipped
  <2>1. CASE Mix!ZeroTail
    <3>1. memory' = [a \in Frame |->
                   IF a \in Mix!simd_len..(Mix!simd_len + (Mix!len - Mix!simd_len) - 1)
                   THEN 0 ELSE memory[a]]
      BY <1>3, <2>1 DEF Mix!ZeroTail, Mix!Store
    <3>2. input_idx' = input_idx
      BY <2>1 DEF Mix!ZeroTail, Mix!loops
    <3> QED BY <1>3, <1>4, <3>1, <3>2
  <2>2. CASE Mix!AccumulateTail
    <3>1. input_idx < Mix!Zipped /\ input_idx' = input_idx + 1
      BY <2>2 DEF Mix!AccumulateTail
    <3> DEFINE k == input_idx + 1
    <3>2. PICK garbage \in Garbage : memory' = Mix!Store(at, Mix!W, LAMBDA a :
             memory[a] + (IF a < Mix!len THEN Mix!Load(k, garbage)[a - at] ELSE 0)
                           * call.volumes[k])
      BY <2>2 DEF Mix!AccumulateTail
    <3> DEFINE x(a) == IF a < Mix!len THEN Mix!Load(k, garbage)[a - at] ELSE 0
               V(a) == memory[a] + x(a) * call.volumes[k]
    <3>3. memory' = [a \in Frame |->
                       IF a \in at..(at + Mix!W - 1) THEN V(a) ELSE memory[a]]
      BY <1>3, <3>2 DEF Mix!Store
    <3>4. ASSUME NEW a \in Frame, a \in at..(at + Mix!W - 1)
          PROVE  V(a) \in Int /\ (a >= Mix!len => V(a) = memory[a])
      <4>0. k \in 1..Mix!Zipped
        BY <1>4, <3>1
      <4>1. call.volumes[k] \in Int
        BY <1>2, <4>0, MixFacts DEF Shape
      <4>2. Mix!Load(k, garbage)[a - at] \in Int
        BY <1>2, <1>3, <3>4, <4>0, LoadTyped DEF Shape
      <4>3. x(a) \in Int /\ memory[a] \in Int /\ (a >= Mix!len => x(a) = 0)
        BY <1>3, <4>2
      <4> HIDE DEF x
      <4> QED BY <4>1, <4>3
    <3> HIDE DEF V
    <3>5. memory' \in [Frame -> Int]
      BY <1>3, <3>3, <3>4
    <3>6. ASSUME NEW a \in Frame, a >= Mix!len PROVE memory'[a] = memory[a]
      BY <3>3, <3>4, <3>6
    <3> QED BY <1>4, <3>1, <3>5, <3>6
  <2> QED BY <2>1, <2>2
<1>6. Mix!TypeOK' /\ Mix!NeighboursKept'
  BY <1>1, <1>2, <1>5
     DEF Shape, Mix!TypeOK, Mix!NeighboursKept, Frame, Mix!len, Mix!Zipped
<1>7. Mix!len' = Mix!len /\ Mix!simd_len' = Mix!simd_len
  BY <1>1 DEF Mix!W, Mix!len, Mix!simd_len
<1> QED BY <1>1, <1>2, <1>6, <1>7 DEF Shape, Control, InVectors, AfterVectors

LEMMA ScaleShape ==
  ASSUME Mix!KernelAssumption, Shape,
         Mix!ScaleAll \/ Mix!ScaleVector \/ Mix!ScaleTail
  PROVE  Shape'
<1>1. /\ UNCHANGED <<call, before, input_idx, chunks_left>>
      /\ pc \in {"scale", "scale all"}
      /\ call.op = "volume" /\ call.gain \in Int
  <2>1. /\ UNCHANGED <<call, before, input_idx, chunks_left>>
        /\ pc \in {"scale", "scale all"}
    BY DEF Mix!ScaleAll, Mix!ScaleVector, Mix!ScaleTail, Mix!loops
  <2>2. call.op = "volume"
    BY <2>1 DEF Shape, Control
  <2> QED BY <2>1, <2>2, CallFacts DEF Shape
<1>3. memory \in [Frame -> Int] /\ Frame \subseteq Nat /\ DOMAIN memory = Frame
      /\ Mix!simd_len \in 0..Mix!len /\ Mix!len \in Nat /\ Mix!W \in Nat
  BY FrameFacts, VectorFacts, CallFacts DEF Shape
<1> DEFINE V(a) == memory[a] * call.gain
<1>4. ASSUME NEW a \in Frame PROVE V(a) \in Int
  <2>1. memory[a] \in Int /\ call.gain \in Int
    BY <1>1, <1>3
  <2>2. \A x, y \in Int : x * y \in Int
    OBVIOUS
  <2> QED BY <2>1, <2>2
<1>5. CASE Mix!ScaleAll
  <2>1. pc' = "done" /\ UNCHANGED Mix!loops
    BY <1>5 DEF Mix!ScaleAll, Mix!Goto
  <2>2. memory' = [a \in Frame |->
                     IF a \in 0..(0 + Mix!len - 1) THEN V(a) ELSE memory[a]]
    BY <1>3, <1>5 DEF Mix!ScaleAll, Mix!Store
  <2> HIDE DEF V
  <2>3. /\ memory' \in [Frame -> Int]
        /\ \A a \in Frame : a >= Mix!len => memory'[a] = memory[a]
    BY <1>3, <1>4, <2>2
  <2> QED BY <1>1, <2>1, <2>3, EndShape
<1>6. CASE Mix!ScaleTail
  <2>1. pc' = "done" /\ UNCHANGED Mix!loops
    BY <1>6 DEF Mix!ScaleTail, Mix!Goto
  <2>2. memory' = [a \in Frame |->
                   IF a \in Mix!simd_len..(Mix!simd_len + (Mix!len - Mix!simd_len) - 1)
                   THEN V(a) ELSE memory[a]]
    BY <1>3, <1>6 DEF Mix!ScaleTail, Mix!Store
  <2> HIDE DEF V
  <2>3. /\ memory' \in [Frame -> Int]
        /\ \A a \in Frame : a >= Mix!len => memory'[a] = memory[a]
    BY <1>3, <1>4, <2>2
  <2> QED BY <1>1, <2>1, <2>3, EndShape
<1>7. CASE Mix!ScaleVector
  <2>1. /\ pc = "scale" /\ pc' = "scale" /\ at < Mix!simd_len
        /\ at' = at + Mix!W
    BY <1>7 DEF Mix!ScaleVector
  <2>2. memory' = [a \in Frame |->
                     IF a \in at..(at + Mix!W - 1) THEN V(a) ELSE memory[a]]
    BY <1>3, <1>7 DEF Mix!ScaleVector, Mix!Store
  <2> HIDE DEF V
  <2>3. /\ at + Mix!W <= Mix!simd_len /\ at + Mix!W \in 0..Mix!len
        /\ \E n \in 0..Blocks : at + Mix!W = n * Mix!W
    <3>1. PICK n \in 0..Blocks : at = n * Mix!W
      BY <2>1 DEF Shape, Control
    <3>2. /\ n * Mix!W + Mix!W <= Mix!simd_len /\ n + 1 \in 0..Blocks
          /\ n * Mix!W + Mix!W = (n + 1) * Mix!W
          /\ n * Mix!W \in 0..Mix!simd_len
      BY <2>1, <3>1, VectorFacts DEF Shape
    <3> QED BY <1>3, <3>1, <3>2
  <2>4. /\ memory' \in [Frame -> Int]
        /\ \A a \in Frame : a >= Mix!len => memory'[a] = memory[a]
    <3>1. memory' \in [Frame -> Int]
      BY <1>3, <1>4, <2>2
    <3>2. ASSUME NEW a \in Frame, a >= Mix!len PROVE memory'[a] = memory[a]
      <4>1. a \in Nat /\ ~ (a \in at..(at + Mix!W - 1))
        <5>1. at \in 0..Mix!len
          BY DEF Shape, Mix!TypeOK
        <5>2. at + Mix!W <= Mix!len /\ a \in Nat
          BY <1>3, <2>3
        <5> QED BY <1>3, <3>2, <5>1, <5>2
      <4> QED BY <2>2, <4>1
    <3> QED BY <3>1, <3>2
  <2>5. Mix!TypeOK' /\ Mix!NeighboursKept'
    BY <1>1, <2>1, <2>3, <2>4
       DEF Shape, Mix!TypeOK, Mix!NeighboursKept, Frame, Mix!len, Mix!Zipped
  <2>6. Blocks' = Blocks /\ Mix!W' = Mix!W
    BY <1>1 DEF Blocks, Mix!W, Mix!len
  <2> QED BY <1>1, <2>1, <2>3, <2>5, <2>6
             DEF Shape, Control, InVectors, AfterVectors
<1> QED BY <1>5, <1>6, <1>7

LEMMA QuietShape ==
  ASSUME Mix!KernelAssumption, Shape,
         Mix!ChunksDone \/ Mix!InputTooShort \/ Mix!TailTooShort
  PROVE  Shape'
<1>1. /\ UNCHANGED <<call, before, memory>> /\ UNCHANGED Mix!loops
      /\ pc' \in {"done", "panicked"}
  BY DEF Mix!ChunksDone, Mix!InputTooShort, Mix!TailTooShort, Mix!Goto
<1> QED BY <1>1, FrameFacts, EndShape DEF Shape

LEMMA ShapeKept == Shape /\ UNCHANGED Mix!vars => Shape'
BY DEF Shape, Mix!vars, Mix!TypeOK, Mix!NeighboursKept, Control, Mix!len, Mix!W,
       Mix!Zipped, Mix!simd_len, Blocks

LEMMA NextShape ==
  ASSUME Mix!KernelAssumption, Shape, [Mix!Next]_(Mix!vars)
  PROVE  Shape'
BY StartShape, FastShape, ChunkShape, VectorShape, TurnShape, TailShape,
   AccumulateShape, ScaleShape,
   QuietShape, ShapeKept DEF Mix!Next, Mix!Mix, Mix!Volume

(* Every variable of a kernel keeps its type, and memory behind the buffer *)
(* its contents: no vector that hot_kernels.rs stores, aligned or masked,  *)
(* changes a sample past the end, for any width, length and inputs.        *)
THEOREM KernelsStayInside ==
  ASSUME Mix!KernelAssumption
  PROVE  Mix!Spec => [](Mix!TypeOK /\ Mix!NeighboursKept)
<1>1. Mix!Init => Shape
  BY InitShape
<1>2. Shape /\ [Mix!Next]_(Mix!vars) => Shape'
  BY NextShape
<1>3. Shape => Mix!TypeOK /\ Mix!NeighboursKept
  BY DEF Shape
<1> QED BY <1>1, <1>2, <1>3, PTL DEF Mix!Spec

-----------------------------------------------------------------------------
(* What has been computed.                                                 *)
Fits == Mix!Matching /\ NIn # 1
(* The sample the call is to leave at a.                                   *)
Expected(a) == Mix!clamp(Mix!Sum(Mix!Zipped, a))
(* What n inputs leave there: the last of them clamps.                     *)
Partial(n, a) ==
  IF n < NIn THEN Mix!Sum(n, a) ELSE Mix!clamp(Mix!Sum(n, a))
(* The inputs that sample a of the body has in it.                         *)
InputsDone(a) == IF a < at THEN input_idx + 1 ELSE input_idx

(* In the body, each sample has its share of the inputs done so far ...    *)
VectorSums ==
  pc = "body" /\ Fits =>
    \A a \in 0..(Mix!simd_len - 1) :
      InputsDone(a) > 0 => memory[a] = Partial(InputsDone(a), a)

(* ... so that the whole vectors are right when the rest is dealt with.    *)
VectorsRight ==
  pc \in AfterVectors /\ Fits =>
    \A a \in 0..(Mix!simd_len - 1) : memory[a] = Expected(a)

(* The vector over the end is clamped after the last input only.           *)
TailSums ==
  pc = "accumulate" /\ Fits =>
    \A a \in Mix!simd_len..(Mix!len - 1) : memory[a] = Mix!Sum(input_idx, a)

(* A large buffer comes in chunks, in any order: none but the first        *)
(* stores to the first, and that one counts from the right sample.         *)
ChunksRight ==
  pc = "chunks" =>
    /\ Mix!len >= ParallelFrom => \A s \in chunks_left : s = 0 \/ s >= ChunkSize
    /\ 0 \notin chunks_left =>
         \A a \in 0..(Mix!len - 1) :
           Mix!len < ParallelFrom \/ a < ChunkSize => memory[a] = Expected(a)

(* Every sample is scaled once.                                            *)
ProductsRight ==
  pc = "scale" =>
    \A a \in 0..(Mix!len - 1) :
      memory[a] = IF a < at THEN before[a] * call.gain ELSE before[a]

(* The inductive invariant, besides Shape.                                 *)
Computed ==
  VectorSums /\ VectorsRight /\ TailSums /\ ChunksRight /\ ProductsRight
    /\ Mix!ResultIsReference

LEMMA DoneComputed ==
  ASSUME pc' \in {"done", "panicked"}, Mix!ResultIsReference'
  PROVE  Computed'
BY DEF Computed, VectorSums, VectorsRight, TailSums, ChunksRight, ProductsRight,
       AfterVectors

LEMMA InBuffer ==
  ASSUME Mix!KernelAssumption, Mix!TypeOK, NEW a \in Int, 0 <= a,
         a < Mix!len + Mix!W
  PROVE  a \in Frame
<1>1. Mix!len \in Nat /\ Mix!W \in Nat /\ Mix!len + Mix!W <= Reach /\ Reach \in Nat
  BY CallFacts DEF Mix!KernelAssumption
<1> QED BY <1>1 DEF Frame, Mix!Addresses

(* The arguments of a call do not change, nor what is said of them.        *)
LEMMA CallStays ==
  ASSUME call' = call
  PROVE  /\ Mix!len' = Mix!len /\ Mix!W' = Mix!W /\ Mix!simd_len' = Mix!simd_len
         /\ Mix!Zipped' = Mix!Zipped /\ NIn' = NIn /\ (Fits' <=> Fits)
         /\ (Mix!Matching' <=> Mix!Matching)
         /\ \A n, a : Mix!Sum(n, a)' = Mix!Sum(n, a)
         /\ \A a : Expected(a)' = Expected(a)
         /\ \A n, a : Partial(n, a)' = Partial(n, a)
<1>1. /\ Mix!len' = Mix!len /\ Mix!W' = Mix!W /\ Mix!simd_len' = Mix!simd_len
      /\ Mix!Zipped' = Mix!Zipped /\ NIn' = NIn /\ (Mix!Matching' <=> Mix!Matching)
  BY DEF Mix!len, Mix!W, Mix!simd_len, Mix!Zipped, NIn, Mix!Matching
<1>2. \A n, a : Mix!Sum(n, a)' = Mix!Sum(n, a)
  BY DEF Mix!Sum, Mix!Scaled
<1>3. \A a : Expected(a)' = Expected(a)
  BY <1>1, <1>2 DEF Expected, Mix!clamp, Mix!max, Mix!min
<1>4. \A n, a : Partial(n, a)' = Partial(n, a)
  BY <1>1, <1>2 DEF Partial, Mix!clamp, Mix!max, Mix!min
<1> QED BY <1>1, <1>2, <1>3, <1>4 DEF Fits

(* With inputs as long as the output, no garbage is added.                 *)
LEMMA LoadScaled ==
  ASSUME Mix!KernelAssumption, Mix!TypeOK, call.op = "mix", Mix!Matching,
         at \in Nat, NEW k \in 1..Mix!Zipped, NEW garbage \in Garbage,
         NEW a \in at..(at + Mix!W - 1), a < Mix!len
  PROVE  Mix!Load(k, garbage)[a - at] * call.volumes[k] = Mix!Scaled(k, a)
<1> DEFINE j == a - at
<1>1. j \in 0..(Mix!W - 1) /\ at + j = a /\ a \in Nat
  BY CallFacts
<1>2. k \in DOMAIN call.inputs
  BY MixFacts, CallFacts, LenProperties DEF NIn
<1>3. a < Len(call.inputs[k])
  <2>1. Len(call.inputs[k]) >= Mix!len
    BY <1>2 DEF Mix!Matching
  <2>2. Len(call.inputs[k]) \in Nat
    BY MixFacts
  <2> QED BY <1>1, <2>1, <2>2, CallFacts
<1>4. Mix!Load(k, garbage)[j] = call.inputs[k][at + j + 1]
  BY <1>1, <1>3 DEF Mix!Load
<1>5. Mix!Scaled(k, a) = call.inputs[k][a + 1] * call.volumes[k]
  BY <1>3 DEF Mix!Scaled
<1>6. Mix!Load(k, garbage)[j] = call.inputs[k][a + 1]
  BY <1>1, <1>4
<1> HIDE DEF j
<1>7. Mix!Load(k, garbage)[j] * call.volumes[k] = Mix!Scaled(k, a)
  BY <1>5, <1>6
<1> QED BY <1>7 DEF j

LEMMA InitComputed ==
  ASSUME Mix!KernelAssumption, Mix!Init PROVE Computed
BY DEF Mix!Init, Computed, Mix!ResultIsReference, AfterVectors,
       VectorSums, VectorsRight, TailSums, ChunksRight, ProductsRight

LEMMA StartComputed ==
  ASSUME Mix!KernelAssumption, Shape, Computed,
         Mix!AudioMix \/ Mix!ApplyVolume
  PROVE  Computed'
<1>1. /\ UNCHANGED <<call, before, memory, input_idx, at>>
      /\ pc = "call" /\ pc' \in {"body", "chunks", "scale", "scale all"}
  BY DEF Mix!AudioMix, Mix!ApplyVolume, Mix!loops, Mix!Goto
<1>2. at = 0 /\ input_idx = 0 /\ memory = before
  BY <1>1 DEF Shape, Control
<1>3. /\ Mix!len' = Mix!len /\ Mix!simd_len' = Mix!simd_len
      /\ Mix!len \in Nat /\ Mix!simd_len \in Nat
  <2>1. Mix!len' = Mix!len /\ Mix!simd_len' = Mix!simd_len
    BY <1>1, CallStays
  <2> QED BY <2>1, CallFacts, VectorFacts DEF Shape
<1>4. pc' = "chunks" =>
        /\ 0 \in chunks_left'
        /\ Mix!len >= ParallelFrom => \A s \in chunks_left' : s = 0 \/ s >= ChunkSize
  <2> SUFFICES ASSUME pc' = "chunks"
               PROVE  /\ 0 \in chunks_left'
                      /\ Mix!len >= ParallelFrom => \A s \in chunks_left' : s = 0 \/ s >= ChunkSize
    OBVIOUS
  <2>1. Mix!AudioMix
    BY DEF Mix!ApplyVolume, Mix!Goto
  <2>2. /\ Mix!len > 0
        /\ chunks_left' = IF Mix!len >= ParallelFrom
                   THEN {a \in 0..(Mix!len - 1) : a % ChunkSize = 0} ELSE {0}
    BY <2>1 DEF Mix!AudioMix
  <2>3. ChunkSize \in Nat \ {0}
    BY DEF Mix!KernelAssumption
  <2>4. 0 % ChunkSize = 0 /\ \A s \in Nat : s % ChunkSize = 0 => s = 0 \/ s >= ChunkSize
    BY <2>3, ZeroMod, ChunkStarts
  <2> QED BY <1>3, <2>2, <2>4
<1>5. \A a \in Nat : InputsDone(a)' = 0
  <2>1. at' = 0 /\ input_idx' = 0
    BY <1>1, <1>2
  <2> QED BY <2>1 DEF InputsDone
<1>6. \A a \in 0..(Mix!len - 1) : ~ (a < at)
  BY <1>2
<1>7. VectorSums'
  BY <1>3, <1>5 DEF VectorSums
<1>8. ChunksRight'
  BY <1>3, <1>4 DEF ChunksRight
<1>9. ProductsRight'
  BY <1>1, <1>2, <1>3, <1>6 DEF ProductsRight
<1> QED BY <1>1, <1>7, <1>8, <1>9
        DEF Computed, AfterVectors, Mix!ResultIsReference, VectorsRight,
            TailSums

LEMMA FastComputed ==
  ASSUME Mix!KernelAssumption, Shape, Computed,
         Mix!NoInputs \/ Mix!VolumeFastPath \/ Mix!ApplyGate
  PROVE  Computed'
<1>1. /\ call' = call /\ before' = before /\ pc' = "done" /\ pc = "call"
  BY DEF Mix!NoInputs, Mix!VolumeFastPath, Mix!ApplyGate, Mix!Goto
<1>2. /\ memory = before /\ memory \in [Frame -> Int] /\ DOMAIN memory = Frame
      /\ Mix!len \in Nat /\ Mix!W \in Nat
  BY <1>1, CallFacts, FrameFacts DEF Shape, Control
<1>3. \A a \in 0..(Mix!len - 1) : a \in Frame
  BY <1>2, InBuffer DEF Shape
<1>4. CASE Mix!NoInputs
  <2>1. call.op = "mix" /\ (Mix!len = 0 \/ call.inputs = << >>)
        /\ memory' = [a \in Frame |->
                        IF a \in 0..(0 + Mix!len - 1) THEN 0 ELSE memory[a]]
    BY <1>2, <1>4 DEF Mix!NoInputs, Mix!Store
  <2>2. ASSUME NEW a \in 0..(Mix!len - 1) PROVE memory'[a] = Expected(a)
    <3>1. NIn = 0
      BY <1>2, <2>1 DEF NIn
    <3>2. Mix!Zipped = 0
      BY <2>1, <3>1, MixFacts DEF Shape
    <3>3. Expected(a) = 0
      BY <3>2, SumRule
         DEF Expected, Mix!clamp, Mix!max, Mix!min, Mix!KernelAssumption
    <3>4. memory'[a] = 0
      BY <1>2, <1>3, <2>1
    <3> QED BY <3>3, <3>4
  <2>3. Mix!ResultIsReference'
    BY <1>1, <2>1, <2>2, CallStays DEF Mix!ResultIsReference, Expected
  <2> QED BY <1>1, <2>3, DoneComputed
<1>5. CASE Mix!VolumeFastPath
  <2>1. call.op = "volume" /\ (Mix!len = 0 \/ call.gain \in {0, 1})
        /\ memory' = IF call.gain = 0
             THEN [a \in Frame |-> IF a \in 0..(0 + Mix!len - 1) THEN 0 ELSE memory[a]]
             ELSE memory
    BY <1>2, <1>5 DEF Mix!VolumeFastPath, Mix!Store
  <2>2. ASSUME NEW a \in 0..(Mix!len - 1) PROVE memory'[a] = before[a] * call.gain
    <3>1. a \in Frame /\ before[a] \in Int /\ call.gain \in {0, 1}
      BY <1>2, <1>3, <2>1
    <3>2. before[a] * 0 = 0 /\ before[a] * 1 = before[a]
      BY <3>1
    <3> QED BY <1>2, <2>1, <3>1, <3>2
  <2>3. Mix!ResultIsReference'
    BY <1>1, <2>1, <2>2 DEF Mix!ResultIsReference, Mix!len
  <2> QED BY <1>1, <2>3, DoneComputed
<1>6. CASE Mix!ApplyGate
  <2> DEFINE silenced == Mix!max(0, Mix!min(call.end, Mix!len) - call.start)
           last == call.start + silenced - 1
  <2>0. call.op = "gate" /\ call.start \in Nat /\ call.end \in Nat
    BY <1>6, CallFacts DEF Mix!ApplyGate, Shape
  <2>1. memory' = [a \in Frame |->
                     IF a \in call.start..last THEN 0 ELSE memory[a]]
    BY <1>2, <1>6 DEF Mix!ApplyGate, Mix!Store
  <2>2. \A a \in 0..(Mix!len - 1) :
          a \in call.start..last <=> call.start <= a /\ a < call.end
    BY <1>2, <2>0 DEF Mix!max, Mix!min
  <2> HIDE DEF last
  <2>3. \A a \in 0..(Mix!len - 1) :
          memory'[a] = IF call.start <= a /\ a < call.end THEN 0 ELSE before[a]
    BY <1>2, <1>3, <2>1, <2>2
  <2>4. Mix!ResultIsReference'
    BY <1>1, <2>0, <2>3 DEF Mix!ResultIsReference, Mix!len
  <2> QED BY <1>1, <2>4, DoneComputed
<1> QED BY <1>4, <1>5, <1>6

LEMMA ChunkComputed ==
  ASSUME Mix!KernelAssumption, Shape, Computed, NEW start \in chunks_left,
         Mix!MixChunk(start)
  PROVE  Computed'
<1> DEFINE n == IF Mix!len >= ParallelFrom
                THEN Mix!min(ChunkSize, Mix!len - start) ELSE Mix!len
           V(a) == Mix!clamp(Mix!Sum(Mix!Zipped, a - start))
<1>1. /\ UNCHANGED <<call, before, input_idx, at, pc>> /\ pc = "chunks"
      /\ chunks_left' = chunks_left \ {start}
      /\ memory' = [a \in Frame |->
                      IF a \in start..(start + n - 1) THEN V(a) ELSE memory[a]]
  BY DEF Mix!MixChunk, Mix!Store, Shape, Mix!TypeOK, Frame
<1>2. /\ start \in 0..(Mix!len - 1) /\ Mix!len \in Nat /\ ParallelFrom \in Nat
      /\ Mix!len < ParallelFrom => chunks_left \subseteq {0}
      /\ ChunkSize \in Nat \ {0}
  <2>1. /\ start \in 0..(Mix!len - 1)
        /\ Mix!len < ParallelFrom => chunks_left \subseteq {0}
    BY <1>1 DEF Shape, Control
  <2> QED BY <2>1, CallFacts DEF Shape, Mix!KernelAssumption
<1>3. ChunksRight
  BY DEF Computed
<1>4. \A a \in 0..(Mix!len - 1) : a \in Frame
  BY <1>2, InBuffer, CallFacts DEF Shape
<1>5. ASSUME 0 \notin chunks_left', NEW a \in 0..(Mix!len - 1),
             Mix!len < ParallelFrom \/ a < ChunkSize
      PROVE  memory'[a] = Expected(a)
  <2>1. CASE start = 0
    <3>1. a \in start..(start + n - 1)
      BY <1>2, <1>5, <2>1 DEF Mix!min
    <3>2. V(a) = Expected(a)
      <4>1. a - start = a
        BY <2>1
      <4> QED BY <4>1 DEF Expected
    <3> HIDE DEF n, V
    <3> QED BY <1>1, <1>4, <3>1, <3>2
  <2>2. CASE start # 0
    <3>1. 0 \notin chunks_left /\ ~ (Mix!len < ParallelFrom)
      BY <1>1, <1>2, <1>5, <2>2
    <3>2. start >= ChunkSize
      BY <1>1, <1>2, <1>3, <2>2, <3>1 DEF ChunksRight
    <3>3. memory[a] = Expected(a)
      BY <1>1, <1>3, <1>5, <3>1 DEF ChunksRight
    <3>4. ~ (a \in start..(start + n - 1))
      BY <1>2, <1>5, <3>1, <3>2
    <3> HIDE DEF n, V
    <3> QED BY <1>1, <1>4, <3>3, <3>4
  <2> QED BY <2>1, <2>2
<1> HIDE DEF n, V
<1>6. ChunksRight'
  <2>1. Mix!len' = Mix!len /\ \A a : Expected(a)' = Expected(a)
    BY <1>1, CallStays
  <2>2. Mix!len >= ParallelFrom => \A s \in chunks_left' : s = 0 \/ s >= ChunkSize
    BY <1>1, <1>3 DEF ChunksRight
  <2> QED BY <1>5, <2>1, <2>2 DEF ChunksRight
<1> QED BY <1>1, <1>6
           DEF Computed, VectorSums, VectorsRight, TailSums, ProductsRight,
        AfterVectors, Mix!ResultIsReference

(* One vector more of an input. *)
LEMMA VectorComputed ==
  ASSUME Mix!KernelAssumption, Shape, Computed, Mix!MixVector
  PROVE  Computed'
<1>0. /\ UNCHANGED <<call, before, input_idx, chunks_left, pc>> /\ pc = "body"
      /\ input_idx < Mix!Zipped /\ at < Mix!simd_len /\ at' = at + Mix!W
  BY DEF Mix!MixVector
<1>1. /\ call.op = "mix" /\ memory \in [Frame -> Int] /\ DOMAIN memory = Frame
      /\ at \in Nat /\ input_idx \in Nat /\ Mix!simd_len \in 0..Mix!len
      /\ Mix!len \in Nat
      /\ Mix!W \in Nat \ {0}
  <2>1. call.op = "mix"
    BY <1>0 DEF Shape, Control, InVectors
  <2>2. Mix!len \in Nat /\ Mix!W \in Nat \ {0} /\ Mix!simd_len \in 0..Mix!len
    BY CallFacts, VectorFacts DEF Shape
  <2>3. at \in 0..Mix!len /\ input_idx \in 0..Mix!Zipped
    BY <2>1 DEF Shape, Mix!TypeOK
  <2> QED BY <2>1, <2>2, <2>3, FrameFacts DEF Shape
<1> SUFFICES ASSUME Fits, NEW a \in 0..(Mix!simd_len - 1), InputsDone(a)' > 0
             PROVE  memory'[a] = Partial(InputsDone(a)', a)
  <2>1. VectorSums'
    BY <1>0, CallStays DEF VectorSums
  <2> QED BY <1>0, <2>1
             DEF Computed, VectorsRight, TailSums, ChunksRight, ProductsRight,
          AfterVectors, Mix!ResultIsReference
<1> DEFINE k == input_idx + 1
<1>2. /\ Mix!Matching /\ Mix!Zipped = NIn /\ NIn \in Nat /\ NIn >= 2
      /\ k \in 1..NIn
      /\ k \in 1..Mix!Zipped
  <2>1. Mix!Matching /\ NIn # 1
    BY DEF Fits
  <2>2. Mix!Zipped = NIn /\ NIn \in Nat
    BY <1>1, <2>1, MixFacts DEF Shape
  <2> QED BY <1>0, <1>1, <2>1, <2>2
<1>3. at + Mix!W <= Mix!simd_len
  <2>1. PICK n \in 0..Blocks : at = n * Mix!W
    BY <1>0 DEF Shape, Control
  <2> QED BY <1>0, <2>1, VectorFacts DEF Shape
<1>4. a \in Frame /\ a < Mix!len /\ a \in Nat
  BY <1>1, InBuffer DEF Shape
<1>5. InputsDone(a)' = IF a < at + Mix!W THEN k ELSE input_idx
  BY <1>0 DEF InputsDone
<1>6. PICK garbage \in Garbage :
        memory' = Mix!Store(at, Mix!W, LAMBDA b :
             IF input_idx = 0 THEN Mix!Load(k, garbage)[b - at] * call.volumes[k]
             ELSE IF input_idx < Mix!last_input_idx
                  THEN memory[b] + Mix!Load(k, garbage)[b - at] * call.volumes[k]
             ELSE Mix!clamp(memory[b] + Mix!Load(k, garbage)[b - at] * call.volumes[k]))
  BY DEF Mix!MixVector
<1> DEFINE x(b) == Mix!Load(k, garbage)[b - at] * call.volumes[k]
           V(b) == IF input_idx = 0 THEN x(b)
                   ELSE IF input_idx < Mix!last_input_idx THEN memory[b] + x(b)
                   ELSE Mix!clamp(memory[b] + x(b))
<1>7. memory' = [b \in Frame |->
                   IF b \in at..(at + Mix!W - 1) THEN V(b) ELSE memory[b]]
  BY <1>1, <1>6 DEF Mix!Store
<1>8. CASE a \in at..(at + Mix!W - 1)
  <2>1. x(a) = Mix!Scaled(k, a)
    BY <1>1, <1>2, <1>4, <1>8, LoadScaled DEF Shape
  <2>2. Mix!Sum(k, a) = Mix!Sum(input_idx, a) + Mix!Scaled(k, a)
    BY <1>1, SumRule
  <2>3. Mix!last_input_idx = NIn - 1
    BY <1>2 DEF Mix!last_input_idx, Mix!max, NIn
  <2>4. input_idx > 0 => memory[a] = Mix!Sum(input_idx, a)
    <3> SUFFICES ASSUME input_idx > 0 PROVE memory[a] = Mix!Sum(input_idx, a)
      OBVIOUS
    <3>1. InputsDone(a) = input_idx
      BY <1>1, <1>4, <1>8 DEF InputsDone
    <3>2. memory[a] = Partial(input_idx, a)
      BY <1>0, <3>1 DEF Computed, VectorSums
    <3> QED BY <1>1, <1>2, <3>2 DEF Partial
  <2>5. V(a) = Partial(k, a)
    <3> HIDE DEF x
    <3>1. CASE input_idx = 0
      <4>1. Mix!Sum(input_idx, a) = 0
        BY <3>1, SumRule
      <4>2. Mix!Scaled(k, a) \in Int
        BY <1>1, <1>2, <1>4, MixFacts DEF Shape
      <4>3. Mix!Sum(k, a) = x(a)
        BY <2>1, <2>2, <4>1, <4>2
      <4> QED BY <1>2, <3>1, <4>3 DEF Partial
    <3>2. CASE input_idx # 0
      <4>1. memory[a] + x(a) = Mix!Sum(k, a)
        BY <1>1, <2>1, <2>2, <2>4, <3>2
      <4> QED BY <1>1, <1>2, <2>3, <3>2, <4>1 DEF Partial
    <3> QED BY <3>1, <3>2
  <2> HIDE DEF V
  <2>6. memory'[a] = V(a) /\ InputsDone(a)' = k
    BY <1>1, <1>4, <1>5, <1>7, <1>8
  <2> QED BY <2>5, <2>6
<1>9. CASE a \notin at..(at + Mix!W - 1)
  <2> HIDE DEF V
  <2>1. memory'[a] = memory[a]
    BY <1>4, <1>7, <1>9
  <2>2. InputsDone(a)' = InputsDone(a)
    BY <1>1, <1>4, <1>5, <1>9 DEF InputsDone
  <2>3. memory[a] = Partial(InputsDone(a), a)
    BY <1>0, <2>2 DEF Computed, VectorSums
  <2> QED BY <2>1, <2>2, <2>3
<1> QED BY <1>8, <1>9

LEMMA TurnComputed ==
  ASSUME Mix!KernelAssumption, Shape, Computed, Mix!NextInput \/ Mix!BodyDone
  PROVE  Computed'
<1>1. /\ UNCHANGED <<call, before, memory, chunks_left>> /\ pc = "body"
  BY DEF Mix!NextInput, Mix!BodyDone
<1>2. /\ call.op = "mix" /\ Mix!simd_len \in 0..Mix!len /\ Mix!len \in Nat
      /\ input_idx \in 0..Mix!Zipped /\ Mix!Zipped \in Nat
      /\ input_idx = Mix!Zipped => at = 0
      /\ call.inputs # << >> /\ call.kernel # "scalar" /\ at \in Nat
  <2>1. call.op = "mix" /\ call.inputs # << >> /\ call.kernel \in Mix!Simd
        /\ (input_idx = Mix!Zipped => at = 0)
    BY <1>1 DEF Shape, Control, InVectors
  <2>2. Mix!simd_len \in 0..Mix!len /\ Mix!len \in Nat
    BY VectorFacts, CallFacts DEF Shape
  <2>3. Mix!Zipped \in Nat
    BY <2>1, InputsCounted DEF Shape
  <2>4. input_idx \in 0..Mix!Zipped /\ at \in 0..Mix!len
    BY <2>1 DEF Shape, Mix!TypeOK
  <2> QED BY <2>1, <2>2, <2>3, <2>4 DEF Mix!Simd
<1>3. CASE Mix!NextInput
  <2>1. /\ input_idx' = input_idx + 1 /\ at' = 0 /\ pc' = "body"
        /\ at >= Mix!simd_len
    BY <1>1, <1>3 DEF Mix!NextInput
  <2>2. \A a \in 0..(Mix!simd_len - 1) : InputsDone(a)' = InputsDone(a)
    <3> SUFFICES ASSUME NEW a \in 0..(Mix!simd_len - 1)
                 PROVE  InputsDone(a)' = InputsDone(a)
      OBVIOUS
    <3>1. a < at /\ ~ (a < 0)
      BY <1>2, <2>1
    <3> QED BY <2>1, <3>1 DEF InputsDone
  <2>3. VectorSums
    BY DEF Computed
  <2>4. /\ Mix!simd_len' = Mix!simd_len /\ (Fits' <=> Fits)
        /\ \A n, a : Partial(n, a)' = Partial(n, a)
    BY <1>1, CallStays
  <2>5. VectorSums'
    BY <1>1, <2>2, <2>3, <2>4 DEF VectorSums
  <2> QED BY <2>1, <2>5
             DEF Computed, VectorsRight, TailSums, ChunksRight, ProductsRight,
          AfterVectors, Mix!ResultIsReference
<1>4. CASE Mix!BodyDone
  <2>1. /\ input_idx = Mix!Zipped /\ pc' \in {"done", "tail", "masked tail"}
        /\ pc' = "done" => Mix!len = Mix!simd_len
    BY <1>4 DEF Mix!BodyDone, Mix!Goto
  <2>2. ASSUME Fits, NEW a \in 0..(Mix!simd_len - 1) PROVE memory'[a] = Expected(a)
    <3>1. Mix!Zipped = NIn /\ NIn \in Nat /\ NIn > 0
      <4>1. Mix!Zipped = NIn /\ NIn \in Nat
        BY <1>2, <2>2, MixFacts DEF Shape, Fits
      <4>2. NIn # 0
        BY <1>2, CallFacts, EmptySeq DEF Shape, NIn
      <4> QED BY <4>1, <4>2
    <3>2. InputsDone(a) = NIn
      <4>1. at = 0 /\ input_idx = NIn /\ ~ (a < 0)
        <5>1. at = 0
          BY <1>2, <2>1
        <5>2. input_idx = NIn
          BY <2>1, <3>1
        <5> QED BY <5>1, <5>2
      <4> QED BY <4>1 DEF InputsDone
    <3>3. memory[a] = Partial(NIn, a)
      BY <1>1, <2>2, <3>1, <3>2 DEF Computed, VectorSums
    <3> QED BY <1>1, <3>1, <3>3 DEF Partial, Expected
  <2>3. /\ Mix!simd_len' = Mix!simd_len /\ (Fits' <=> Fits) /\ Mix!len' = Mix!len
        /\ \A a : Expected(a)' = Expected(a)
    BY <1>1, CallStays
  <2>4. CASE pc' = "done"
    <3>1. Mix!TypeOK'
      BY TurnShape DEF Shape
    <3>2. \A a \in 0..(Mix!len - 1) : Fits => memory'[a] = Expected(a)
      BY <2>1, <2>2, <2>4
    <3>3. Mix!ResultIsReference'
      BY <1>1, <1>2, <2>3, <3>2 DEF Mix!ResultIsReference, Fits, NIn, Expected
    <3> QED BY <2>4, <3>3, DoneComputed
  <2>5. CASE pc' # "done"
    <3>1. VectorsRight'
      BY <2>2, <2>3 DEF VectorsRight
    <3> QED BY <2>1, <2>5, <3>1
               DEF Computed, VectorSums, TailSums, ChunksRight, ProductsRight,
            AfterVectors, Mix!ResultIsReference
  <2> QED BY <2>4, <2>5
<1> QED BY <1>3, <1>4

LEMMA TailComputed ==
  ASSUME Mix!KernelAssumption, Shape, Computed, Mix!ScalarTail \/ Mix!ClipTail
  PROVE  Computed'
<1>1. /\ UNCHANGED <<call, before>> /\ pc' = "done"
      /\ pc \in {"tail", "accumulate"}
  BY DEF Mix!ScalarTail, Mix!ClipTail, Mix!Goto
<1>2. call.op = "mix" /\ at = Mix!simd_len /\ call.kernel # "scalar"
  BY <1>1 DEF Shape, Control, InVectors, AfterVectors, Mix!Simd
<1>3. memory \in [Frame -> Int] /\ DOMAIN memory = Frame
      /\ Mix!simd_len \in 0..Mix!len /\ Mix!len \in Nat
  BY FrameFacts, VectorFacts, CallFacts DEF Shape
<1> DEFINE V(a) == IF pc = "tail" THEN Mix!clamp(Mix!Sum(Mix!Zipped, a))
                   ELSE Mix!clamp(memory[a])
<1>4. memory' = [a \in Frame |->
                   IF a \in Mix!simd_len..(Mix!simd_len + (Mix!len - Mix!simd_len) - 1)
                   THEN V(a) ELSE memory[a]]
  BY <1>2, <1>3 DEF Mix!ScalarTail, Mix!ClipTail, Mix!Store
<1>5. ASSUME Fits, NEW a \in 0..(Mix!len - 1) PROVE memory'[a] = Expected(a)
  <2>1. a \in Frame
    BY <1>3, InBuffer, CallFacts DEF Shape
  <2>2. CASE a < Mix!simd_len
    <3>1. memory[a] = Expected(a)
      <4>1. a \in 0..(Mix!simd_len - 1)
        BY <1>3, <2>2
      <4> QED BY <1>1, <1>5, <4>1 DEF Computed, VectorsRight, AfterVectors
    <3> HIDE DEF V
    <3> QED BY <1>3, <1>4, <2>1, <2>2, <3>1
  <2>3. CASE ~ (a < Mix!simd_len)
    <3>1. V(a) = Expected(a)
      <4>1. CASE pc = "tail"
        BY <4>1 DEF Expected
      <4>2. CASE pc = "accumulate"
        <5>1. memory[a] = Mix!Sum(input_idx, a)
          BY <1>3, <1>5, <2>3, <4>2 DEF Computed, TailSums
        <5>2. input_idx = Mix!Zipped
          BY <4>2 DEF Mix!ScalarTail, Mix!ClipTail
        <5> QED BY <4>2, <5>1, <5>2 DEF Expected
      <4> QED BY <1>1, <4>1, <4>2
    <3> HIDE DEF V
    <3> QED BY <1>3, <1>4, <2>1, <2>3, <3>1
  <2> QED BY <2>2, <2>3
<1>6. (Fits' <=> Fits) /\ Mix!len' = Mix!len /\ \A a : Expected(a)' = Expected(a)
  BY <1>1, CallStays
<1>7. Mix!ResultIsReference'
  BY <1>1, <1>2, <1>5, <1>6 DEF Mix!ResultIsReference, Fits, NIn, Expected
<1> QED BY <1>1, <1>7, DoneComputed

LEMMA AccumulateComputed ==
  ASSUME Mix!KernelAssumption, Shape, Computed, Mix!ZeroTail \/ Mix!AccumulateTail
  PROVE  Computed'
<1>1. /\ UNCHANGED <<call, before, at, chunks_left>> /\ pc' = "accumulate"
      /\ pc \in {"masked tail", "accumulate"}
  BY DEF Mix!ZeroTail, Mix!AccumulateTail, Mix!Goto, Mix!loops
<1>2. call.op = "mix" /\ at = Mix!simd_len /\ (pc = "masked tail" => input_idx = 0)
  BY <1>1 DEF Shape, Control, InVectors, AfterVectors
<1>3. memory \in [Frame -> Int] /\ DOMAIN memory = Frame
      /\ Mix!simd_len \in 0..Mix!len /\ Mix!len \in Nat /\ Mix!W \in Nat \ {0}
      /\ Mix!len < Mix!simd_len + Mix!W
  BY FrameFacts, VectorFacts, CallFacts DEF Shape
<1>4. input_idx \in 0..Mix!Zipped /\ Mix!Zipped \in Nat
  BY <1>2, InputsCounted DEF Shape
<1>5. /\ \A a \in 0..(Mix!simd_len - 1) : memory'[a] = memory[a]
      /\ Fits => \A a \in Mix!simd_len..(Mix!len - 1) :
                   memory'[a] = Mix!Sum(input_idx', a)
  <2>0. \A a \in 0..(Mix!len - 1) : a \in Frame
    BY <1>3, InBuffer DEF Shape
  <2>1. CASE Mix!ZeroTail
    <3>1. memory' = [a \in Frame |->
                   IF a \in Mix!simd_len..(Mix!simd_len + (Mix!len - Mix!simd_len) - 1)
                   THEN 0 ELSE memory[a]]
      BY <1>3, <2>1 DEF Mix!ZeroTail, Mix!Store
    <3>2. input_idx' = 0
      BY <1>2, <2>1 DEF Mix!ZeroTail, Mix!loops
    <3>3. \A a : Mix!Sum(0, a) = 0
      BY SumRule
    <3> QED BY <1>3, <2>0, <3>1, <3>2, <3>3
  <2>2. CASE Mix!AccumulateTail
    <3>1. input_idx < Mix!Zipped /\ input_idx' = input_idx + 1 /\ pc = "accumulate"
      BY <2>2 DEF Mix!AccumulateTail
    <3>2. PICK garbage \in Garbage : memory' = Mix!Store(at, Mix!W, LAMBDA a :
             memory[a] + (IF a < Mix!len
                          THEN Mix!Load(input_idx + 1, garbage)[a - at] ELSE 0)
                           * call.volumes[input_idx + 1])
      BY <2>2 DEF Mix!AccumulateTail
    <3> DEFINE k == input_idx + 1
               V(a) == memory[a] + (IF a < Mix!len THEN Mix!Load(k, garbage)[a - at] ELSE 0)
                                     * call.volumes[k]
    <3>3. memory' = [a \in Frame |->
                       IF a \in at..(at + Mix!W - 1) THEN V(a) ELSE memory[a]]
      BY <1>3, <3>2 DEF Mix!Store
    <3>4. ASSUME Fits, NEW a \in Mix!simd_len..(Mix!len - 1)
          PROVE  V(a) = Mix!Sum(k, a)
      <4>1. k \in 1..Mix!Zipped /\ a \in at..(at + Mix!W - 1) /\ a < Mix!len /\ at \in Nat
        BY <1>2, <1>3, <1>4, <3>1, <3>4
      <4>2. Mix!Load(k, garbage)[a - at] * call.volumes[k] = Mix!Scaled(k, a)
        BY <1>2, <3>4, <4>1, LoadScaled DEF Shape, Fits
      <4>3. memory[a] = Mix!Sum(input_idx, a)
        BY <3>1, <3>4 DEF Computed, TailSums
      <4>4. Mix!Sum(k, a) = Mix!Sum(input_idx, a) + Mix!Scaled(k, a)
        BY <1>4, SumRule
      <4>5. V(a) = memory[a] + Mix!Scaled(k, a)
        BY <4>1, <4>2
      <4> QED BY <4>3, <4>4, <4>5
    <3> HIDE DEF V
    <3>5. ASSUME NEW a \in 0..(Mix!simd_len - 1) PROVE memory'[a] = memory[a]
      <4>1. ~ (a \in at..(at + Mix!W - 1)) /\ a \in 0..(Mix!len - 1)
        <5>1. at = Mix!simd_len
          BY <1>2
        <5> QED BY <1>3, <5>1
      <4>2. a \in Frame
        BY <2>0, <4>1
      <4> QED BY <3>3, <4>1, <4>2
    <3>6. ASSUME Fits, NEW a \in Mix!simd_len..(Mix!len - 1)
          PROVE  memory'[a] = Mix!Sum(input_idx', a)
      <4>1. a \in at..(at + Mix!W - 1) /\ a \in Frame
        <5>1. at = Mix!simd_len
          BY <1>2
        <5>2. a \in at..(at + Mix!W - 1) /\ a \in 0..(Mix!len - 1)
          BY <1>3, <5>1
        <5> QED BY <2>0, <5>2
      <4> QED BY <3>1, <3>3, <3>4, <3>6, <4>1
    <3> QED BY <3>5, <3>6
  <2> QED BY <2>1, <2>2
<1>6. /\ (Fits' <=> Fits) /\ Mix!len' = Mix!len /\ Mix!simd_len' = Mix!simd_len
      /\ (\A a : Expected(a)' = Expected(a)) /\ \A n, a : Mix!Sum(n, a)' = Mix!Sum(n, a)
  BY <1>1, CallStays
<1>7. VectorsRight'
  <2>1. VectorsRight
    BY DEF Computed
  <2> QED BY <1>1, <1>5, <1>6, <2>1 DEF VectorsRight, AfterVectors
<1>8. TailSums'
  <2> SUFFICES ASSUME Fits', NEW a \in Mix!simd_len'..(Mix!len' - 1)
               PROVE  memory'[a] = Mix!Sum(input_idx, a)'
    BY DEF TailSums
  <2>1. memory'[a] = Mix!Sum(input_idx', a)
    BY <1>5, <1>6
  <2>2. Mix!Sum(input_idx, a)' = Mix!Sum(input_idx', a)
    BY <1>1 DEF Mix!Sum, Mix!Scaled
  <2> QED BY <2>1, <2>2
<1> QED BY <1>1, <1>7, <1>8
           DEF Computed, VectorSums, ChunksRight, ProductsRight,
        Mix!ResultIsReference

LEMMA ScaleComputed ==
  ASSUME Mix!KernelAssumption, Shape, Computed,
         Mix!ScaleAll \/ Mix!ScaleVector \/ Mix!ScaleTail
  PROVE  Computed'
<1>1. /\ UNCHANGED <<call, before>> /\ pc \in {"scale", "scale all"}
      /\ call.op = "volume"
  <2>1. /\ UNCHANGED <<call, before>> /\ pc \in {"scale", "scale all"}
    BY DEF Mix!ScaleAll, Mix!ScaleVector, Mix!ScaleTail
  <2> QED BY <2>1 DEF Shape, Control
<1>2. memory \in [Frame -> Int] /\ DOMAIN memory = Frame
      /\ Mix!simd_len \in 0..Mix!len /\ Mix!len \in Nat /\ Mix!W \in Nat \ {0}
      /\ at \in 0..Mix!len
  <2>1. at \in 0..Mix!len
    BY DEF Shape, Mix!TypeOK
  <2> QED BY <2>1, FrameFacts, VectorFacts, CallFacts DEF Shape
<1>3. \A a \in 0..(Mix!len - 1) : a \in Frame
  BY <1>2, InBuffer DEF Shape
<1>4. Mix!len' = Mix!len
  BY <1>1, CallStays
<1>5. pc = "scale" =>
        /\ \A a \in 0..(Mix!len - 1) :
              memory[a] = IF a < at THEN before[a] * call.gain ELSE before[a]
        /\ at <= Mix!simd_len
        /\ at < Mix!simd_len => at + Mix!W <= Mix!simd_len
  <2> SUFFICES ASSUME pc = "scale"
               PROVE  /\ \A a \in 0..(Mix!len - 1) :
                           memory[a] = IF a < at THEN before[a] * call.gain ELSE before[a]
                      /\ at <= Mix!simd_len
                      /\ at < Mix!simd_len => at + Mix!W <= Mix!simd_len
    OBVIOUS
  <2>1. PICK n \in 0..Blocks : at = n * Mix!W
    BY DEF Shape, Control
  <2>2. /\ n * Mix!W \in 0..Mix!simd_len
        /\ n * Mix!W < Mix!simd_len => n * Mix!W + Mix!W <= Mix!simd_len
    BY VectorFacts DEF Shape
  <2>3. ProductsRight
    BY DEF Computed
  <2> QED BY <1>2, <2>1, <2>2, <2>3 DEF ProductsRight
<1> DEFINE V(a) == memory[a] * call.gain
<1>6. CASE Mix!ScaleAll
  <2>1. pc' = "done" /\ memory = before
    BY <1>6 DEF Mix!ScaleAll, Mix!Goto, Shape, Control
  <2>2. memory' = [a \in Frame |->
                     IF a \in 0..(0 + Mix!len - 1) THEN V(a) ELSE memory[a]]
    BY <1>2, <1>6 DEF Mix!ScaleAll, Mix!Store
  <2>3. \A a \in 0..(Mix!len - 1) : V(a) = before[a] * call.gain
    BY <2>1
  <2> HIDE DEF V
  <2>4. \A a \in 0..(Mix!len - 1) : memory'[a] = before[a] * call.gain
    BY <1>2, <1>3, <2>2, <2>3
  <2>5. Mix!ResultIsReference'
    BY <1>1, <1>4, <2>4 DEF Mix!ResultIsReference
  <2> QED BY <2>1, <2>5, DoneComputed
<1>7. CASE Mix!ScaleTail
  <2>1. pc = "scale" /\ pc' = "done" /\ at = Mix!simd_len
    <3>1. pc = "scale" /\ pc' = "done" /\ at >= Mix!simd_len
      BY <1>7 DEF Mix!ScaleTail, Mix!Goto
    <3>2. at <= Mix!simd_len
      BY <1>5, <3>1
    <3> QED BY <1>2, <3>1, <3>2
  <2>2. memory' = [a \in Frame |->
                   IF a \in Mix!simd_len..(Mix!simd_len + (Mix!len - Mix!simd_len) - 1)
                   THEN V(a) ELSE memory[a]]
    BY <1>2, <1>7 DEF Mix!ScaleTail, Mix!Store
  <2>3. \A a \in Mix!simd_len..(Mix!len - 1) : V(a) = before[a] * call.gain
    BY <1>2, <1>5, <2>1
  <2> HIDE DEF V
  <2>4. \A a \in 0..(Mix!len - 1) : memory'[a] = before[a] * call.gain
    BY <1>2, <1>3, <1>5, <2>1, <2>2, <2>3
  <2>5. Mix!ResultIsReference'
    BY <1>1, <1>4, <2>4 DEF Mix!ResultIsReference
  <2> QED BY <2>1, <2>5, DoneComputed
<1>8. CASE Mix!ScaleVector
  <2>1. /\ pc = "scale" /\ pc' = "scale" /\ at < Mix!simd_len
        /\ at' = at + Mix!W
    BY <1>8 DEF Mix!ScaleVector
  <2>2. memory' = [a \in Frame |->
                     IF a \in at..(at + Mix!W - 1) THEN V(a) ELSE memory[a]]
    BY <1>2, <1>8 DEF Mix!ScaleVector, Mix!Store
  <2>3. \A a \in at..(at + Mix!W - 1) : V(a) = before[a] * call.gain
    BY <1>2, <1>5, <2>1
  <2> HIDE DEF V
  <2>4. \A a \in 0..(Mix!len - 1) :
          memory'[a] = IF a < at + Mix!W THEN before[a] * call.gain ELSE before[a]
    BY <1>2, <1>3, <1>5, <2>1, <2>2, <2>3
  <2>5. ProductsRight'
    BY <1>1, <1>4, <2>1, <2>4 DEF ProductsRight
  <2> QED BY <2>1, <2>5
             DEF Computed, VectorSums, VectorsRight, TailSums, ChunksRight,
                 AfterVectors,
          Mix!ResultIsReference
<1> QED BY <1>6, <1>7, <1>8

LEMMA QuietComputed ==
  ASSUME Mix!KernelAssumption, Shape, Computed,
         Mix!ChunksDone \/ Mix!InputTooShort \/ Mix!TailTooShort
  PROVE  Computed'
<1>1. CASE Mix!InputTooShort \/ Mix!TailTooShort
  <2>1. pc' = "panicked"
    BY <1>1 DEF Mix!InputTooShort, Mix!TailTooShort, Mix!Goto
  <2> QED BY <2>1, DoneComputed DEF Mix!ResultIsReference
<1>2. CASE Mix!ChunksDone
  <2>1. /\ UNCHANGED <<call, before, memory>> /\ pc = "chunks"
        /\ chunks_left = {} /\ pc' = "done"
    BY <1>2 DEF Mix!ChunksDone, Mix!Goto
  <2>2. call.op = "mix" /\ call.kernel = "scalar"
    <3>1. call.op = "mix" /\ call.kernel \notin Mix!Simd /\ call.kernel \in Mix!Kernels
      BY <2>1, CallFacts DEF Shape, Control
    <3> QED BY <3>1 DEF Mix!KernelAssumption
  <2>3. \A a \in 0..(Mix!len - 1) :
           Mix!len < ParallelFrom \/ a < ChunkSize => memory[a] = Expected(a)
    BY <2>1 DEF Computed, ChunksRight
  <2>4. Mix!len' = Mix!len /\ \A a : Expected(a)' = Expected(a)
    BY <2>1, CallStays
  <2>5. ASSUME NEW a \in 0..(Mix!len - 1)
        PROVE  (Mix!len >= ParallelFrom /\ a >= ChunkSize) \/ memory'[a] = Expected(a)'
    <3>1. Mix!len \in Nat /\ ParallelFrom \in Nat /\ ChunkSize \in Nat
      BY CallFacts DEF Shape, Mix!KernelAssumption
    <3> QED BY <2>1, <2>3, <2>4, <3>1
  <2>6. Mix!ResultIsReference'
    BY <2>1, <2>2, <2>4, <2>5 DEF Mix!ResultIsReference, Expected
  <2> QED BY <2>1, <2>6, DoneComputed
<1> QED BY <1>1, <1>2

LEMMA ComputedKept ==
  ASSUME Mix!KernelAssumption, Shape, Computed, UNCHANGED Mix!vars
  PROVE  Computed'
<1>1. UNCHANGED <<call, before, memory, input_idx, at, chunks_left, pc>>
  BY DEF Mix!vars
<1>2. VectorSums' /\ VectorsRight' /\ TailSums' /\ ChunksRight' /\ ProductsRight'
  BY <1>1, CallStays
     DEF Computed, VectorSums, VectorsRight, TailSums, ChunksRight,
         ProductsRight, InputsDone
<1>3. Mix!ResultIsReference'
  <2>1. Mix!ResultIsReference
    BY DEF Computed
  <2>2. /\ Mix!len' = Mix!len /\ (Mix!Matching' <=> Mix!Matching)
        /\ \A a : Mix!clamp(Mix!Sum(Mix!Zipped, a))' = Mix!clamp(Mix!Sum(Mix!Zipped, a))
    BY <1>1, CallStays DEF Expected
  <2>3. CASE pc # "done"
    BY <1>1, <2>3 DEF Mix!ResultIsReference
  <2>4. CASE pc = "done"
    <3>1. CASE call.op = "mix"
      BY <1>1, <2>1, <2>2, <2>4, <3>1 DEF Mix!ResultIsReference
    <3>2. CASE call.op = "volume"
      BY <1>1, <2>1, <2>2, <2>4, <3>2 DEF Mix!ResultIsReference
    <3>3. CASE call.op = "gate"
      BY <1>1, <2>1, <2>2, <2>4, <3>3 DEF Mix!ResultIsReference
    <3> QED BY <3>1, <3>2, <3>3, CallFacts DEF Shape
  <2> QED BY <2>3, <2>4
<1> QED BY <1>2, <1>3 DEF Computed

LEMMA NextComputed ==
  ASSUME Mix!KernelAssumption, Shape, Computed, [Mix!Next]_(Mix!vars)
  PROVE  Computed'
BY StartComputed, FastComputed, ChunkComputed, VectorComputed, TurnComputed,
   TailComputed,
   AccumulateComputed, ScaleComputed, QuietComputed, ComputedKept
   DEF Mix!Next, Mix!Mix, Mix!Volume

(* Whatever the processor, audio_mix gives the clamped sum of the inputs,  *)
(* apply_volume the products and apply_gate the silence, for any width,    *)
(* length, inputs, volumes and chunks: with matching inputs other than a   *)
(* single one for the SIMD kernels, any for the scalar one, of whose       *)
(* parallel chunks the first is meant.                                     *)
THEOREM KernelsCompute ==
  ASSUME Mix!KernelAssumption PROVE Mix!Spec => []Mix!ResultIsReference
<1>1. Mix!Init => Shape /\ Computed
  BY InitShape, InitComputed
<1>2. Shape /\ Computed /\ [Mix!Next]_(Mix!vars) => (Shape /\ Computed)'
  BY NextShape, NextComputed
<1>3. Computed => Mix!ResultIsReference
  BY DEF Computed
<1> QED BY <1>1, <1>2, <1>3, PTL DEF Mix!Spec

-----------------------------------------------------------------------------
(* The jobs of FilterJobs.                                                 *)

(* The extras that get a chain of the graph, and those that become inputs  *)
(* of the command, while no file changes.                                  *)
Extras == Len(job.extras)

Chained ==
  {i \in 1..Extras :
     CASE job.kind = "bake" -> job.extras[i].path \in files
       [] job.kind = "assembly" -> job.extras[i].path # Absent
       [] OTHER -> TRUE}
Given ==
  {i \in 1..Extras :
     /\ job.extras[i].path \in files
     /\ job.kind = "overlay" => job.extras[i].length > 0 /\ job.extras[i].start >= 0}

(* A list built by looking at the extras 1..n in turn: 0, the base, and    *)
(* those in S.  The history g has the list after each of them.             *)
Steps(g, n, S) ==
  /\ g \in [0..n -> Seq(Nat)] /\ g[0] = <<0>>
  /\ \A k \in 1..n : g[k] = IF k \in S THEN Append(g[k - 1], k) ELSE g[k - 1]
Listed(l, n, S) == \E g : Steps(g, n, S) /\ l = g[n]

LEMMA ListStart ==
  ASSUME NEW S
  PROVE  Listed(<<0>>, 0, S)
<1> DEFINE g == [k \in 0..0 |-> <<0>>]
<1>1. <<0>> \in Seq(Nat)
  OBVIOUS
<1>2. g \in [0..0 -> Seq(Nat)] /\ g[0] = <<0>>
  BY <1>1
<1> HIDE DEF g
<1>3. Steps(g, 0, S)
  BY <1>2 DEF Steps
<1> QED BY <1>2, <1>3 DEF Listed

LEMMA ListNext ==
  ASSUME NEW S, NEW n \in Nat, NEW l, Listed(l, n, S)
  PROVE  Listed(IF n + 1 \in S THEN Append(l, n + 1) ELSE l, n + 1, S)
<1> DEFINE next == IF n + 1 \in S THEN Append(l, n + 1) ELSE l
<1>1. PICK g : Steps(g, n, S) /\ l = g[n]
  BY DEF Listed
<1> DEFINE h == [k \in 0..(n + 1) |-> IF k = n + 1 THEN next ELSE g[k]]
<1>2. l \in Seq(Nat)
  BY <1>1 DEF Steps
<1>3. next \in Seq(Nat)
  BY <1>2, AppendProperties
<1>4. h \in [0..(n + 1) -> Seq(Nat)] /\ h[0] = <<0>> /\ h[n + 1] = next
  <2> HIDE DEF next
  <2>1. ASSUME NEW k \in 0..(n + 1) PROVE h[k] \in Seq(Nat)
    <3>1. CASE k = n + 1
      BY <1>3, <3>1
    <3>2. CASE k # n + 1
      <4>1. k \in 0..n
        BY <3>2
      <4> QED BY <1>1, <3>2, <4>1 DEF Steps
    <3> QED BY <3>1, <3>2
  <2>2. h[0] = <<0>>
    BY <1>1 DEF Steps
  <2>3. h[n + 1] = next
    OBVIOUS
  <2> QED BY <2>1, <2>2, <2>3
<1>5. ASSUME NEW k \in 1..(n + 1)
      PROVE  h[k] = IF k \in S THEN Append(h[k - 1], k) ELSE h[k - 1]
  <2>1. CASE k = n + 1
    <3>1. h[k - 1] = g[n] /\ h[k] = next
      BY <2>1
    <3> QED BY <1>1, <2>1, <3>1
  <2>2. CASE k # n + 1
    <3>1. k \in 1..n /\ h[k] = g[k] /\ h[k - 1] = g[k - 1]
      BY <2>2
    <3> QED BY <1>1, <3>1 DEF Steps
  <2> QED BY <2>1, <2>2
<1> HIDE DEF h, next
<1>6. Steps(h, n + 1, S)
  BY <1>4, <1>5 DEF Steps
<1>7. Listed(next, n + 1, S)
  BY <1>4, <1>6 DEF Listed
<1> QED BY <1>7 DEF next

(* Of two lists the one that takes more of the extras is longer, unless    *)
(* they are the same.                                                      *)
LEMMA ListsCompared ==
  ASSUME NEW T, NEW S \in SUBSET T, NEW n \in Nat, NEW l, NEW m,
         Listed(l, n, S), Listed(m, n, T)
  PROVE  Len(l) <= Len(m) /\ (Len(m) <= Len(l) => l = m)
<1>1. PICK g : Steps(g, n, S) /\ l = g[n]
  BY DEF Listed
<1>2. PICK h : Steps(h, n, T) /\ m = h[n]
  BY DEF Listed
<1>3. \A k \in 0..n : g[k] \in Seq(Nat) /\ h[k] \in Seq(Nat)
                      /\ Len(g[k]) \in Nat /\ Len(h[k]) \in Nat
  BY <1>1, <1>2, LenProperties DEF Steps
<1> DEFINE Ns == {k \in Nat : k <= n =>
                    Len(g[k]) <= Len(h[k]) /\ (Len(h[k]) <= Len(g[k]) => g[k] = h[k])}
<1>4. 0 \in Ns
  <2>1. g[0] = <<0>> /\ h[0] = <<0>>
    BY <1>1, <1>2 DEF Steps
  <2>2. Len(g[0]) <= Len(h[0]) /\ g[0] = h[0]
    BY <2>1
  <2> QED BY <2>2
<1>5. ASSUME NEW k \in Ns PROVE k + 1 \in Ns
  <2> SUFFICES ASSUME k + 1 <= n
               PROVE  /\ Len(g[k + 1]) <= Len(h[k + 1])
                      /\ Len(h[k + 1]) <= Len(g[k + 1]) => g[k + 1] = h[k + 1]
    OBVIOUS
  <2> DEFINE a == g[k]
             b == h[k]
  <2>1. /\ k + 1 \in 1..n /\ k \in 0..n /\ (k + 1) - 1 = k
        /\ Len(a) <= Len(b) /\ (Len(b) <= Len(a) => a = b)
        /\ a \in Seq(Nat) /\ b \in Seq(Nat) /\ Len(a) \in Nat /\ Len(b) \in Nat
    BY <1>3
  <2>2. /\ g[k + 1] = IF k + 1 \in S THEN Append(a, k + 1) ELSE a
        /\ h[k + 1] = IF k + 1 \in T THEN Append(b, k + 1) ELSE b
    BY <1>1, <1>2, <2>1 DEF Steps
  <2> HIDE DEF a, b
  <2>3. Len(Append(a, k + 1)) = Len(a) + 1 /\ Len(Append(b, k + 1)) = Len(b) + 1
    BY <2>1, AppendProperties
  <2>4. CASE k + 1 \in S
    <3>1. k + 1 \in T
      BY <2>4
    <3> QED BY <2>1, <2>2, <2>3, <2>4, <3>1
  <2>5. CASE k + 1 \notin S /\ k + 1 \in T
    <3>1. g[k + 1] = a /\ h[k + 1] = Append(b, k + 1)
      BY <2>2, <2>5
    <3>2. Len(g[k + 1]) < Len(h[k + 1]) /\ Len(h[k + 1]) \in Nat
      BY <2>1, <2>3, <3>1
    <3> QED BY <2>1, <3>1, <3>2
  <2>6. CASE k + 1 \notin T
    BY <2>1, <2>2, <2>6
  <2> QED BY <2>4, <2>5, <2>6
<1>6. Ns = Nat
  <2> HIDE DEF Ns
  <2>1. Ns \in SUBSET Nat
    BY DEF Ns
  <2> QED BY <1>4, <1>5, <2>1, NaturalsFrom
<1> QED BY <1>1, <1>2, <1>6

-----------------------------------------------------------------------------
Preparing == {"base", "extras", "base again"}

(* While no file changes, the graph numbers the extras with a chain, the   *)
(* command has those that are inputs; once ffmpeg ran, these are the same. *)
Lists ==
  ~changed =>
    /\ stage \in Preparing => pads = <<0>> /\ inputs = <<0>>
    /\ stage = "filter" =>
         /\ Listed(pads, extra - 1, Chained)
         /\ job.kind # "overlay" => inputs = <<0>>
         /\ job.kind = "overlay" => Listed(inputs, Extras, Given)
    /\ stage = "inputs" =>
         /\ Listed(inputs, extra - 1, Given)
         /\ job.kind = "overlay" => pads = <<0>>
         /\ job.kind # "overlay" => Listed(pads, Extras, Chained)
    /\ stage = "run" =>
         Listed(pads, Extras, Chained) /\ Listed(inputs, Extras, Given)
    /\ stage = "verify" \/ result = "ok" => inputs = pads

(* Changes count from the first check on; what was verified is there.      *)
Outcome ==
  /\ stage = "base" => ~changed
  /\ stage \in {"filter", "inputs"} => extra = 1 \/ extra <= Extras
  /\ stage = "verify" => output \in {"made", "too small"}
  /\ result = "ok" => stage = "done" /\ output = "made"

FilterInv == Filters!TypeOK /\ Outcome /\ Lists

(* The guards of the job, in terms of the two sets: an input of the        *)
(* command always has a chain, since it exists.                            *)
LEMMA JobFacts ==
  ASSUME Filters!JobsAssumption, Filters!TypeOK
  PROVE  /\ job.extras \in Seq(Filters!ExtraOf) /\ Extras \in Nat
         /\ DOMAIN job.extras = 1..Extras
         /\ Filters!LastExtra <=> extra >= Extras
         /\ extra \in Nat /\ extra >= 1
         /\ Given \subseteq Chained /\ job.kind \in Filters!Kinds
         /\ extra \in 1..Extras =>
              /\ Filters!HasChain <=> extra \in Chained
              /\ Filters!IsInput <=> extra \in Given
<1>1. job \in Jobs /\ files \subseteq Paths /\ Absent \notin Paths
  BY DEF Filters!TypeOK, Filters!JobsAssumption
<1>2. job.extras \in Seq(Filters!ExtraOf) /\ job.kind \in Filters!Kinds
  BY <1>1 DEF Filters!JobsAssumption
<1>3. Extras \in Nat /\ DOMAIN job.extras = 1..Extras
  BY <1>2, LenProperties DEF Extras
<1>4. Filters!LastExtra <=> extra >= Extras
  BY DEF Filters!LastExtra, Extras
<1>5. extra \in Nat /\ extra >= 1
  <2>1. extra \in 1..Len(job.extras) + 1
    BY DEF Filters!TypeOK
  <2>2. Len(job.extras) \in Nat
    BY <1>3 DEF Extras
  <2> QED BY <2>1, <2>2
<1>6. Given \subseteq Chained
  BY <1>1 DEF Given, Chained
<1>7. extra \in 1..Extras =>
              /\ Filters!HasChain <=> extra \in Chained
              /\ Filters!IsInput <=> extra \in Given
  BY DEF Given, Chained, Filters!HasChain, Filters!IsInput, Filters!Extra, Filters!kind, Filters!Exists
<1> QED BY <1>2, <1>3, <1>4, <1>5, <1>6, <1>7

LEMMA InitFilter ==
  ASSUME Filters!JobsAssumption, Filters!Init PROVE FilterInv
<1>1. /\ job \in Jobs /\ files \in SUBSET Paths /\ extra = 1 /\ pads = <<0>> /\ inputs = <<0>>
      /\ stage \in {"filter", "base"} /\ (stage = "filter" => job.kind \in Filters!Builders)
      /\ output \in {"none", "old"} /\ result = "none" /\ changes = 0 /\ changed = FALSE
  BY DEF Filters!Init, Filters!kind
<1>2. Len(job.extras) \in Nat
  BY <1>1, LenProperties DEF Filters!JobsAssumption
<1>3. <<0>> \in Seq(0..Len(job.extras))
  <2>1. 0 \in 0..Len(job.extras)
    BY <1>2
  <2> QED BY <2>1
<1>4. Filters!TypeOK
  <2>1. extra \in 1..Len(job.extras) + 1 /\ changes \in 0..MaxChanges
    BY <1>1, <1>2 DEF Filters!JobsAssumption
  <2>2. pads \in Seq(0..Len(job.extras)) /\ inputs \in Seq(0..Len(job.extras))
    BY <1>1, <1>3
  <2>3. /\ stage \in {"base", "extras", "base again", "filter", "inputs", "none",
                       "run", "verify", "done"}
        /\ output \in {"none", "old", "partial", "too small", "made"}
        /\ result \in {"none", "error", "ok", "text"}
        /\ changed \in BOOLEAN
    BY <1>1
  <2> QED BY <1>1, <2>1, <2>2, <2>3 DEF Filters!TypeOK
<1>5. Outcome
  BY <1>1 DEF Outcome
<1>6. Listed(pads, extra - 1, Chained)
  BY <1>1, ListStart
<1>7. Lists
  BY <1>1, <1>6 DEF Lists, Filters!Builders
<1> QED BY <1>4, <1>5, <1>7 DEF FilterInv

(* The definitions read the job and the files only. *)
LEMMA SameSets ==
  ASSUME job' = job, files' = files
  PROVE  Extras' = Extras /\ Chained' = Chained /\ Given' = Given
BY DEF Extras, Chained, Given

LEMMA FailFilter ==
  ASSUME Filters!JobsAssumption, FilterInv, Filters!Fail,
         output' \in {"none", "old", "partial", "too small", "made"}
  PROVE  FilterInv'
<1>1. /\ result' = "error" /\ stage' = "done"
      /\ UNCHANGED <<job, files, extra, pads, inputs, graph, changes, changed>>
  BY DEF Filters!Fail, Filters!build
<1>2. Filters!TypeOK'
  BY <1>1 DEF FilterInv, Filters!TypeOK
<1> QED BY <1>1, <1>2 DEF FilterInv, Outcome, Lists, Preparing

LEMMA FailingSteps ==
  ASSUME Filters!JobsAssumption, FilterInv,
         Filters!NoBase \/ Filters!RejectExtra \/ Filters!OffsetTooLong
           \/ Filters!NoOverlays \/ Filters!FfmpegFails
  PROVE  FilterInv'
<1>1. Filters!Fail /\ output' \in {output, "partial"}
  BY DEF Filters!NoBase, Filters!RejectExtra, Filters!OffsetTooLong, Filters!NoOverlays,
         Filters!FfmpegFails
<1>2. output' \in {"none", "old", "partial", "too small", "made"}
  BY <1>1 DEF FilterInv, Filters!TypeOK
<1> QED BY <1>1, <1>2, FailFilter

LEMMA PreparingSteps ==
  ASSUME Filters!JobsAssumption, FilterInv, Filters!HasBase \/ Filters!AcceptExtra
  PROVE  FilterInv'
<1>1. /\ UNCHANGED <<job, files, output, result, changes, changed, pads, inputs, graph>>
      /\ stage \in Preparing
  BY DEF Filters!HasBase, Filters!AcceptExtra, Filters!Keep, Filters!build, Preparing
<1>2. /\ stage' \in {"extras", "base again", "filter", "inputs"}
      /\ extra' \in 1..(Extras + 1)
      /\ stage' \in {"filter", "inputs"} => extra' = 1
      /\ stage' = "inputs" => job.kind = "overlay"
      /\ stage' = "filter" => job.kind # "overlay"
  <2>1. CASE Filters!HasBase
    <3>1. extra' = 1 /\ stage' \in {"extras", "filter", "inputs"}
          /\ (stage' = "inputs" => job.kind = "overlay")
          /\ (stage' = "filter" => job.kind # "overlay")
      BY <2>1 DEF Filters!HasBase, Filters!Goto, Filters!kind
    <3>2. Extras \in Nat
      BY JobFacts DEF FilterInv
    <3>3. extra' \in 1..(Extras + 1)
      BY <3>1, <3>2
    <3> QED BY <3>1, <3>3
  <2>2. CASE Filters!AcceptExtra
    <3>1. Extras \in Nat /\ extra \in Nat /\ extra >= 1 /\ (Filters!LastExtra <=> extra >= Extras)
      BY JobFacts DEF FilterInv
    <3>2. stage = "extras"
      BY <2>2 DEF Filters!AcceptExtra
    <3>3. CASE Filters!LastExtra
      <4>1. extra' = 1 /\ stage' = (IF job.kind = "bake" THEN "filter" ELSE "base again")
        BY <2>2, <3>3 DEF Filters!AcceptExtra, Filters!NextExtra, Filters!Goto, Filters!kind
      <4>2. extra' \in 1..(Extras + 1)
        <5>1. Extras \in Nat /\ extra' = 1
          BY <3>1, <4>1
        <5> QED BY <5>1
      <4>3. job.kind = "bake" => job.kind # "overlay"
        OBVIOUS
      <4>4. stage' \in {"filter", "base again"} /\ (stage' = "filter" => job.kind = "bake")
        BY <4>1
      <4> QED BY <4>1, <4>2, <4>3, <4>4
    <3>4. CASE ~Filters!LastExtra
      <4>1. extra' = extra + 1 /\ stage' = "extras"
        BY <2>2, <3>2, <3>4 DEF Filters!AcceptExtra, Filters!NextExtra, Filters!Goto
      <4> QED BY <3>1, <3>4, <4>1
    <3> QED BY <3>3, <3>4
  <2> QED BY <2>1, <2>2
<1>3. Filters!TypeOK'
  <2>1. /\ extra' \in 1..Len(job.extras) + 1
        /\ stage' \in {"base", "extras", "base again", "filter", "inputs", "none",
                        "run", "verify", "done"}
    BY <1>2 DEF Extras
  <2> QED BY <1>1, <2>1 DEF FilterInv, Filters!TypeOK
<1>4. Extras' = Extras /\ Chained' = Chained /\ Given' = Given
  BY <1>1, SameSets
<1>5. result # "ok"
  BY <1>1 DEF FilterInv, Outcome, Preparing
<1>6. Lists'
  <2>1. ~changed' => pads' = <<0>> /\ inputs' = <<0>>
    BY <1>1 DEF FilterInv, Lists
  <2>2. ASSUME stage' \in {"filter", "inputs"} PROVE extra' - 1 = 0
    <3>1. extra' = 1
      BY <1>2, <2>2
    <3> QED BY <3>1
  <2>3. Listed(<<0>>, 0, Chained) /\ Listed(<<0>>, 0, Given)
    BY ListStart
  <2> QED BY <1>1, <1>2, <1>4, <1>5, <2>1, <2>2, <2>3 DEF Lists, Preparing
<1> QED BY <1>1, <1>2, <1>3, <1>5, <1>6 DEF FilterInv, Outcome

(* One more extra for one of the two lists. *)
LEMMA OneExtra ==
  ASSUME NEW S, NEW l, NEW next, NEW Has, Extras \in Nat, extra \in Nat, extra >= 1,
         extra = 1 \/ extra <= Extras,
         extra \in 1..Extras => (Has <=> extra \in S),
         next = IF extra \in 1..Extras /\ Has THEN Append(l, extra) ELSE l,
         Listed(l, extra - 1, S)
  PROVE  /\ extra >= Extras => Listed(next, Extras, S)
         /\ extra < Extras => Listed(next, extra, S)
<1>1. CASE extra \in 1..Extras
  <2>1. extra - 1 \in Nat /\ (extra - 1) + 1 = extra
    BY <1>1
  <2>2. Listed(IF (extra - 1) + 1 \in S THEN Append(l, (extra - 1) + 1) ELSE l, (extra - 1) + 1, S)
    BY <2>1, ListNext
  <2>3. next = IF extra \in S THEN Append(l, extra) ELSE l
    BY <1>1
  <2>4. Listed(next, extra, S)
    BY <2>1, <2>2, <2>3
  <2>5. extra >= Extras => extra = Extras
    BY <1>1
  <2> QED BY <2>4, <2>5
<1>2. CASE extra \notin 1..Extras
  <2>1. extra = 1 /\ Extras = 0 /\ extra - 1 = 0 /\ next = l
    BY <1>2
  <2> QED BY <2>1
<1> QED BY <1>1, <1>2

(* The value of the next extra, and of a list with one more. *)
LEMMA ExtraMoves ==
  ASSUME Filters!JobsAssumption, Filters!TypeOK, NEW p, Filters!NextExtra(p, 1)
  PROVE  /\ extra >= Extras => stage' = p /\ extra' = 1
         /\ extra < Extras => stage' = stage /\ extra' = extra + 1
         /\ extra' \in 1..(Extras + 1) /\ (extra' = 1 \/ extra' <= Extras)
<1>1. Extras \in Nat /\ extra \in Nat /\ extra >= 1 /\ (Filters!LastExtra <=> extra >= Extras)
  BY JobFacts
<1>2. /\ Filters!LastExtra => stage' = p /\ extra' = 1
      /\ ~Filters!LastExtra => stage' = stage /\ extra' = extra + 1
  BY DEF Filters!NextExtra, Filters!Goto
<1> QED BY <1>1, <1>2

LEMMA Longer ==
  ASSUME Filters!JobsAssumption, Filters!TypeOK, NEW l \in Seq(0..Extras), extra \in 1..Extras
  PROVE  Append(l, extra) \in Seq(0..Extras)
<1>1. extra \in 0..Extras
  BY JobFacts
<1> QED BY <1>1, AppendProperties

LEMMA FilterStep ==
  ASSUME Filters!JobsAssumption, FilterInv, Filters!Filter PROVE FilterInv'
<1> DEFINE Has == Filters!HasChain
           after == CASE job.kind = "overlay" -> "run"
                      [] job.kind \in Filters!Builders -> "done"
                      [] OTHER -> "inputs"
<1>1. /\ stage = "filter" /\ UNCHANGED <<job, files, inputs, output, changes, changed>>
      /\ result' \in {result, "text"}
      /\ pads' = IF extra \in DOMAIN job.extras /\ Filters!HasChain THEN Append(pads, extra) ELSE pads
  BY DEF Filters!Filter
<1>2. Filters!NextExtra(after, 1)
  BY DEF Filters!Filter, Filters!kind
<1>3. /\ Extras \in Nat /\ DOMAIN job.extras = 1..Extras /\ extra \in Nat /\ extra >= 1
      /\ (extra \in 1..Extras => (Filters!HasChain <=> extra \in Chained))
      /\ Filters!TypeOK /\ Lists /\ Outcome
  BY JobFacts DEF FilterInv
<1>4. after \in {"run", "done", "inputs"}
      /\ (after = "run" => job.kind = "overlay") /\ (after = "inputs" => job.kind # "overlay")
  BY DEF Filters!Builders
<1> HIDE DEF after, Has
<1>5. /\ extra >= Extras => stage' = after /\ extra' = 1
      /\ extra < Extras => stage' = "filter" /\ extra' = extra + 1
      /\ extra' \in 1..(Extras + 1) /\ (extra' = 1 \/ extra' <= Extras)
  BY <1>1, <1>2, <1>3, ExtraMoves
<1>6. extra = 1 \/ extra <= Extras
  BY <1>1, <1>3 DEF Outcome
<1>7. result # "ok" /\ result' # "ok"
  BY <1>1, <1>3 DEF Outcome
<1>8. stage' \in {"filter", "run", "done", "inputs"}
  BY <1>3, <1>4, <1>5
<1>9. Filters!TypeOK'
  <2>1. pads' \in Seq(0..Len(job.extras))
    <3>1. pads \in Seq(0..Extras)
      BY <1>3 DEF Filters!TypeOK, Extras
    <3>2. pads' = pads \/ (extra \in 1..Extras /\ pads' = Append(pads, extra))
      BY <1>1, <1>3
    <3>3. pads' \in Seq(0..Extras)
      BY <1>3, <3>1, <3>2, Longer
    <3> QED BY <3>3 DEF Extras
  <2>2. result' \in {"none", "error", "ok", "text"}
    BY <1>1, <1>3 DEF Filters!TypeOK
  <2>3. extra' \in 1..Len(job.extras) + 1
    BY <1>5 DEF Extras
  <2>4. stage' \in {"base", "extras", "base again", "filter", "inputs", "none",
                    "run", "verify", "done"}
    BY <1>8
  <2> QED BY <1>1, <1>3, <2>1, <2>2, <2>3, <2>4 DEF Filters!TypeOK
<1>10. Extras' = Extras /\ Chained' = Chained /\ Given' = Given
  BY <1>1, SameSets
<1>11. Lists'
  <2> SUFFICES ASSUME ~changed' PROVE Lists'
    BY DEF Lists
  <2>1. /\ Listed(pads, extra - 1, Chained)
        /\ job.kind # "overlay" => inputs = <<0>>
        /\ job.kind = "overlay" => Listed(inputs, Extras, Given)
    BY <1>1, <1>3 DEF Lists
  <2>2. pads' = IF extra \in 1..Extras /\ Filters!HasChain THEN Append(pads, extra) ELSE pads
    BY <1>1, <1>3
  <2>3. /\ extra >= Extras => Listed(pads', Extras, Chained)
        /\ extra < Extras => Listed(pads', extra, Chained)
    BY <1>3, <1>6, <2>1, <2>2, OneExtra
  <2>4. CASE extra < Extras
    <3>1. stage' = "filter" /\ extra' - 1 = extra
      BY <1>3, <1>5, <2>4
    <3>2. Listed(pads', extra' - 1, Chained)
      BY <2>3, <2>4, <3>1
    <3> QED BY <1>1, <1>7, <1>10, <2>1, <3>1, <3>2 DEF Lists, Preparing
  <2>5. CASE extra >= Extras
    <3>1. stage' = after /\ extra' - 1 = 0
      BY <1>3, <1>5, <2>5
    <3>2. Listed(<<0>>, 0, Given)
      BY ListStart
    <3>3. Listed(pads', Extras, Chained)
      BY <2>3, <2>5
    <3> QED BY <1>1, <1>4, <1>7, <1>10, <2>1, <3>1, <3>2, <3>3 DEF Lists, Preparing
  <2> QED BY <1>3, <2>4, <2>5
<1>12. Outcome'
  BY <1>5, <1>7, <1>8, <1>10 DEF Outcome
<1> QED BY <1>9, <1>11, <1>12 DEF FilterInv

LEMMA InputStep ==
  ASSUME Filters!JobsAssumption, FilterInv, Filters!Input PROVE FilterInv'
<1> DEFINE after == IF job.kind # "overlay" THEN "run"
                    ELSE IF inputs' = <<0>> THEN "none" ELSE "filter"
<1>1. /\ stage = "inputs" /\ UNCHANGED <<job, files, pads, output, result, changes, changed>>
      /\ inputs' = IF extra \in DOMAIN job.extras /\ Filters!IsInput
                   THEN Append(inputs, extra) ELSE inputs
  BY DEF Filters!Input, Filters!Keep
<1>2. Filters!NextExtra(after, 1)
  BY DEF Filters!Input, Filters!kind
<1>3. /\ Extras \in Nat /\ DOMAIN job.extras = 1..Extras /\ extra \in Nat /\ extra >= 1
      /\ (extra \in 1..Extras => (Filters!IsInput <=> extra \in Given))
      /\ Filters!TypeOK /\ Lists /\ Outcome
  BY JobFacts DEF FilterInv
<1>4. after \in {"run", "none", "filter"}
      /\ (after = "run" => job.kind # "overlay") /\ (after = "filter" => job.kind = "overlay")
  OBVIOUS
<1> HIDE DEF after
<1>5. /\ extra >= Extras => stage' = after /\ extra' = 1
      /\ extra < Extras => stage' = "inputs" /\ extra' = extra + 1
      /\ extra' \in 1..(Extras + 1) /\ (extra' = 1 \/ extra' <= Extras)
  BY <1>1, <1>2, <1>3, ExtraMoves
<1>6. extra = 1 \/ extra <= Extras
  BY <1>1, <1>3 DEF Outcome
<1>7. result # "ok" /\ result' # "ok"
  BY <1>1, <1>3 DEF Outcome
<1>8. stage' \in {"filter", "run", "none", "inputs"}
  BY <1>3, <1>4, <1>5
<1>9. Filters!TypeOK'
  <2>1. inputs' \in Seq(0..Len(job.extras))
    <3>1. inputs \in Seq(0..Extras)
      BY <1>3 DEF Filters!TypeOK, Extras
    <3>2. inputs' = inputs \/ (extra \in 1..Extras /\ inputs' = Append(inputs, extra))
      BY <1>1, <1>3
    <3>3. inputs' \in Seq(0..Extras)
      BY <1>3, <3>1, <3>2, Longer
    <3> QED BY <3>3 DEF Extras
  <2>2. extra' \in 1..Len(job.extras) + 1
    BY <1>5 DEF Extras
  <2>3. stage' \in {"base", "extras", "base again", "filter", "inputs", "none",
                    "run", "verify", "done"}
    BY <1>8
  <2> QED BY <1>1, <1>3, <2>1, <2>2, <2>3 DEF Filters!TypeOK
<1>10. Extras' = Extras /\ Chained' = Chained /\ Given' = Given
  BY <1>1, SameSets
<1>11. Lists'
  <2> SUFFICES ASSUME ~changed' PROVE Lists'
    BY DEF Lists
  <2>1. /\ Listed(inputs, extra - 1, Given)
        /\ job.kind = "overlay" => pads = <<0>>
        /\ job.kind # "overlay" => Listed(pads, Extras, Chained)
    BY <1>1, <1>3 DEF Lists
  <2>2. inputs' = IF extra \in 1..Extras /\ Filters!IsInput THEN Append(inputs, extra) ELSE inputs
    BY <1>1, <1>3
  <2>3. /\ extra >= Extras => Listed(inputs', Extras, Given)
        /\ extra < Extras => Listed(inputs', extra, Given)
    BY <1>3, <1>6, <2>1, <2>2, OneExtra
  <2>4. CASE extra < Extras
    <3>1. stage' = "inputs" /\ extra' - 1 = extra
      BY <1>3, <1>5, <2>4
    <3>2. Listed(inputs', extra' - 1, Given)
      BY <2>3, <2>4, <3>1
    <3> QED BY <1>1, <1>7, <1>10, <2>1, <3>1, <3>2 DEF Lists, Preparing
  <2>5. CASE extra >= Extras
    <3>1. stage' = after /\ extra' - 1 = 0
      BY <1>3, <1>5, <2>5
    <3>2. Listed(<<0>>, 0, Chained)
      BY ListStart
    <3>3. Listed(inputs', Extras, Given)
      BY <2>3, <2>5
    <3> QED BY <1>1, <1>4, <1>7, <1>10, <2>1, <3>1, <3>2, <3>3 DEF Lists, Preparing
  <2> QED BY <1>3, <2>4, <2>5
<1>12. Outcome'
  BY <1>5, <1>7, <1>8, <1>10 DEF Outcome
<1> QED BY <1>9, <1>11, <1>12 DEF FilterInv

(* ffmpeg makes an output only if it has an input for each number; then    *)
(* the lists, which say which extra each number stands for, are the same.  *)
LEMMA FfmpegStep ==
  ASSUME Filters!JobsAssumption, FilterInv, Filters!Ffmpeg PROVE FilterInv'
<1>1. /\ stage = "run" /\ stage' = "verify" /\ extra' = 1 /\ output' \in {"made", "too small"}
      /\ UNCHANGED <<job, files, pads, inputs, graph, result, changes, changed>>
      /\ Len(pads) <= Len(inputs)
  BY DEF Filters!Ffmpeg, Filters!Goto, Filters!build, Filters!Runnable
<1>2. Extras \in Nat /\ Given \subseteq Chained /\ Filters!TypeOK /\ Lists /\ Outcome
  BY JobFacts DEF FilterInv
<1>3. Filters!TypeOK'
  <2>1. extra' \in 1..Len(job.extras) + 1
    <3>1. extra' = 1 /\ Extras \in Nat
      BY <1>1, <1>2
    <3>2. extra' \in 1..Extras + 1
      BY <3>1
    <3> QED BY <3>2 DEF Extras
  <2> QED BY <1>1, <1>2, <2>1 DEF Filters!TypeOK
<1>4. Lists'
  <2> SUFFICES ASSUME ~changed' PROVE Lists'
    BY DEF Lists
  <2>1. Listed(pads, Extras, Chained) /\ Listed(inputs, Extras, Given)
    BY <1>1, <1>2 DEF Lists
  <2>2. inputs = pads
    BY <1>1, <1>2, <2>1, ListsCompared
  <2> QED BY <1>1, <2>2 DEF Lists, Preparing
<1>5. Outcome'
  BY <1>1, <1>2 DEF Outcome
<1> QED BY <1>3, <1>4, <1>5 DEF FilterInv

LEMMA VerifyStep ==
  ASSUME Filters!JobsAssumption, FilterInv, Filters!Verify PROVE FilterInv'
<1>1. /\ stage = "verify" /\ stage' = "done" /\ extra' = 1
      /\ UNCHANGED <<job, files, pads, inputs, graph, output, changes, changed>>
      /\ result' = IF output \in {"none", "too small"} THEN "error" ELSE "ok"
  BY DEF Filters!Verify, Filters!Goto, Filters!build
<1>2. Extras \in Nat /\ Filters!TypeOK /\ Lists /\ Outcome
  BY JobFacts DEF FilterInv
<1>3. Filters!TypeOK'
  <2>1. extra' \in 1..Len(job.extras) + 1
    <3>1. extra' = 1 /\ Extras \in Nat
      BY <1>1, <1>2
    <3>2. extra' \in 1..Extras + 1
      BY <3>1
    <3> QED BY <3>2 DEF Extras
  <2> QED BY <1>1, <1>2, <2>1 DEF Filters!TypeOK
<1>4. Lists'
  BY <1>1, <1>2 DEF Lists, Preparing
<1>5. Outcome'
  BY <1>1, <1>2 DEF Outcome
<1> QED BY <1>3, <1>4, <1>5 DEF FilterInv

(* A file that appears or vanishes after the first check frees the lists   *)
(* from what they promise; before it, there are no lists.                  *)
LEMMA ChangeStep ==
  ASSUME Filters!JobsAssumption, FilterInv, NEW p \in Paths, Filters!ChangeFile(p)
  PROVE  FilterInv'
<1>1. /\ changes < MaxChanges /\ stage # "done" /\ changes' = changes + 1
      /\ files' \in {files \ {p}, files \cup {p}} /\ changed' = (stage # "base")
      /\ UNCHANGED <<job, stage, extra, pads, inputs, graph, output, result>>
  BY DEF Filters!ChangeFile, Filters!build
<1>2. Filters!TypeOK /\ Lists /\ Outcome
  BY DEF FilterInv
<1>3. Filters!TypeOK'
  <2>1. files' \subseteq Paths
    BY <1>1, <1>2 DEF Filters!TypeOK
  <2>2. changes' \in 0..MaxChanges
    <3>1. changes \in 0..MaxChanges
      BY <1>2 DEF Filters!TypeOK
    <3>2. MaxChanges \in Nat /\ changes < MaxChanges /\ changes' = changes + 1
      BY <1>1 DEF Filters!JobsAssumption
    <3> QED BY <3>1, <3>2
  <2>3. changed' \in BOOLEAN
    BY <1>1
  <2> QED BY <1>1, <1>2, <2>1, <2>2, <2>3 DEF Filters!TypeOK
<1>4. Lists'
  <2>1. CASE stage = "base"
    <3>1. ~changed /\ ~changed' /\ stage' = "base" /\ result' # "ok"
      BY <1>1, <1>2, <2>1 DEF Outcome
    <3>2. pads' = <<0>> /\ inputs' = <<0>>
      BY <1>1, <1>2, <2>1, <3>1 DEF Lists, Preparing
    <3> QED BY <3>1, <3>2 DEF Lists
  <2>2. CASE stage # "base"
    <3>1. changed' = TRUE
      BY <1>1, <2>2
    <3> QED BY <3>1 DEF Lists
  <2> QED BY <2>1, <2>2
<1>5. Outcome'
  <2>1. Extras' = Extras
    BY <1>1 DEF Extras
  <2>2. stage' = "base" => ~changed'
    BY <1>1
  <2> QED BY <1>1, <1>2, <2>1, <2>2 DEF Outcome
<1> QED BY <1>3, <1>4, <1>5 DEF FilterInv

LEMMA FilterHolds ==
  ASSUME Filters!JobsAssumption
  PROVE  Filters!Spec => []FilterInv
<1>1. Filters!Init => FilterInv
  BY InitFilter
<1>2. FilterInv /\ [Filters!Next]_(Filters!vars) => FilterInv'
  <2> SUFFICES ASSUME FilterInv, [Filters!Next]_(Filters!vars) PROVE FilterInv'
    OBVIOUS
  <2>1. CASE Filters!NoBase \/ Filters!RejectExtra \/ Filters!OffsetTooLong
               \/ Filters!NoOverlays \/ Filters!FfmpegFails
    BY <2>1, FailingSteps
  <2>2. CASE Filters!HasBase \/ Filters!AcceptExtra
    BY <2>2, PreparingSteps
  <2>3. CASE Filters!Filter
    BY <2>3, FilterStep
  <2>4. CASE Filters!Input
    BY <2>4, InputStep
  <2>5. CASE Filters!Ffmpeg
    BY <2>5, FfmpegStep
  <2>6. CASE Filters!Verify
    BY <2>6, VerifyStep
  <2>7. CASE \E p \in Paths : Filters!ChangeFile(p)
    BY <2>7, ChangeStep
  <2>8. CASE Filters!Done \/ UNCHANGED Filters!vars
    <3>1. UNCHANGED <<job, files, stage, extra, pads, inputs, graph, output, result,
                      changes, changed>>
      BY <2>8 DEF Filters!Done, Filters!vars, Filters!build
    <3>2. Filters!TypeOK'
      BY <3>1 DEF FilterInv, Filters!TypeOK
    <3>3. Extras' = Extras /\ Chained' = Chained /\ Given' = Given
      BY <3>1, SameSets
    <3>4. Outcome'
      BY <3>1, <3>3 DEF FilterInv, Outcome
    <3>5. Lists'
      BY <3>1, <3>3 DEF FilterInv, Lists
    <3> QED BY <3>2, <3>4, <3>5 DEF FilterInv
  <2> QED BY <2>1, <2>2, <2>3, <2>4, <2>5, <2>6, <2>7, <2>8
          DEF Filters!Next, Filters!Job
<1> QED BY <1>1, <1>2, PTL DEF Filters!Spec

(* Every variable of a job keeps its type: both lists name the base and    *)
(* extras of the job only.                                                 *)
THEOREM JobsTyped ==
  ASSUME Filters!JobsAssumption
  PROVE  Filters!Spec => []Filters!TypeOK
<1>1. FilterInv => Filters!TypeOK
  BY DEF FilterInv
<1> QED BY <1>1, FilterHolds, PTL

(* A bake, clip or overlay job that succeeds made its output itself; and   *)
(* unless files appeared or vanished, each chain of its graph got the file *)
(* it was written for.                                                     *)
THEOREM OutputMeant ==
  ASSUME Filters!JobsAssumption
  PROVE  Filters!Spec => []Filters!OutputAsMeant
<1>1. FilterInv => Filters!OutputAsMeant
  BY DEF FilterInv, Lists, Outcome, Filters!OutputAsMeant
<1> QED BY <1>1, FilterHolds, PTL

-----------------------------------------------------------------------------
(* The gates.  The sum of an expression is not 0 where one of its terms is *)
(* 1, whatever the ranges.                                                 *)

TermAt(t, k) ==
  IF Filters!Proper(job.ranges[k]) THEN Filters!between(t, job.ranges[k]) ELSE 0
GateSums(g, t, n) ==
  g = [k \in 0..n |-> IF k = 0 THEN 0 ELSE g[k - 1] + TermAt(t, k)]

LEMMA GateSumsExist ==
  ASSUME NEW t
  PROVE  \A n \in Nat : \E g : GateSums(g, t, n)
<1> DEFINE Ns == {n \in Nat : \E g : GateSums(g, t, n)}
<1>1. 0 \in Ns
  <2> DEFINE g == [k \in 0..0 |-> 0]
  <2>1. GateSums(g, t, 0)
    BY DEF GateSums
  <2> QED BY <2>1
<1>2. ASSUME NEW n \in Ns PROVE n + 1 \in Ns
  <2>1. PICK g : GateSums(g, t, n)
    OBVIOUS
  <2> DEFINE h == [k \in 0..(n + 1) |->
                    IF k = n + 1 THEN g[n] + TermAt(t, k) ELSE g[k]]
  <2>2. ASSUME NEW k \in 0..(n + 1)
        PROVE  h[k] = IF k = 0 THEN 0 ELSE h[k - 1] + TermAt(t, k)
    <3>1. CASE k = n + 1
      BY <3>1
    <3>2. CASE k # n + 1
      <4>1. k \in 0..n /\ h[k] = g[k] /\ (k # 0 => h[k - 1] = g[k - 1])
        BY <3>2
      <4>2. g[k] = IF k = 0 THEN 0 ELSE g[k - 1] + TermAt(t, k)
        BY <2>1, <4>1 DEF GateSums
      <4> QED BY <4>1, <4>2
    <3> QED BY <3>1, <3>2
  <2> HIDE DEF h
  <2>3. GateSums(h, t, n + 1)
    <3>1. h = [k \in 0..(n + 1) |-> h[k]]
      BY DEF h
    <3> QED BY <2>2, <3>1 DEF GateSums
  <2> QED BY <2>3
<1>3. Ns = Nat
  <2> HIDE DEF Ns
  <2>1. Ns \in SUBSET Nat
    BY DEF Ns
  <2> QED BY <1>1, <1>2, <2>1, NaturalsFrom
<1> QED BY <1>3

LEMMA GateSumFrom ==
  ASSUME NEW t, NEW n \in Nat, NEW g, GateSums(g, t, n)
  PROVE  /\ g[n] \in Nat
         /\ g[n] # 0 <=> \E k \in 1..n : TermAt(t, k) = 1
<1> DEFINE Ns == {m \in Nat : m <= n =>
                    /\ g[m] \in Nat
                    /\ g[m] # 0 <=> \E k \in 1..m : TermAt(t, k) = 1}
<1>1. 0 \in Ns
  <2>1. g[0] = 0
    BY DEF GateSums
  <2> QED BY <2>1
<1>2. ASSUME NEW m \in Ns PROVE m + 1 \in Ns
  <2> SUFFICES ASSUME m + 1 <= n
               PROVE  /\ g[m + 1] \in Nat
                      /\ g[m + 1] # 0 <=> \E k \in 1..(m + 1) : TermAt(t, k) = 1
    OBVIOUS
  <2>1. m + 1 \in 0..n /\ m + 1 # 0 /\ (m + 1) - 1 = m
    OBVIOUS
  <2>2. g[m + 1] = g[m] + TermAt(t, m + 1)
    BY <2>1 DEF GateSums
  <2>3. g[m] \in Nat /\ (g[m] # 0 <=> \E k \in 1..m : TermAt(t, k) = 1)
    BY <2>1
  <2>4. TermAt(t, m + 1) \in {0, 1}
    BY DEF TermAt, Filters!between
  <2>5. 1..(m + 1) = 1..m \cup {m + 1}
    OBVIOUS
  <2>6. g[m + 1] \in Nat /\ (g[m + 1] # 0 <=> g[m] # 0 \/ TermAt(t, m + 1) = 1)
    BY <2>2, <2>3, <2>4
  <2> QED BY <2>3, <2>5, <2>6
<1>3. Ns = Nat
  <2> HIDE DEF Ns
  <2>1. Ns \in SUBSET Nat
    BY DEF Ns
  <2> QED BY <1>1, <1>2, <2>1, NaturalsFrom
<1>4. n \in Ns
  BY <1>3, Zenon
<1> QED BY <1>4

LEMMA GateSum ==
  ASSUME NEW t, Len(job.ranges) \in Nat
  PROVE  /\ Filters!SumAt(t, job.ranges) \in Nat
         /\ Filters!SumAt(t, job.ranges) # 0 <=>
              \E k \in 1..Len(job.ranges) : TermAt(t, k) = 1
<1> DEFINE n == Len(job.ranges)
           g == CHOOSE g : GateSums(g, t, n)
<1>1. GateSums(g, t, n)
  <2>1. \E h : GateSums(h, t, n)
    BY GateSumsExist
  <2> QED BY <2>1
<1>2. Filters!SumAt(t, job.ranges) = g[n]
  BY DEF Filters!SumAt, GateSums, TermAt
<1> HIDE DEF g
<1> QED BY <1>1, <1>2, GateSumFrom

LEMMA GatesSplit ==
  ASSUME Filters!JobsAssumption, job \in Jobs
  PROVE  Filters!GatesSplitTime
<1>1. /\ job.ranges \in Seq(Times \X Times) /\ job.extras \in Seq(Filters!ExtraOf)
      /\ Times \subseteq Int
  BY DEF Filters!JobsAssumption
<1>2. Len(job.ranges) \in Nat /\ DOMAIN job.ranges = 1..Len(job.ranges)
  BY <1>1, LenProperties
<1>3. \A k \in 1..Len(job.ranges) :
        job.ranges[k][1] \in Int /\ job.ranges[k][2] \in Int
  <2>1. \A k \in 1..Len(job.ranges) : job.ranges[k] \in Times \X Times
    BY <1>1, ElementOfSeq
  <2> QED BY <1>1, <2>1
<1> SUFFICES ASSUME NEW t \in Times
             PROVE  /\ Filters!Gate(t, TRUE) = 1 <=> Filters!InRange(t)
                    /\ Filters!Gate(t, FALSE) = 1 - Filters!Gate(t, TRUE)
                    /\ \A e \in Filters!ToSet(job.extras) :
                         Filters!SumAt(t, job.ranges) <= 1 =>
                           (Filters!Enable(t, e) # 0 <=>
                              /\ e.start <= t /\ t <= e.start + e.length
                              /\ ~Filters!InRange(t))
  BY DEF Filters!GatesSplitTime
<1> DEFINE sum == Filters!SumAt(t, job.ranges)
<1>4. t \in Int
  BY <1>1
<1>5. sum \in Nat /\ (sum # 0 <=> \E k \in 1..Len(job.ranges) : TermAt(t, k) = 1)
  BY <1>2, GateSum
<1>6. Filters!InRange(t) <=>
        \E k \in 1..Len(job.ranges) :
          LET r == job.ranges[k] IN r[1] < r[2] /\ r[1] <= t /\ t <= r[2]
  BY <1>2 DEF Filters!InRange, Filters!ToSet
<1>7. \A k \in 1..Len(job.ranges) :
        TermAt(t, k) = 1 <=>
          LET r == job.ranges[k] IN r[1] < r[2] /\ r[1] <= t /\ t <= r[2]
  BY <1>3, <1>4 DEF TermAt, Filters!Proper, Filters!between
<1>8. sum # 0 <=> Filters!InRange(t)
  <2> HIDE DEF sum
  <2> QED BY <1>5, <1>6, <1>7
<1> HIDE DEF sum
<1>9. ASSUME NEW e \in Filters!ToSet(job.extras), sum <= 1
       PROVE  Filters!Enable(t, e) # 0 <=>
                /\ e.start <= t /\ t <= e.start + e.length
                /\ ~Filters!InRange(t)
  <2>1. e.start \in Int /\ e.length \in Int
    <3>1. e \in Filters!ExtraOf
      BY <1>1, ElementOfSeq DEF Filters!ToSet
    <3> QED BY <3>1 DEF Filters!ExtraOf
  <2>2. Filters!Enable(t, e)
          = (IF e.start <= t /\ t <= e.start + e.length THEN 1 ELSE 0) * (1 - sum)
    BY DEF Filters!Enable, Filters!between, sum
  <2>3. CASE e.start <= t /\ t <= e.start + e.length
    <3>1. Filters!Enable(t, e) = 1 - sum
      BY <1>5, <2>2, <2>3
    <3> QED BY <1>5, <1>8, <1>9, <2>3, <3>1
  <2>4. CASE ~(e.start <= t /\ t <= e.start + e.length)
    <3>1. Filters!Enable(t, e) = 0
      BY <1>5, <2>2, <2>4
    <3> QED BY <2>4, <3>1
  <2> QED BY <2>3, <2>4
<1>10. Filters!Gate(t, TRUE) = 1 <=> Filters!InRange(t)
  BY <1>8 DEF Filters!Gate, sum
<1>11. Filters!Gate(t, FALSE) = 1 - Filters!Gate(t, TRUE)
  BY DEF Filters!Gate
<1> QED BY <1>9, <1>10, <1>11, Zenon DEF sum

-----------------------------------------------------------------------------
(* The graphs.  What GraphIsWired asks for, chain by chain: each chain has *)
(* one label of its own, and each of its inputs is a pad of the command or *)
(* the label of an earlier chain.                                          *)

Names == {"in:a", "in:v", "vout", "aout", "sfx", "ovr", "tmp", "vsub", "base",
          "vo", "bg", "main", "bgm"}
Labels == Names \X Int
ChainSet == [ins : Seq(Labels), outs : Seq(Labels), takes : Nat]
Out(g, k) == g[k].outs[1]
In(g, k) == {g[k].ins[i] : i \in DOMAIN g[k].ins}
CommandPads(n) == {Filters!InA(i) : i \in 0..(n - 1)}
                  \cup {Filters!InV(i) : i \in 0..(n - 1)}

Wired(g, n, mapped) ==
  /\ g \in Seq(ChainSet)
  /\ \A k \in DOMAIN g :
       /\ Len(g[k].ins) = g[k].takes /\ g[k].outs = <<Out(g, k)>>
       /\ \A x \in In(g, k) :
            x \in CommandPads(n) \/ \E j \in 1..(k - 1) : x = Out(g, j)
       /\ \A j \in 1..(k - 1) : Out(g, j) # Out(g, k)
  /\ \A k, l \in DOMAIN g : \A i \in DOMAIN g[k].ins, j \in DOMAIN g[l].ins :
       g[k].ins[i] = g[l].ins[j] => k = l /\ i = j
  /\ {Out(g, k) : k \in DOMAIN g} \ UNION {In(g, k) : k \in DOMAIN g} = mapped

(* What Chain gives for its list of inputs, for one input, and for two.    *)
LEMMA ChainRules ==
  ASSUME NEW ins \in Seq(Labels), NEW out \in Labels
  PROVE  LET c == Filters!Chain(ins, out)
         IN  /\ c \in ChainSet
             /\ c.ins = ins /\ c.takes = Len(ins) /\ c.outs = <<out>>
             /\ c.outs[1] = out
<1>1. Len(ins) \in Nat
  BY LenProperties
<1>2. <<out>> \in Seq(Labels) /\ <<out>>[1] = out
  OBVIOUS
<1> QED BY <1>1, <1>2 DEF Filters!Chain, ChainSet

(* The chains of a graph that is two lists in a row, or three. *)
LEMMA TwoLists ==
  \A a, b \in Seq(ChainSet) :
    /\ a \o b \in Seq(ChainSet) /\ Len(a \o b) = Len(a) + Len(b)
    /\ \A i \in 1..Len(a) : (a \o b)[i] = a[i]
    /\ \A i \in 1..Len(b) : (a \o b)[Len(a) + i] = b[i]
<1> DEFINE S == ChainSet
<1> HIDE DEF S
<1> SUFFICES ASSUME NEW a \in Seq(S), NEW b \in Seq(S)
             PROVE  /\ a \o b \in Seq(S) /\ Len(a \o b) = Len(a) + Len(b)
                    /\ \A i \in 1..Len(a) : (a \o b)[i] = a[i]
                    /\ \A i \in 1..Len(b) : (a \o b)[Len(a) + i] = b[i]
  BY DEF S
<1>1. Len(a) \in Nat /\ Len(b) \in Nat
  BY LenProperties
<1>2. /\ a \o b \in Seq(S) /\ Len(a \o b) = Len(a) + Len(b)
      /\ \A i \in 1..(Len(a) + Len(b)) :
           (a \o b)[i] = IF i <= Len(a) THEN a[i] ELSE b[i - Len(a)]
  BY ConcatProperties
<1>3. \A i \in 1..Len(a) : (a \o b)[i] = a[i]
  BY <1>1, <1>2
<1>4. ASSUME NEW i \in 1..Len(b) PROVE (a \o b)[Len(a) + i] = b[i]
  <2>1. Len(a) + i \in 1..(Len(a) + Len(b)) /\ ~(Len(a) + i <= Len(a))
        /\ (Len(a) + i) - Len(a) = i
    BY <1>1
  <2> QED BY <1>2, <2>1
<1> QED BY <1>2, <1>3, <1>4

IsThree(g, a, b, c) ==
  /\ g \in Seq(ChainSet) /\ Len(g) = Len(a) + Len(b) + Len(c)
  /\ \A i \in 1..Len(a) : g[i] = a[i]
  /\ \A i \in 1..Len(b) : g[Len(a) + i] = b[i]
  /\ \A i \in 1..Len(c) : g[Len(a) + Len(b) + i] = c[i]

LEMMA ThreeLists ==
  \A a, b, c \in Seq(ChainSet) : IsThree((a \o b) \o c, a, b, c)
<1> DEFINE S == ChainSet
<1> HIDE DEF S
<1> SUFFICES ASSUME NEW a \in Seq(S), NEW b \in Seq(S), NEW c \in Seq(S)
             PROVE  LET g == (a \o b) \o c
                    IN  /\ g \in Seq(S) /\ Len(g) = Len(a) + Len(b) + Len(c)
                        /\ \A i \in 1..Len(a) : g[i] = a[i]
                        /\ \A i \in 1..Len(b) : g[Len(a) + i] = b[i]
                        /\ \A i \in 1..Len(c) : g[Len(a) + Len(b) + i] = c[i]
  BY DEF S, IsThree
<1>1. Len(a) \in Nat /\ Len(b) \in Nat /\ Len(c) \in Nat
  BY LenProperties
<1> DEFINE ab == a \o b
<1>2. /\ ab \in Seq(S) /\ Len(ab) = Len(a) + Len(b)
      /\ \A i \in 1..(Len(a) + Len(b)) :
           ab[i] = IF i <= Len(a) THEN a[i] ELSE b[i - Len(a)]
  BY ConcatProperties
<1> HIDE DEF ab
<1>3. /\ ab \o c \in Seq(S) /\ Len(ab \o c) = Len(ab) + Len(c)
      /\ \A i \in 1..(Len(ab) + Len(c)) :
           (ab \o c)[i] = IF i <= Len(ab) THEN ab[i] ELSE c[i - Len(ab)]
  <2>1. ab \in Seq(S)
    BY <1>2
  <2> QED BY ONLY <2>1, c \in Seq(S), ConcatProperties
<1>4. ASSUME NEW i \in 1..Len(a) PROVE (ab \o c)[i] = a[i]
  BY <1>1, <1>2, <1>3
<1>5. ASSUME NEW i \in 1..Len(b) PROVE (ab \o c)[Len(a) + i] = b[i]
  <2>1. Len(a) + i \in 1..(Len(a) + Len(b)) /\ ~(Len(a) + i <= Len(a))
        /\ (Len(a) + i) - Len(a) = i
    BY <1>1
  <2> QED BY <1>1, <1>2, <1>3, <2>1
<1>6. ASSUME NEW i \in 1..Len(c) PROVE (ab \o c)[Len(a) + Len(b) + i] = c[i]
  <2>1. /\ Len(a) + Len(b) + i \in 1..(Len(ab) + Len(c))
        /\ ~(Len(a) + Len(b) + i <= Len(ab))
        /\ (Len(a) + Len(b) + i) - Len(ab) = i
    BY <1>1, <1>2
  <2> QED BY <1>3, <2>1
<1> QED BY <1>2, <1>3, <1>4, <1>5, <1>6 DEF ab

LEMMA OneOf ==
  ASSUME NEW S, NEW x \in S
  PROVE  <<x>> \in Seq(S) /\ Len(<<x>>) = 1 /\ <<x>>[1] = x
OBVIOUS

LEMMA LabelRules ==
  ASSUME NEW s \in Names, NEW i \in Int
  PROVE  /\ <<s, i>> \in Labels /\ <<s, i>>[1] = s /\ <<s, i>>[2] = i
         /\ << <<s, i>> >> \in Seq(Labels) /\ Len(<< <<s, i>> >>) = 1
         /\ << <<s, i>> >>[1] = <<s, i>>
<1> DEFINE x == <<s, i>>
<1>1. x \in Labels /\ x[1] = s /\ x[2] = i
  BY DEF Labels
<1> HIDE DEF x
<1>2. <<x>> \in Seq(Labels) /\ Len(<<x>>) = 1 /\ <<x>>[1] = x
  BY <1>1, OneOf
<1> QED BY <1>1, <1>2 DEF x

(* A chain with one input. *)
LEMMA SingleChain ==
  ASSUME NEW in \in Labels, NEW out \in Labels
  PROVE  LET c == Filters!Chain(<<in>>, out)
         IN  /\ c \in ChainSet /\ c.takes = 1 /\ c.outs = <<out>>
             /\ Len(c.ins) = 1 /\ DOMAIN c.ins = 1..1 /\ c.ins[1] = in
<1>1. <<in>> \in Seq(Labels) /\ Len(<<in>>) = 1 /\ <<in>>[1] = in
  BY OneOf
<1>2. DOMAIN <<in>> = 1..1
  OBVIOUS
<1> QED BY <1>1, <1>2, ChainRules

(* process_clip: the picture, and a mix of the sound and n sound effects.  *)
LEMMA ClipWired ==
  ASSUME NEW n \in Nat
  PROVE  Wired(Filters!build_clip_filter(n), n + 1,
               {Filters!Label("vout"), Filters!Label("aout")})
<1> USE DEF Filters!InA, Filters!InV, Filters!Label, Filters!Numbered
<1> DEFINE sfx == [i \in 1..n |-> <<"sfx", i - 1>>]
           mixed == << <<"in:a", 0>> >> \o sfx
           a == <<Filters!Chain(<< <<"in:v", 0>> >>, <<"vout", 0>>)>>
           b == [i \in 1..n |->
                   Filters!Chain(<< <<"in:a", i>> >>, <<"sfx", i - 1>>)]
           c == <<Filters!Chain(mixed, <<"aout", 0>>)>>
           g == (a \o b) \o c
<1>1. Filters!build_clip_filter(n) = g
  BY DEF Filters!build_clip_filter
<1>2. /\ mixed \in Seq(Labels) /\ Len(mixed) = n + 1 /\ DOMAIN mixed = 1..(n + 1)
      /\ mixed[1] = <<"in:a", 0>>
      /\ \A i \in 2..(n + 1) : mixed[i] = <<"sfx", i - 2>>
  <2>1. \A i \in 1..n : sfx[i] = <<"sfx", i - 1>> /\ sfx[i] \in Labels
    BY DEF Labels, Names
  <2>2. sfx \in [1..n -> Labels]
    BY <2>1
  <2> HIDE DEF sfx
  <2>3. sfx \in Seq(Labels) /\ Len(sfx) = n
    BY <2>2, FunctionIsSeq
  <2> DEFINE h == << <<"in:a", 0>> >>
  <2>4. h \in Seq(Labels) /\ Len(h) = 1 /\ h[1] = <<"in:a", 0>>
    <3>1. <<"in:a", 0>> \in Labels
      BY DEF Labels, Names
    <3> QED BY <3>1, OneOf
  <2> HIDE DEF h
  <2>5. /\ h \o sfx \in Seq(Labels) /\ Len(h \o sfx) = 1 + n
        /\ \A i \in 1..(1 + n) :
             (h \o sfx)[i] = IF i <= 1 THEN h[i] ELSE sfx[i - 1]
    <3>1. /\ h \o sfx \in Seq(Labels) /\ Len(h \o sfx) = Len(h) + Len(sfx)
          /\ \A i \in 1..(Len(h) + Len(sfx)) :
               (h \o sfx)[i] = IF i <= Len(h) THEN h[i] ELSE sfx[i - Len(h)]
      BY ONLY <2>3, <2>4, ConcatProperties
    <3> QED BY <2>3, <2>4, <3>1
  <2>6. mixed = h \o sfx
    BY DEF h, sfx
  <2> HIDE DEF mixed
  <2>7. /\ mixed \in Seq(Labels) /\ Len(mixed) = 1 + n
        /\ \A i \in 1..(1 + n) : mixed[i] = IF i <= 1 THEN h[i] ELSE sfx[i - 1]
    BY ONLY <2>5, <2>6
  <2>8. \A i \in 2..(n + 1) : mixed[i] = <<"sfx", i - 2>>
    <3> SUFFICES ASSUME NEW i \in 2..(n + 1) PROVE mixed[i] = <<"sfx", i - 2>>
      OBVIOUS
    <3>1. i - 1 \in 1..n /\ (i - 1) - 1 = i - 2 /\ ~(i <= 1) /\ i \in 1..(1 + n)
      OBVIOUS
    <3>2. mixed[i] = sfx[i - 1]
      BY ONLY <2>7, <3>1
    <3> QED BY <2>1, <3>1, <3>2
  <2>9. DOMAIN mixed = 1..(n + 1)
    BY <2>7, LenProperties
  <2>10. mixed[1] = <<"in:a", 0>>
    <3>1. 1 \in 1..(1 + n)
      OBVIOUS
    <3> QED BY ONLY <2>4, <2>7, <3>1
  <2>11. Len(mixed) = n + 1
    BY <2>7
  <2> QED BY ONLY <2>7, <2>8, <2>9, <2>10, <2>11
<1> HIDE DEF mixed
<1>3. /\ a[1] \in ChainSet /\ a[1].takes = 1 /\ a[1].outs = << <<"vout", 0>> >>
      /\ Len(a[1].ins) = 1 /\ DOMAIN a[1].ins = 1..1 /\ a[1].ins[1] = <<"in:v", 0>>
  <2>1. <<"in:v", 0>> \in Labels /\ <<"vout", 0>> \in Labels
    BY DEF Labels, Names
  <2> QED BY <2>1, SingleChain
<1>4. ASSUME NEW i \in 1..n
      PROVE  /\ b[i] \in ChainSet /\ b[i].takes = 1
             /\ b[i].outs = << <<"sfx", i - 1>> >>
             /\ Len(b[i].ins) = 1 /\ DOMAIN b[i].ins = 1..1
             /\ b[i].ins[1] = <<"in:a", i>>
  <2>1. <<"in:a", i>> \in Labels /\ <<"sfx", i - 1>> \in Labels
    BY DEF Labels, Names
  <2>2. b[i] = Filters!Chain(<< <<"in:a", i>> >>, <<"sfx", i - 1>>)
    OBVIOUS
  <2> HIDE DEF b
  <2> QED BY ONLY <2>1, <2>2, SingleChain
<1>5. /\ c[1] \in ChainSet /\ c[1].ins = mixed
      /\ c[1].takes = n + 1 /\ c[1].outs = << <<"aout", 0>> >>
  <2>1. <<"aout", 0>> \in Labels
    BY DEF Labels, Names
  <2> QED BY <1>2, <2>1, ChainRules
<1>6. /\ a \in Seq(ChainSet) /\ Len(a) = 1
      /\ b \in Seq(ChainSet) /\ Len(b) = n
      /\ c \in Seq(ChainSet) /\ Len(c) = 1
  <2>1. b \in [1..n -> ChainSet]
    BY <1>4
  <2>2. b \in Seq(ChainSet) /\ Len(b) = n
    <3> HIDE DEF b
    <3> QED BY <2>1, FunctionIsSeq
  <2>3. a = <<a[1]>> /\ c = <<c[1]>>
    OBVIOUS
  <2> HIDE DEF a, b, c
  <2> QED BY <1>3, <1>5, <2>2, <2>3, OneOf
<1> HIDE DEF a, b, c
<1>7. /\ g \in Seq(ChainSet) /\ DOMAIN g = 1..(n + 2)
      /\ g[1] = a[1] /\ g[n + 2] = c[1]
      /\ \A k \in 2..(n + 1) : g[k] = b[k - 1]
  <2>1. /\ g \in Seq(ChainSet) /\ Len(g) = Len(a) + Len(b) + Len(c)
        /\ \A i \in 1..Len(a) : g[i] = a[i]
        /\ \A i \in 1..Len(b) : g[Len(a) + i] = b[i]
        /\ \A i \in 1..Len(c) : g[Len(a) + Len(b) + i] = c[i]
    <3>1. a \in Seq(ChainSet) /\ b \in Seq(ChainSet) /\ c \in Seq(ChainSet)
      BY <1>6
    <3> HIDE DEF g
    <3>2. g = (a \o b) \o c
      BY DEF g
    <3>3. IsThree((a \o b) \o c, a, b, c)
      BY ONLY <3>1, ThreeLists, Zenon
    <3> QED BY ONLY <3>2, <3>3 DEF IsThree
  <2> HIDE DEF g
  <2>2. DOMAIN g = 1..Len(g)
    BY <2>1, LenProperties
  <2>3. ASSUME NEW k \in 2..(n + 1) PROVE g[k] = b[k - 1]
    <3>1. k - 1 \in 1..Len(b) /\ Len(a) + (k - 1) = k
      BY <1>6
    <3> QED BY <2>1, <3>1
  <2> QED BY <1>6, <2>1, <2>2, <2>3
<1> HIDE DEF g
(* The label of a chain, and which chain uses a label and where. *)
<1>8. /\ g[1].outs = << <<"vout", 0>> >> /\ Out(g, 1) = <<"vout", 0>>
      /\ Len(g[1].ins) = g[1].takes /\ DOMAIN g[1].ins = 1..1
      /\ g[1].ins[1] = <<"in:v", 0>>
  <2>1. << <<"vout", 0>> >>[1] = <<"vout", 0>>
    OBVIOUS
  <2>2. g[1] = a[1]
    BY <1>7
  <2> QED BY ONLY <1>3, <2>1, <2>2 DEF Out
<1>9. ASSUME NEW k \in 2..(n + 1)
      PROVE  /\ g[k].outs = << <<"sfx", k - 2>> >> /\ Out(g, k) = <<"sfx", k - 2>>
             /\ Len(g[k].ins) = g[k].takes /\ DOMAIN g[k].ins = 1..1
             /\ g[k].ins[1] = <<"in:a", k - 1>>
  <2>1. k - 1 \in 1..n /\ (k - 1) - 1 = k - 2
    OBVIOUS
  <2>2. << <<"sfx", k - 2>> >>[1] = <<"sfx", k - 2>>
    OBVIOUS
  <2>3. g[k] = b[k - 1]
    BY <1>7
  <2>4. /\ b[k - 1].takes = 1 /\ b[k - 1].outs = << <<"sfx", k - 2>> >>
        /\ Len(b[k - 1].ins) = 1 /\ DOMAIN b[k - 1].ins = 1..1
        /\ b[k - 1].ins[1] = <<"in:a", k - 1>>
    BY <1>4, <2>1
  <2> QED BY ONLY <2>2, <2>3, <2>4 DEF Out
<1>10. /\ g[n + 2].outs = << <<"aout", 0>> >> /\ Out(g, n + 2) = <<"aout", 0>>
       /\ Len(g[n + 2].ins) = g[n + 2].takes /\ DOMAIN g[n + 2].ins = 1..(n + 1)
       /\ g[n + 2].ins[1] = <<"in:a", 0>>
       /\ \A i \in 2..(n + 1) : g[n + 2].ins[i] = <<"sfx", i - 2>>
  BY <1>2, <1>5, <1>7 DEF Out
<1>11. \A k \in 1..(n + 2) : k = 1 \/ k = n + 2 \/ k \in 2..(n + 1)
  OBVIOUS
<1>12. \A i \in 1..(n + 1) : i = 1 \/ i \in 2..(n + 1)
  OBVIOUS
<1> DEFINE Maker(x) == IF x[1] = "vout" THEN 1
                       ELSE IF x[1] = "aout" THEN n + 2 ELSE x[2] + 2
           User(x) == IF x[1] = "in:v" THEN 1
                      ELSE IF x[1] = "in:a" /\ x[2] # 0 THEN x[2] + 1 ELSE n + 2
           Place(x) == IF x[1] = "sfx" THEN x[2] + 2 ELSE 1
<1>13. ASSUME NEW k \in 1..(n + 2)
       PROVE  g[k].outs = <<Out(g, k)>> /\ Maker(Out(g, k)) = k
              /\ Len(g[k].ins) = g[k].takes
  <2>1. CASE k = 1
    BY <1>8, <2>1, LabelRules DEF Names
  <2>2. CASE k = n + 2
    BY <1>10, <2>2, LabelRules DEF Names
  <2>3. CASE k \in 2..(n + 1)
    <3>1. "sfx" \in Names /\ k - 2 \in Int /\ (k - 2) + 2 = k
      BY DEF Names
    <3>2. <<"sfx", k - 2>>[1] = "sfx" /\ <<"sfx", k - 2>>[2] = k - 2
      OBVIOUS
    <3>3. /\ g[k].outs = <<Out(g, k)>> /\ Out(g, k) = <<"sfx", k - 2>>
          /\ Len(g[k].ins) = g[k].takes
      BY <1>9, <2>3
    <3> QED BY <3>1, <3>2, <3>3
  <2> QED BY <1>11, <2>1, <2>2, <2>3
<1>14. ASSUME NEW k \in 1..(n + 2), NEW i \in DOMAIN g[k].ins
       PROVE  LET x == g[k].ins[i]
              IN  /\ User(x) = k /\ Place(x) = i
                  /\ x \in CommandPads(n + 1) \/ \E j \in 1..(k - 1) : x = Out(g, j)
                  /\ x[1] \notin {"vout", "aout"}
  <2>1. CASE k = 1
    <3>1. i = 1 /\ g[k].ins[i] = <<"in:v", 0>>
      BY <1>8, <2>1
    <3> QED BY <2>1, <3>1, LabelRules DEF CommandPads
  <2>2. CASE k \in 2..(n + 1)
    <3>1. i = 1 /\ g[k].ins[i] = <<"in:a", k - 1>> /\ k - 1 \in 0..((n + 1) - 1) /\ k - 1 # 0
      BY <1>9, <2>2
    <3> QED BY <2>2, <3>1, LabelRules DEF CommandPads
  <2>3. CASE k = n + 2 /\ i = 1
    <3>1. g[k].ins[i] = <<"in:a", 0>>
      BY <1>10, <2>3
    <3> QED BY <2>3, <3>1, LabelRules DEF CommandPads
  <2>4. CASE k = n + 2 /\ i \in 2..(n + 1)
    <3>1. i \in 1..(k - 1)
      BY <2>4
    <3>2. g[k].ins[i] = <<"sfx", i - 2>> /\ Out(g, i) = <<"sfx", i - 2>>
      BY <1>9, <1>10, <2>4
    <3>3. (i - 2) + 2 = i /\ i - 2 \in Int
      BY <2>4
    <3> QED BY <2>4, <3>1, <3>2, <3>3, LabelRules
  <2> QED BY <1>10, <1>11, <1>12, <2>1, <2>2, <2>3, <2>4
<1>15. {Out(g, k) : k \in 1..(n + 2)} \ UNION {In(g, k) : k \in 1..(n + 2)}
         = {<<"vout", 0>>, <<"aout", 0>>}
  <2>1. ASSUME NEW k \in 2..(n + 1) PROVE Out(g, k) \in In(g, n + 2)
    <3>1. Out(g, k) = <<"sfx", k - 2>> /\ k \in 1..(n + 1)
      BY <1>9
    <3>2. g[n + 2].ins[k] = <<"sfx", k - 2>>
      BY <1>10
    <3> QED BY ONLY <1>10, <3>1, <3>2 DEF In
  <2>2. ASSUME NEW k \in 1..(n + 2), NEW x \in In(g, k)
        PROVE  x # <<"vout", 0>> /\ x # <<"aout", 0>>
    BY <1>14, LabelRules DEF In
  <2>3. n + 2 \in 1..(n + 2) /\ 1 \in 1..(n + 2)
    OBVIOUS
  <2> QED BY <1>8, <1>10, <1>11, <2>1, <2>2, <2>3
<1> HIDE DEF Maker, User, Place
<1>16. Wired(g, n + 1, {<<"vout", 0>>, <<"aout", 0>>})
  <2>1. DOMAIN g = 1..(n + 2) /\ g \in Seq(ChainSet)
    BY <1>7
  <2>2. \A k \in 1..(n + 2) : /\ Len(g[k].ins) = g[k].takes
                              /\ g[k].outs = <<Out(g, k)>>
                              /\ Maker(Out(g, k)) = k
    BY <1>13
  <2>3. \A k \in 1..(n + 2) : \A i \in DOMAIN g[k].ins :
          /\ User(g[k].ins[i]) = k /\ Place(g[k].ins[i]) = i
          /\ \/ g[k].ins[i] \in CommandPads(n + 1)
             \/ \E j \in 1..(k - 1) : g[k].ins[i] = Out(g, j)
    BY <1>14
  <2>5. \A k \in 1..(n + 2) : \A x \in In(g, k) :
          x \in CommandPads(n + 1) \/ \E j \in 1..(k - 1) : x = Out(g, j)
    BY ONLY <2>3, Zenon DEF In
  <2>6. \A k \in 1..(n + 2) : \A j \in 1..(k - 1) : Out(g, j) # Out(g, k)
    <3> SUFFICES ASSUME NEW k \in 1..(n + 2), NEW j \in 1..(k - 1)
                 PROVE  Out(g, j) # Out(g, k)
      OBVIOUS
    <3>1. j \in 1..(n + 2) /\ j # k
      OBVIOUS
    <3> QED BY ONLY <2>2, <3>1, k \in 1..(n + 2)
  <2>7. \A k, l \in 1..(n + 2) :
          \A i \in DOMAIN g[k].ins, j \in DOMAIN g[l].ins :
            g[k].ins[i] = g[l].ins[j] => k = l /\ i = j
    BY ONLY <2>3, Zenon
  <2> QED BY ONLY <1>15, <2>1, <2>2, <2>5, <2>6, <2>7, Zenon DEF Wired
<1> QED BY <1>1, <1>16

(* bake_master_audio and bake_assembly_audio: the base and up to two more. *)
LEMMA BakeWired ==
  ASSUME NEW items \in Seq(0..2),
         \A j, k \in 1..Len(items) : items[j] = items[k] => j = k
  PROVE  Wired(Filters!build_bake_filter(items), Len(items),
               {Filters!Label("aout")})
<1> USE DEF Filters!InA, Filters!InV, Filters!Label
<1> DEFINE m == Len(items)
           N(k) == <<Filters!NameOf(items[k]), 0>>
           mixed == [k \in 1..m |-> N(k)]
           a == [k \in 1..m |-> Filters!Chain(<< <<"in:a", k - 1>> >>, N(k))]
           c == <<Filters!Chain(mixed, <<"aout", 0>>)>>
           g == a \o c
<1>1. Filters!build_bake_filter(items) = g
  BY DEF Filters!build_bake_filter
<1>2. m \in Nat /\ \A k \in 1..m : items[k] \in 0..2
  BY LenProperties, ElementOfSeq
<1>3. \A i \in 0..2 : /\ Filters!NameOf(i) \in Names \ {"aout", "in:a", "in:v"}
                      /\ \A j \in 0..2 : Filters!NameOf(i) = Filters!NameOf(j) => i = j
  BY DEF Filters!NameOf, Names
<1>4. ASSUME NEW k \in 1..m
      PROVE  /\ N(k) \in Labels /\ N(k) # <<"aout", 0>>
             /\ \A i \in Int : N(k) # <<"in:a", i>>
             /\ \A j \in 1..m : N(k) = N(j) => k = j
  <2>1. items[k] \in 0..2
    BY <1>2
  <2>2. ASSUME NEW j \in 1..m, N(k) = N(j) PROVE k = j
    <3>1. Filters!NameOf(items[k]) = Filters!NameOf(items[j])
      BY <2>2
    <3> QED BY <1>2, <1>3, <3>1
  <2> QED BY <1>3, <2>1, <2>2 DEF Labels
<1> HIDE DEF N
<1>5. mixed \in Seq(Labels) /\ Len(mixed) = m /\ DOMAIN mixed = 1..m
      /\ \A i \in 1..m : mixed[i] = N(i)
  <2>1. mixed \in [1..m -> Labels]
    BY <1>4
  <2>2. \A i \in 1..m : mixed[i] = N(i)
    OBVIOUS
  <2> HIDE DEF mixed
  <2> QED BY <1>2, <2>1, <2>2, FunctionIsSeq
<1> HIDE DEF mixed
<1>6. ASSUME NEW k \in 1..m
      PROVE  /\ a[k] \in ChainSet /\ a[k].takes = 1 /\ a[k].outs = <<N(k)>>
             /\ Len(a[k].ins) = 1 /\ DOMAIN a[k].ins = 1..1
             /\ a[k].ins[1] = <<"in:a", k - 1>>
  <2>1. <<"in:a", k - 1>> \in Labels
    BY DEF Labels, Names
  <2>2. a[k] = Filters!Chain(<< <<"in:a", k - 1>> >>, N(k))
    OBVIOUS
  <2>3. N(k) \in Labels
    BY <1>4
  <2> DEFINE in == <<"in:a", k - 1>>
             ch == Filters!Chain(<<in>>, N(k))
  <2> HIDE DEF in
  <2>4. /\ ch \in ChainSet /\ ch.takes = 1 /\ ch.outs = <<N(k)>>
        /\ Len(ch.ins) = 1 /\ DOMAIN ch.ins = 1..1 /\ ch.ins[1] = in
    <3>1. in \in Labels
      BY <2>1 DEF in
    <3> QED BY ONLY <2>3, <3>1, SingleChain
  <2> HIDE DEF ch
  <2>5. a[k] = ch
    BY <2>2 DEF ch, in
  <2> HIDE DEF a
  <2> QED BY <2>4, <2>5 DEF in
<1>7. /\ c[1] \in ChainSet /\ c[1].ins = mixed
      /\ c[1].takes = m /\ c[1].outs = << <<"aout", 0>> >>
  <2>1. <<"aout", 0>> \in Labels
    BY DEF Labels, Names
  <2> QED BY <1>5, <2>1, ChainRules
<1>8. /\ a \in Seq(ChainSet) /\ Len(a) = m
      /\ c \in Seq(ChainSet) /\ Len(c) = 1
  <2>1. a \in [1..m -> ChainSet]
    BY <1>6
  <2>2. a \in Seq(ChainSet) /\ Len(a) = m
    <3> HIDE DEF a
    <3> QED BY <1>2, <2>1, FunctionIsSeq
  <2>3. c = <<c[1]>>
    OBVIOUS
  <2> HIDE DEF a, c
  <2> QED BY <1>7, <2>2, <2>3, OneOf
<1> HIDE DEF a, c
<1>9. /\ g \in Seq(ChainSet) /\ DOMAIN g = 1..(m + 1)
      /\ g[m + 1] = c[1]
      /\ \A k \in 1..m : g[k] = a[k]
  <2>1. a \in Seq(ChainSet) /\ c \in Seq(ChainSet)
    BY <1>8
  <2>2. /\ g \in Seq(ChainSet) /\ Len(g) = Len(a) + Len(c)
        /\ \A i \in 1..Len(a) : g[i] = a[i]
        /\ \A i \in 1..Len(c) : g[Len(a) + i] = c[i]
    BY ONLY <2>1, TwoLists, Zenon
  <2> HIDE DEF g
  <2>3. DOMAIN g = 1..Len(g)
    BY <2>2, LenProperties
  <2> QED BY <1>2, <1>8, <2>2, <2>3
<1> HIDE DEF g
<1>10. ASSUME NEW k \in 1..m
       PROVE  /\ g[k].outs = <<N(k)>> /\ Out(g, k) = N(k)
              /\ Len(g[k].ins) = g[k].takes /\ DOMAIN g[k].ins = 1..1
              /\ g[k].ins[1] = <<"in:a", k - 1>>
  <2>1. g[k] = a[k]
    BY <1>9
  <2>2. <<N(k)>>[1] = N(k)
    OBVIOUS
  <2> QED BY ONLY <1>6, <2>1, <2>2, k \in 1..m DEF Out
<1>11. /\ g[m + 1].outs = << <<"aout", 0>> >> /\ Out(g, m + 1) = <<"aout", 0>>
       /\ Len(g[m + 1].ins) = g[m + 1].takes /\ DOMAIN g[m + 1].ins = 1..m
       /\ \A i \in 1..m : g[m + 1].ins[i] = N(i)
  <2>1. << <<"aout", 0>> >>[1] = <<"aout", 0>>
    OBVIOUS
  <2> QED BY ONLY <1>5, <1>7, <1>9, <2>1 DEF Out
<1>12. \A k \in 1..(m + 1) : k \in 1..m \/ k = m + 1
  BY <1>2
<1> HIDE DEF m
<1>13. \A k \in 1..(m + 1) : /\ g[k].outs = <<Out(g, k)>>
                             /\ Len(g[k].ins) = g[k].takes
  <2>1. g[m + 1].outs = <<Out(g, m + 1)>>
    BY ONLY <1>11
  <2>2. \A k \in 1..m : g[k].outs = <<Out(g, k)>>
    <3> SUFFICES ASSUME NEW k \in 1..m PROVE g[k].outs = <<Out(g, k)>>
      OBVIOUS
    <3> QED BY ONLY <1>10, k \in 1..m
  <2> QED BY <1>10, <1>11, <1>12, <2>1, <2>2
<1>14. \A k \in 1..(m + 1) : \A j \in 1..(k - 1) : Out(g, j) # Out(g, k)
  <2> SUFFICES ASSUME NEW k \in 1..(m + 1), NEW j \in 1..(k - 1)
               PROVE  Out(g, j) # Out(g, k)
    OBVIOUS
  <2>1. j \in 1..m /\ j # k
    BY <1>2
  <2>2. CASE k \in 1..m
    BY <1>4, <1>10, <2>1, <2>2
  <2>3. CASE k = m + 1
    BY <1>4, <1>10, <1>11, <2>1, <2>3
  <2> QED BY <1>12, <2>2, <2>3
(* What a chain reads: the first m their pad, the last their labels. *)
<1>15. ASSUME NEW k \in 1..(m + 1), NEW i \in DOMAIN g[k].ins
       PROVE  \/ k \in 1..m /\ i = 1 /\ g[k].ins[i] = <<"in:a", k - 1>>
              \/ k = m + 1 /\ i \in 1..m /\ g[k].ins[i] = N(i)
  <2>1. CASE k \in 1..m
    BY <1>10, <2>1
  <2>2. CASE k = m + 1
    BY <1>11, <2>2
  <2> QED BY <1>12, <2>1, <2>2
<1>16. \A k \in 1..(m + 1) : \A x \in In(g, k) :
         x \in CommandPads(m) \/ \E j \in 1..(k - 1) : x = Out(g, j)
  <2> SUFFICES ASSUME NEW k \in 1..(m + 1), NEW i \in DOMAIN g[k].ins
               PROVE  \/ g[k].ins[i] \in CommandPads(m)
                      \/ \E j \in 1..(k - 1) : g[k].ins[i] = Out(g, j)
    BY DEF In
  <2>1. CASE k \in 1..m /\ i = 1 /\ g[k].ins[i] = <<"in:a", k - 1>>
    <3>1. k - 1 \in 0..(m - 1)
      BY <1>2, <2>1
    <3> QED BY <2>1, <3>1 DEF CommandPads
  <2>2. CASE k = m + 1 /\ i \in 1..m /\ g[k].ins[i] = N(i)
    <3>1. i \in 1..(k - 1) /\ Out(g, i) = N(i)
      BY <1>2, <1>10, <2>2
    <3> QED BY <2>2, <3>1
  <2> QED BY <1>15, <2>1, <2>2
<1>17. \A k, l \in 1..(m + 1) :
         \A i \in DOMAIN g[k].ins, j \in DOMAIN g[l].ins :
           g[k].ins[i] = g[l].ins[j] => k = l /\ i = j
  <2> SUFFICES ASSUME NEW k \in 1..(m + 1), NEW l \in 1..(m + 1),
                      NEW i \in DOMAIN g[k].ins, NEW j \in DOMAIN g[l].ins,
                      g[k].ins[i] = g[l].ins[j]
               PROVE  k = l /\ i = j
    OBVIOUS
  <2>1. CASE k \in 1..m /\ l \in 1..m
    <3>1. <<"in:a", k - 1>> = <<"in:a", l - 1>> /\ i = 1 /\ j = 1
      BY <1>2, <1>15, <2>1
    <3>2. k - 1 = l - 1
      BY <3>1
    <3> QED BY <1>2, <3>1, <3>2
  <2>2. CASE k = m + 1 /\ l = m + 1
    <3>1. i \in 1..m /\ j \in 1..m /\ N(i) = N(j)
      BY <1>2, <1>15, <2>2
    <3> QED BY <1>4, <2>2, <3>1
  <2>3. CASE k \in 1..m /\ l = m + 1
    <3>1. k # m + 1 /\ l \notin 1..m /\ k - 1 \in Int
      BY <1>2, <2>3
    <3>2. g[k].ins[i] = <<"in:a", k - 1>>
      BY <1>15, <3>1
    <3>3. j \in 1..m /\ g[l].ins[j] = N(j)
      BY <1>15, <3>1
    <3>4. N(j) = <<"in:a", k - 1>>
      BY <3>2, <3>3
    <3> QED BY <1>4, <3>1, <3>3, <3>4
  <2>4. CASE k = m + 1 /\ l \in 1..m
    <3>1. l # m + 1 /\ k \notin 1..m /\ l - 1 \in Int
      BY <1>2, <2>4
    <3>2. g[l].ins[j] = <<"in:a", l - 1>>
      BY <1>15, <3>1
    <3>3. i \in 1..m /\ g[k].ins[i] = N(i)
      BY <1>15, <3>1
    <3>4. N(i) = <<"in:a", l - 1>>
      BY <3>2, <3>3
    <3> QED BY <1>4, <3>1, <3>3, <3>4
  <2> QED BY <1>12, <2>1, <2>2, <2>3, <2>4
<1>18. {Out(g, k) : k \in 1..(m + 1)} \ UNION {In(g, k) : k \in 1..(m + 1)}
         = {<<"aout", 0>>}
  <2>1. ASSUME NEW k \in 1..m PROVE Out(g, k) \in In(g, m + 1)
    <3>1. Out(g, k) = N(k) /\ g[m + 1].ins[k] = N(k)
      BY <1>10, <1>11
    <3> QED BY ONLY <1>11, <3>1, k \in 1..m DEF In
  <2>2. ASSUME NEW k \in 1..(m + 1), NEW x \in In(g, k)
        PROVE  x # <<"aout", 0>>
    BY <1>4, <1>15 DEF In
  <2>3. m + 1 \in 1..(m + 1)
    BY <1>2
  <2> QED BY <1>11, <1>12, <2>1, <2>2, <2>3
<1>19. Wired(g, m, {<<"aout", 0>>})
  <2>1. DOMAIN g = 1..(m + 1) /\ g \in Seq(ChainSet)
    BY <1>9
  <2> QED BY ONLY <1>13, <1>14, <1>16, <1>17, <1>18, <2>1, Zenon DEF Wired
<1> QED BY <1>1, <1>19 DEF m

(* merge_overlays: n overlays, each on top of those before, and subtitles. *)
LEMMA OverlayWired ==
  ASSUME NEW n \in Nat \ {0}
  PROVE  /\ Wired(Filters!build_overlay_filter(n), n + 1,
                  {IF Filters!Exists(job.subs) THEN Filters!Label("vsub")
                   ELSE Filters!TmpOf(n), Filters!Label("aout")})
         /\ Filters!Exists(job.subs) <=>
              \E k \in DOMAIN Filters!build_overlay_filter(n) :
                Out(Filters!build_overlay_filter(n), k) = Filters!Label("vsub")
<1> USE DEF Filters!InA, Filters!InV, Filters!Label, Filters!Numbered
<1> DEFINE subs == Filters!Exists(job.subs)
           e == IF subs THEN 1 ELSE 0
           m == 2 * n + e + 1
           T(i) == Filters!TmpOf(i)
           a == [i \in 1..n |->
                   Filters!Chain(<< <<"in:v", i>> >>, <<"ovr", i>>)]
           b == [i \in 1..n |->
                   Filters!Chain(<<T(i - 1), <<"ovr", i>>>>, T(i))]
           c == IF subs THEN <<Filters!Chain(<<T(n)>>, <<"vsub", 0>>)>> ELSE << >>
           d == <<Filters!Chain(<< <<"in:a", 0>> >>, <<"aout", 0>>)>>
           g == ((a \o b) \o c) \o d
           last == IF subs THEN <<"vsub", 0>> ELSE <<"tmp", n>>
<1>1. Filters!build_overlay_filter(n) = g
  BY DEF Filters!build_overlay_filter
<1>2. /\ T(0) = <<"in:v", 0>> /\ T(0) \in Labels
      /\ \A i \in 1..n : T(i) = <<"tmp", i>> /\ T(i) \in Labels
      /\ n \in 1..n
  BY DEF Filters!TmpOf, Labels, Names
<1> HIDE DEF T, subs
<1>3. ASSUME NEW i \in 1..n
      PROVE  /\ a[i] \in ChainSet /\ a[i].takes = 1 /\ a[i].outs = << <<"ovr", i>> >>
             /\ Len(a[i].ins) = 1 /\ DOMAIN a[i].ins = 1..1
             /\ a[i].ins[1] = <<"in:v", i>>
  <2>1. <<"in:v", i>> \in Labels /\ <<"ovr", i>> \in Labels
    BY DEF Labels, Names
  <2>2. a[i] = Filters!Chain(<< <<"in:v", i>> >>, <<"ovr", i>>)
    OBVIOUS
  <2> HIDE DEF a
  <2> QED BY ONLY <2>1, <2>2, SingleChain
<1>4. ASSUME NEW i \in 1..n
      PROVE  /\ b[i] \in ChainSet /\ b[i].takes = 2 /\ b[i].outs = << <<"tmp", i>> >>
             /\ Len(b[i].ins) = 2 /\ DOMAIN b[i].ins = 1..2
             /\ b[i].ins[1] = T(i - 1) /\ b[i].ins[2] = <<"ovr", i>>
  <2>1. <<"ovr", i>> \in Labels /\ <<"tmp", i>> \in Labels
    BY DEF Labels, Names
  <2>2. T(i - 1) \in Labels /\ T(i) = <<"tmp", i>>
    <3>1. i - 1 = 0 \/ i - 1 \in 1..n
      OBVIOUS
    <3> QED BY <1>2, <3>1
  <2>3. b[i] = Filters!Chain(<<T(i - 1), <<"ovr", i>>>>, <<"tmp", i>>)
    BY <2>2
  <2> HIDE DEF b
  <2>4. ASSUME NEW x \in Labels, NEW y \in Labels
        PROVE  /\ <<x, y>> \in Seq(Labels) /\ Len(<<x, y>>) = 2
               /\ DOMAIN <<x, y>> = 1..2
               /\ <<x, y>>[1] = x /\ <<x, y>>[2] = y
    OBVIOUS
  <2> DEFINE ins == <<T(i - 1), <<"ovr", i>>>>
  <2>5. /\ ins \in Seq(Labels) /\ Len(ins) = 2 /\ DOMAIN ins = 1..2
        /\ ins[1] = T(i - 1) /\ ins[2] = <<"ovr", i>>
    BY <2>1, <2>2, <2>4
  <2> HIDE DEF ins
  <2>6. b[i] = Filters!Chain(ins, <<"tmp", i>>)
    BY <2>3 DEF ins
  <2> DEFINE ch == Filters!Chain(ins, <<"tmp", i>>)
  <2>7. /\ ch \in ChainSet /\ ch.ins = ins /\ ch.takes = Len(ins)
        /\ ch.outs = << <<"tmp", i>> >>
    <3>1. ins \in Seq(Labels) /\ <<"tmp", i>> \in Labels
      BY <2>1, <2>5
    <3> QED BY ONLY <3>1, ChainRules
  <2> HIDE DEF ch
  <2>8. b[i] = ch
    BY <2>6 DEF ch
  <2> QED BY ONLY <2>5, <2>7, <2>8
<1>5. subs => /\ c = <<c[1]>> /\ c[1] \in ChainSet
              /\ c[1].takes = 1 /\ c[1].outs = << <<"vsub", 0>> >>
              /\ Len(c[1].ins) = 1 /\ DOMAIN c[1].ins = 1..1
              /\ c[1].ins[1] = <<"tmp", n>>
  <2> SUFFICES ASSUME subs
               PROVE  /\ c = <<c[1]>> /\ c[1] \in ChainSet
                      /\ c[1].takes = 1 /\ c[1].outs = << <<"vsub", 0>> >>
                      /\ Len(c[1].ins) = 1 /\ DOMAIN c[1].ins = 1..1
                      /\ c[1].ins[1] = <<"tmp", n>>
    OBVIOUS
  <2>1. <<"vsub", 0>> \in Labels /\ T(n) \in Labels /\ T(n) = <<"tmp", n>>
    BY <1>2 DEF Labels, Names
  <2>2. c = <<c[1]>> /\ c[1] = Filters!Chain(<<T(n)>>, <<"vsub", 0>>)
    OBVIOUS
  <2> HIDE DEF c
  <2> QED BY ONLY <2>1, <2>2, SingleChain
<1>6. /\ d[1] \in ChainSet /\ d[1].takes = 1 /\ d[1].outs = << <<"aout", 0>> >>
      /\ Len(d[1].ins) = 1 /\ DOMAIN d[1].ins = 1..1
      /\ d[1].ins[1] = <<"in:a", 0>>
  <2>1. <<"aout", 0>> \in Labels /\ <<"in:a", 0>> \in Labels
    BY DEF Labels, Names
  <2> QED BY <2>1, SingleChain
<1>7. /\ a \in Seq(ChainSet) /\ Len(a) = n
      /\ b \in Seq(ChainSet) /\ Len(b) = n
      /\ c \in Seq(ChainSet) /\ Len(c) = e
      /\ d \in Seq(ChainSet) /\ Len(d) = 1
  <2>1. a \in [1..n -> ChainSet] /\ b \in [1..n -> ChainSet]
    BY <1>3, <1>4
  <2>2. a \in Seq(ChainSet) /\ Len(a) = n /\ b \in Seq(ChainSet) /\ Len(b) = n
    <3> HIDE DEF a, b
    <3> QED BY <2>1, FunctionIsSeq
  <2>3. d = <<d[1]>> /\ (~subs => c = << >>)
    OBVIOUS
  <2> HIDE DEF a, b, c, d
  <2>4. ASSUME subs PROVE c \in Seq(ChainSet) /\ Len(c) = e
    <3>1. c = <<c[1]>> /\ c[1] \in ChainSet /\ e = 1
      BY <1>5, <2>4
    <3>2. <<c[1]>> \in Seq(ChainSet) /\ Len(<<c[1]>>) = 1
      BY ONLY <3>1, OneOf
    <3> QED BY ONLY <3>1, <3>2
  <2>5. ASSUME ~subs PROVE c \in Seq(ChainSet) /\ Len(c) = e
    <3>1. c = << >> /\ e = 0
      BY <2>3, <2>5
    <3>2. << >> \in Seq(ChainSet) /\ Len(<< >>) = 0
      OBVIOUS
    <3> QED BY ONLY <3>1, <3>2
  <2> QED BY <1>6, <2>2, <2>3, <2>4, <2>5, OneOf
<1> HIDE DEF a, b, c, d
<1>8. e \in 0..1 /\ (subs <=> e = 1)
  OBVIOUS
<1> HIDE DEF e
<1>9. /\ g \in Seq(ChainSet) /\ DOMAIN g = 1..m
      /\ \A k \in 1..n : g[k] = a[k] /\ g[n + k] = b[k]
      /\ (subs => g[2 * n + 1] = c[1]) /\ g[m] = d[1]
  <2>1. /\ a \in Seq(ChainSet) /\ b \in Seq(ChainSet) /\ c \in Seq(ChainSet)
        /\ d \in Seq(ChainSet)
    BY <1>7
  <2> DEFINE h == (a \o b) \o c
  <2>2. /\ h \in Seq(ChainSet) /\ Len(h) = Len(a) + Len(b) + Len(c)
        /\ \A i \in 1..Len(a) : h[i] = a[i]
        /\ \A i \in 1..Len(b) : h[Len(a) + i] = b[i]
        /\ \A i \in 1..Len(c) : h[Len(a) + Len(b) + i] = c[i]
    <3>1. a \in Seq(ChainSet) /\ b \in Seq(ChainSet) /\ c \in Seq(ChainSet)
      BY <2>1
    <3> HIDE DEF h
    <3>2. h = (a \o b) \o c
      BY DEF h
    <3>3. IsThree((a \o b) \o c, a, b, c)
      BY ONLY <3>1, ThreeLists, Zenon
    <3> QED BY ONLY <3>2, <3>3 DEF IsThree
  <2> HIDE DEF h
  <2>3. /\ h \o d \in Seq(ChainSet) /\ Len(h \o d) = Len(h) + Len(d)
        /\ \A i \in 1..Len(h) : (h \o d)[i] = h[i]
        /\ \A i \in 1..Len(d) : (h \o d)[Len(h) + i] = d[i]
    <3>1. h \in Seq(ChainSet) /\ d \in Seq(ChainSet)
      BY <2>1, <2>2
    <3> QED BY ONLY <3>1, TwoLists, Zenon
  <2>4. g = h \o d
    BY DEF h
  <2> HIDE DEF g
  <2>5. /\ g \in Seq(ChainSet) /\ Len(g) = m
        /\ \A i \in 1..(2 * n + e) : g[i] = h[i]
        /\ \A i \in 1..1 : g[2 * n + e + i] = d[i]
    BY <1>7, <1>8, <2>2, <2>3, <2>4
  <2>6. DOMAIN g = 1..Len(g)
    BY <2>5, LenProperties
  <2>7. ASSUME NEW k \in 1..n PROVE g[k] = a[k] /\ g[n + k] = b[k]
    <3>1. k \in 1..(2 * n + e) /\ n + k \in 1..(2 * n + e)
      BY <1>8
    <3>2. h[k] = a[k] /\ h[n + k] = b[k]
      BY <1>7, <2>2
    <3> QED BY <2>5, <3>1, <3>2
  <2>8. ASSUME subs PROVE g[2 * n + 1] = c[1]
    <3>1. 2 * n + 1 \in 1..(2 * n + e) /\ 1 \in 1..Len(c) /\ Len(a) + Len(b) + 1 = 2 * n + 1
      BY <1>7, <1>8, <2>8
    <3> QED BY <2>2, <2>5, <3>1
  <2>9. g[m] = d[1]
    BY <2>5
  <2> QED BY <2>5, <2>6, <2>7, <2>8, <2>9
<1> HIDE DEF g
<1>10. m \in Nat /\ m = 2 * n + e + 1
  BY <1>8
<1> HIDE DEF m
(* The four kinds of chains: what they read and what they make. *)
<1>11. ASSUME NEW k \in 1..n
       PROVE  /\ g[k].outs = << <<"ovr", k>> >> /\ Out(g, k) = <<"ovr", k>>
              /\ Len(g[k].ins) = g[k].takes /\ DOMAIN g[k].ins = 1..1
              /\ g[k].ins[1] = <<"in:v", k>>
  <2>1. g[k] = a[k] /\ << <<"ovr", k>> >>[1] = <<"ovr", k>>
    BY <1>9
  <2> QED BY ONLY <1>3, <2>1, k \in 1..n DEF Out
<1>12. ASSUME NEW k \in 1..n
       PROVE  /\ g[n + k].outs = << <<"tmp", k>> >> /\ Out(g, n + k) = <<"tmp", k>>
              /\ Len(g[n + k].ins) = g[n + k].takes /\ DOMAIN g[n + k].ins = 1..2
              /\ g[n + k].ins[1] = T(k - 1) /\ g[n + k].ins[2] = <<"ovr", k>>
  <2>1. g[n + k] = b[k] /\ << <<"tmp", k>> >>[1] = <<"tmp", k>>
    BY <1>9
  <2> QED BY ONLY <1>4, <2>1, k \in 1..n DEF Out
<1>13. ASSUME subs
       PROVE  /\ g[2 * n + 1].outs = << <<"vsub", 0>> >>
              /\ Out(g, 2 * n + 1) = <<"vsub", 0>>
              /\ Len(g[2 * n + 1].ins) = g[2 * n + 1].takes
              /\ DOMAIN g[2 * n + 1].ins = 1..1
              /\ g[2 * n + 1].ins[1] = <<"tmp", n>>
  <2>1. g[2 * n + 1] = c[1] /\ << <<"vsub", 0>> >>[1] = <<"vsub", 0>>
    BY <1>9, <1>13
  <2> QED BY ONLY <1>5, <1>13, <2>1 DEF Out
<1>14. /\ g[m].outs = << <<"aout", 0>> >> /\ Out(g, m) = <<"aout", 0>>
       /\ Len(g[m].ins) = g[m].takes /\ DOMAIN g[m].ins = 1..1
       /\ g[m].ins[1] = <<"in:a", 0>>
  <2>1. g[m] = d[1] /\ << <<"aout", 0>> >>[1] = <<"aout", 0>>
    BY <1>9
  <2> QED BY ONLY <1>6, <2>1 DEF Out
<1>15. \A k \in 1..m : \/ k \in 1..n
                       \/ k - n \in 1..n
                       \/ subs /\ k = 2 * n + 1 /\ m = 2 * n + 2
                       \/ k = m
  BY <1>8, <1>10
<1> DEFINE Maker(x) == CASE x[1] = "ovr" -> x[2]
                         [] x[1] = "tmp" -> n + x[2]
                         [] x[1] = "vsub" -> 2 * n + 1
                         [] OTHER -> m
           User(x) == CASE x[1] = "in:v" -> IF x[2] = 0 THEN n + 1 ELSE x[2]
                        [] x[1] = "ovr" -> n + x[2]
                        [] x[1] = "tmp" -> n + x[2] + 1
                        [] OTHER -> m
           Place(x) == IF x[1] = "ovr" THEN 2 ELSE 1
<1>16. ASSUME NEW s \in Names, NEW i \in Int
       PROVE  <<s, i>>[1] = s /\ <<s, i>>[2] = i
  OBVIOUS
<1>17. \A k \in 1..m : /\ g[k].outs = <<Out(g, k)>>
                       /\ Len(g[k].ins) = g[k].takes
                       /\ Maker(Out(g, k)) = k
  <2> SUFFICES ASSUME NEW k \in 1..m
               PROVE  /\ g[k].outs = <<Out(g, k)>>
                      /\ Len(g[k].ins) = g[k].takes
                      /\ Maker(Out(g, k)) = k
    OBVIOUS
  <2>1. CASE k \in 1..n
    <3>1. Maker(<<"ovr", k>>) = k
      BY <1>16 DEF Names
    <3> HIDE DEF Maker
    <3> QED BY <1>11, <2>1, <3>1
  <2>2. CASE k - n \in 1..n
    <3>1. Maker(<<"tmp", k - n>>) = k /\ n + (k - n) = k
      BY <1>16, <2>2 DEF Names
    <3> HIDE DEF Maker
    <3> QED BY <1>12, <2>2, <3>1
  <2>3. CASE subs /\ k = 2 * n + 1 /\ m = 2 * n + 2
    <3>1. Maker(<<"vsub", 0>>) = k
      BY <1>16, <2>3 DEF Names
    <3> HIDE DEF Maker
    <3> QED BY <1>13, <2>3, <3>1
  <2>4. CASE k = m
    <3>1. Maker(<<"aout", 0>>) = k
      BY <1>16, <2>4 DEF Names
    <3> HIDE DEF Maker
    <3> QED BY <1>14, <2>4, <3>1
  <2> HIDE DEF Maker
  <2> QED BY <1>15, <2>1, <2>2, <2>3, <2>4
<1>18. \A k \in 1..m : \A i \in DOMAIN g[k].ins :
         LET x == g[k].ins[i]
         IN  /\ User(x) = k /\ Place(x) = i
             /\ x \in CommandPads(n + 1) \/ \E j \in 1..(k - 1) : x = Out(g, j)
             /\ x # <<"vsub", 0>> /\ x # <<"aout", 0>>
             /\ ~subs => x # <<"tmp", n>>
  <2> SUFFICES ASSUME NEW k \in 1..m, NEW i \in DOMAIN g[k].ins
               PROVE  LET x == g[k].ins[i]
                      IN  /\ User(x) = k /\ Place(x) = i
                          /\ \/ x \in CommandPads(n + 1)
                             \/ \E j \in 1..(k - 1) : x = Out(g, j)
                          /\ x # <<"vsub", 0>> /\ x # <<"aout", 0>>
                          /\ ~subs => x # <<"tmp", n>>
    OBVIOUS
  <2>1. CASE k \in 1..n
    <3>1. i = 1 /\ g[k].ins[i] = <<"in:v", k>> /\ k \in 0..((n + 1) - 1)
      BY <1>11, <2>1
    <3>2. User(<<"in:v", k>>) = k /\ Place(<<"in:v", k>>) = 1
      BY <1>16, <2>1 DEF Names
    <3>3. <<"in:v", k>> \in CommandPads(n + 1)
      BY <3>1 DEF CommandPads
    <3> HIDE DEF User, Place
    <3> QED BY <3>1, <3>2, <3>3
  <2>2. CASE k = n + 1 /\ i = 1
    <3>1. g[k].ins[i] = <<"in:v", 0>> /\ 0 \in 0..((n + 1) - 1)
      <4>1. 1 \in 1..n
        OBVIOUS
      <4>2. g[n + 1].ins[1] = T(1 - 1)
        BY <1>12, <4>1
      <4> QED BY <1>2, <2>2, <4>2
    <3>2. User(<<"in:v", 0>>) = k /\ Place(<<"in:v", 0>>) = 1
      BY <1>16, <2>2 DEF Names
    <3>3. <<"in:v", 0>> \in CommandPads(n + 1)
      BY <3>1 DEF CommandPads
    <3> HIDE DEF User, Place
    <3> QED BY <2>2, <3>1, <3>2, <3>3
  <2>3. CASE k - n \in 2..n /\ i = 1
    <3> DEFINE q == k - n
    <3>1. q \in 1..n /\ q - 1 \in 1..n /\ k = n + q /\ q - 1 # n
          /\ n + (q - 1) \in 1..(k - 1) /\ n + (q - 1) + 1 = k
      BY <2>3
    <3>2. g[k].ins[i] = <<"tmp", q - 1>>
      BY <1>2, <1>12, <2>3, <3>1
    <3>3. Out(g, n + (q - 1)) = <<"tmp", q - 1>>
      BY <1>12, <3>1
    <3>4. User(<<"tmp", q - 1>>) = k /\ Place(<<"tmp", q - 1>>) = 1
      BY <1>16, <3>1 DEF Names
    <3>5. <<"tmp", q - 1>> # <<"tmp", n>>
      BY <3>1
    <3> HIDE DEF User, Place, q
    <3> QED BY <2>3, <3>1, <3>2, <3>3, <3>4, <3>5
  <2>4. CASE k - n \in 1..n /\ i = 2
    <3> DEFINE q == k - n
    <3>1. q \in 1..n /\ k = n + q /\ q \in 1..(k - 1)
      BY <2>4
    <3>2. g[k].ins[i] = <<"ovr", q>> /\ Out(g, q) = <<"ovr", q>>
      BY <1>11, <1>12, <2>4, <3>1
    <3>3. User(<<"ovr", q>>) = k /\ Place(<<"ovr", q>>) = 2
      BY <1>16, <3>1 DEF Names
    <3> HIDE DEF User, Place, q
    <3> QED BY <2>4, <3>1, <3>2, <3>3
  <2>5. CASE subs /\ k = 2 * n + 1 /\ m = 2 * n + 2
    <3>1. i = 1 /\ g[k].ins[i] = <<"tmp", n>>
      BY <1>13, <2>5
    <3>2. Out(g, n + n) = <<"tmp", n>> /\ n + n \in 1..(k - 1)
      BY <1>2, <1>12, <2>5
    <3>3. User(<<"tmp", n>>) = k /\ Place(<<"tmp", n>>) = 1
      BY <1>16, <2>5 DEF Names
    <3> HIDE DEF User, Place
    <3> QED BY <2>5, <3>1, <3>2, <3>3
  <2>6. CASE k = m
    <3>1. i = 1 /\ g[k].ins[i] = <<"in:a", 0>> /\ 0 \in 0..((n + 1) - 1)
      BY <1>14, <2>6
    <3>2. User(<<"in:a", 0>>) = m /\ Place(<<"in:a", 0>>) = 1
      BY <1>16 DEF Names
    <3>3. <<"in:a", 0>> \in CommandPads(n + 1)
      BY <3>1 DEF CommandPads
    <3> HIDE DEF User, Place
    <3> QED BY <2>6, <3>1, <3>2, <3>3
  <2>7. ASSUME k - n \in 1..n
        PROVE  \/ k = n + 1 /\ i = 1
               \/ k - n \in 2..n /\ i = 1
               \/ i = 2
    <3>1. DOMAIN g[k].ins = 1..2
      <4>1. n + (k - n) = k
        OBVIOUS
      <4> QED BY <1>12, <2>7, <4>1
    <3> QED BY <2>7, <3>1
  <2> HIDE DEF User, Place
  <2> QED BY <1>15, <2>1, <2>2, <2>3, <2>4, <2>5, <2>6, <2>7
<1> HIDE DEF Maker, User, Place
<1>19. {Out(g, k) : k \in 1..m} \ UNION {In(g, k) : k \in 1..m}
         = {last, <<"aout", 0>>}
  <2>1. ASSUME NEW k \in 1..m, Out(g, k) # last, k # m
        PROVE  \E l \in 1..m : Out(g, k) \in In(g, l)
    <3>1. CASE k \in 1..n
      <4>1. /\ n + k \in 1..m /\ 2 \in DOMAIN g[n + k].ins
            /\ g[n + k].ins[2] = Out(g, k)
        <5>1. n + k \in 1..m
          BY <1>8, <1>10, <3>1
        <5>2. Out(g, k) = <<"ovr", k>>
          BY <1>11, <3>1
        <5>3. DOMAIN g[n + k].ins = 1..2 /\ g[n + k].ins[2] = <<"ovr", k>>
          BY <1>12, <3>1
        <5> QED BY <5>1, <5>2, <5>3
      <4> QED BY ONLY <4>1 DEF In
    <3>2. CASE k - n \in 1..(n - 1)
      <4> DEFINE q == k - n
      <4>1. q \in 1..n /\ q + 1 \in 1..n /\ n + q = k /\ (q + 1) - 1 = q
            /\ n + (q + 1) \in 1..m
        BY <1>8, <1>10, <3>2
      <4>2. Out(g, k) = <<"tmp", q>> /\ T(q) = <<"tmp", q>>
        BY <1>2, <1>12, <4>1
      <4>3. /\ 1 \in DOMAIN g[n + (q + 1)].ins
            /\ g[n + (q + 1)].ins[1] = T((q + 1) - 1)
        BY <1>12, <4>1
      <4> HIDE DEF q
      <4>4. g[n + (q + 1)].ins[1] = Out(g, k)
        BY <4>1, <4>2, <4>3
      <4> QED BY ONLY <4>1, <4>3, <4>4 DEF In
    <3>3. CASE k = n + n
      <4>1. Out(g, k) = <<"tmp", n>>
        BY <1>2, <1>12, <3>3
      <4>2. subs
        BY <2>1, <4>1
      <4>3. /\ 2 * n + 1 \in 1..m /\ 1 \in DOMAIN g[2 * n + 1].ins
            /\ g[2 * n + 1].ins[1] = Out(g, k)
        BY <1>8, <1>10, <1>13, <4>1, <4>2
      <4> QED BY ONLY <4>3 DEF In
    <3>4. CASE subs /\ k = 2 * n + 1
      BY <1>13, <2>1, <3>4
    <3>5. ASSUME k - n \in 1..n PROVE k - n \in 1..(n - 1) \/ k = n + n
      BY <3>5
    <3> QED BY <1>15, <2>1, <3>1, <3>2, <3>3, <3>4, <3>5
  <2>2. ASSUME NEW k \in 1..m, NEW x \in In(g, k)
        PROVE  x # last /\ x # <<"aout", 0>>
    BY <1>18 DEF In
  <2>3. \E k \in 1..m : Out(g, k) = last
    <3>1. CASE subs
      <4>1. 2 * n + 1 \in 1..m
        BY <1>8, <1>10, <3>1
      <4> QED BY <1>13, <3>1, <4>1
    <3>2. CASE ~subs
      <4>1. n + n \in 1..m /\ Out(g, n + n) = <<"tmp", n>>
        BY <1>2, <1>8, <1>10, <1>12
      <4> QED BY <3>2, <4>1
    <3> QED BY <3>1, <3>2
  <2>4. m \in 1..m /\ Out(g, m) = <<"aout", 0>>
    BY <1>8, <1>10, <1>14
  <2> HIDE DEF last
  <2> QED BY <2>1, <2>2, <2>3, <2>4
<1>20. Wired(g, n + 1, {last, <<"aout", 0>>})
  <2>1. DOMAIN g = 1..m /\ g \in Seq(ChainSet)
    BY <1>9
  <2>2. \A k \in 1..m : g[k].outs = <<Out(g, k)>> /\ Len(g[k].ins) = g[k].takes
    BY ONLY <1>17, Zenon
  <2>6. \A k \in 1..m : \A i \in DOMAIN g[k].ins :
          /\ User(g[k].ins[i]) = k /\ Place(g[k].ins[i]) = i
          /\ \/ g[k].ins[i] \in CommandPads(n + 1)
             \/ \E j \in 1..(k - 1) : g[k].ins[i] = Out(g, j)
    BY <1>18
  <2>3. \A k \in 1..m : \A x \in In(g, k) :
          x \in CommandPads(n + 1) \/ \E j \in 1..(k - 1) : x = Out(g, j)
    <3> SUFFICES ASSUME NEW k \in 1..m, NEW i \in DOMAIN g[k].ins
                 PROVE  \/ g[k].ins[i] \in CommandPads(n + 1)
                        \/ \E j \in 1..(k - 1) : g[k].ins[i] = Out(g, j)
      BY DEF In
    <3> QED BY ONLY <2>6, k \in 1..m, i \in DOMAIN g[k].ins, Zenon
  <2>4. \A k \in 1..m : \A j \in 1..(k - 1) : Out(g, j) # Out(g, k)
    <3> SUFFICES ASSUME NEW k \in 1..m, NEW j \in 1..(k - 1)
                 PROVE  Out(g, j) # Out(g, k)
      OBVIOUS
    <3>1. j \in 1..m /\ j # k
      BY <1>10
    <3> QED BY ONLY <1>17, <3>1, k \in 1..m
  <2>5. \A k, l \in 1..m : \A i \in DOMAIN g[k].ins, j \in DOMAIN g[l].ins :
          g[k].ins[i] = g[l].ins[j] => k = l /\ i = j
    BY ONLY <2>6, Zenon
  <2> HIDE DEF last
  <2> QED BY ONLY <1>19, <2>1, <2>2, <2>3, <2>4, <2>5, Zenon DEF Wired
<1>21. last = IF subs THEN <<"vsub", 0>> ELSE Filters!TmpOf(n)
  BY <1>2 DEF T
<1>22. subs <=> \E k \in DOMAIN g : Out(g, k) = <<"vsub", 0>>
  <2>1. ASSUME NEW k \in 1..m, Out(g, k) = <<"vsub", 0>>
        PROVE  subs
    <3>1. ASSUME k - n \in 1..n PROVE Out(g, k) = <<"tmp", k - n>>
      <4>1. n + (k - n) = k
        OBVIOUS
      <4> QED BY <1>12, <3>1, <4>1
    <3> QED BY <1>11, <1>14, <1>15, <2>1, <3>1
  <2>2. ASSUME subs PROVE 2 * n + 1 \in 1..m
    BY <1>8, <1>10, <2>2
  <2>3. DOMAIN g = 1..m
    BY <1>9
  <2> QED BY <1>13, <2>1, <2>2, <2>3
<1> HIDE DEF last
<1> QED BY <1>1, <1>20, <1>21, <1>22 DEF subs

(* A chain with two inputs. *)
LEMMA DoubleChain ==
  ASSUME NEW in1 \in Labels, NEW in2 \in Labels, NEW out \in Labels
  PROVE  LET c == Filters!Chain(<<in1, in2>>, out)
         IN  /\ c \in ChainSet /\ c.takes = 2 /\ c.outs = <<out>>
             /\ Len(c.ins) = 2 /\ DOMAIN c.ins = 1..2
             /\ c.ins[1] = in1 /\ c.ins[2] = in2
<1> DEFINE ins == <<in1, in2>>
<1>1. /\ ins \in Seq(Labels) /\ Len(ins) = 2 /\ DOMAIN ins = 1..2
      /\ ins[1] = in1 /\ ins[2] = in2
  OBVIOUS
<1> HIDE DEF ins
<1> DEFINE c == Filters!Chain(ins, out)
<1>2. c \in ChainSet /\ c.ins = ins /\ c.takes = Len(ins) /\ c.outs = <<out>>
  BY ONLY <1>1, out \in Labels, ChainRules
<1> HIDE DEF c
<1>3. /\ c \in ChainSet /\ c.takes = 2 /\ c.outs = <<out>>
      /\ Len(c.ins) = 2 /\ DOMAIN c.ins = 1..2
      /\ c.ins[1] = in1 /\ c.ins[2] = in2
  BY ONLY <1>1, <1>2
<1> QED BY <1>3 DEF c, ins

(* build_acrossfade_filter: one chain.                                     *)
LEMMA CrossfadeWired ==
  Wired(Filters!build_acrossfade_filter, 2, {Filters!Label("aout")})
<1> USE DEF Filters!InA, Filters!Label
<1> DEFINE c == Filters!Chain(<< <<"in:a", 0>>, <<"in:a", 1>> >>, <<"aout", 0>>)
           g == <<c>>
<1>1. Filters!build_acrossfade_filter = g
  BY DEF Filters!build_acrossfade_filter
<1>2. /\ <<"in:a", 0>> \in Labels /\ <<"in:a", 1>> \in Labels
      /\ <<"aout", 0>> \in Labels
  BY DEF Labels, Names
<1>3. /\ c \in ChainSet /\ c.takes = 2 /\ c.outs = << <<"aout", 0>> >>
      /\ Len(c.ins) = 2 /\ DOMAIN c.ins = 1..2
      /\ c.ins[1] = <<"in:a", 0>> /\ c.ins[2] = <<"in:a", 1>>
  BY <1>2, DoubleChain
<1> HIDE DEF c
<1>4. g \in Seq(ChainSet) /\ DOMAIN g = 1..1 /\ g[1] = c
  BY <1>3
<1> HIDE DEF g
<1>5. Out(g, 1) = <<"aout", 0>>
  BY <1>3, <1>4 DEF Out
<1>6. In(g, 1) = {<<"in:a", 0>>, <<"in:a", 1>>}
  BY <1>3, <1>4 DEF In
<1>7. In(g, 1) \subseteq CommandPads(2)
  <2>1. 0 \in 0..(2 - 1) /\ 1 \in 0..(2 - 1)
    OBVIOUS
  <2> QED BY <1>6, <2>1 DEF CommandPads
<1>8. \A i, j \in 1..2 : g[1].ins[i] = g[1].ins[j] => i = j
  <2>1. <<"in:a", 0>> # <<"in:a", 1>>
    OBVIOUS
  <2>2. \A i \in 1..2 : i = 1 \/ i = 2
    OBVIOUS
  <2> QED BY ONLY <1>3, <1>4, <2>1, <2>2
<1>9. {Out(g, k) : k \in 1..1} \ UNION {In(g, k) : k \in 1..1} = {<<"aout", 0>>}
  <2>1. <<"aout", 0>> \notin In(g, 1)
    BY <1>6
  <2>2. \A k \in 1..1 : k = 1
    OBVIOUS
  <2>3. 1 \in 1..1
    OBVIOUS
  <2> QED BY <1>5, <2>1, <2>2, <2>3
<1>10. ASSUME NEW k \in 1..1
       PROVE  /\ Len(g[k].ins) = g[k].takes /\ g[k].outs = <<Out(g, k)>>
              /\ \A x \in In(g, k) : x \in CommandPads(2)
  <2>1. k = 1
    OBVIOUS
  <2>2. Len(g[1].ins) = g[1].takes /\ g[1].outs = <<Out(g, 1)>>
    BY <1>3, <1>4, <1>5
  <2> QED BY ONLY <1>7, <2>1, <2>2
<1>11. \A k \in 1..1 : \A j \in 1..(k - 1) : Out(g, j) # Out(g, k)
  OBVIOUS
<1>12. \A k, l \in 1..1 : \A i \in DOMAIN g[k].ins, j \in DOMAIN g[l].ins :
         g[k].ins[i] = g[l].ins[j] => k = l /\ i = j
  BY <1>3, <1>4, <1>8
<1> QED BY <1>1, <1>4, <1>9, <1>10, <1>11, <1>12 DEF Wired

(* build_background_music_filter: two chains and their mix.                *)
LEMMA MusicWired ==
  Wired(Filters!build_background_music_filter, 2, {Filters!Label("aout")})
<1> USE DEF Filters!InA, Filters!Label, Filters!Numbered
<1> DEFINE a == Filters!Chain(<< <<"in:a", 0>> >>, <<"main", 0>>)
           b == Filters!Chain(<< <<"in:a", 1>> >>, <<"bgm", 1>>)
           c == Filters!Chain(<< <<"main", 0>>, <<"bgm", 1>> >>, <<"aout", 0>>)
           g == <<a, b, c>>
<1>1. Filters!build_background_music_filter = g
  BY DEF Filters!build_background_music_filter
<1>2. /\ <<"in:a", 0>> \in Labels /\ <<"in:a", 1>> \in Labels
      /\ <<"aout", 0>> \in Labels /\ <<"main", 0>> \in Labels
      /\ <<"bgm", 1>> \in Labels
  BY DEF Labels, Names
<1>3. /\ a \in ChainSet /\ a.takes = 1 /\ a.outs = << <<"main", 0>> >>
      /\ Len(a.ins) = 1 /\ DOMAIN a.ins = 1..1 /\ a.ins[1] = <<"in:a", 0>>
  BY <1>2, SingleChain
<1>4. /\ b \in ChainSet /\ b.takes = 1 /\ b.outs = << <<"bgm", 1>> >>
      /\ Len(b.ins) = 1 /\ DOMAIN b.ins = 1..1 /\ b.ins[1] = <<"in:a", 1>>
  BY <1>2, SingleChain
<1>5. /\ c \in ChainSet /\ c.takes = 2 /\ c.outs = << <<"aout", 0>> >>
      /\ Len(c.ins) = 2 /\ DOMAIN c.ins = 1..2
      /\ c.ins[1] = <<"main", 0>> /\ c.ins[2] = <<"bgm", 1>>
  BY <1>2, DoubleChain
<1> HIDE DEF a, b, c
<1>6. /\ g \in Seq(ChainSet) /\ DOMAIN g = 1..3
      /\ g[1] = a /\ g[2] = b /\ g[3] = c
  BY <1>3, <1>4, <1>5
<1> HIDE DEF g
<1>7. /\ Out(g, 1) = <<"main", 0>> /\ Out(g, 2) = <<"bgm", 1>>
      /\ Out(g, 3) = <<"aout", 0>>
  BY <1>3, <1>4, <1>5, <1>6 DEF Out
<1>8. /\ In(g, 1) = {<<"in:a", 0>>} /\ In(g, 2) = {<<"in:a", 1>>}
      /\ In(g, 3) = {<<"main", 0>>, <<"bgm", 1>>}
  BY <1>3, <1>4, <1>5, <1>6 DEF In
<1>9. <<"in:a", 0>> \in CommandPads(2) /\ <<"in:a", 1>> \in CommandPads(2)
  <2>1. 0 \in 0..(2 - 1) /\ 1 \in 0..(2 - 1)
    OBVIOUS
  <2> QED BY <2>1 DEF CommandPads
<1>10. \A k \in 1..3 : k = 1 \/ k = 2 \/ k = 3
  OBVIOUS
<1>11. \A k \in 1..3 : /\ Len(g[k].ins) = g[k].takes
                       /\ g[k].outs = <<Out(g, k)>>
  BY <1>3, <1>4, <1>5, <1>6, <1>7, <1>10
<1>12. \A k \in 1..3 : \A x \in In(g, k) :
         x \in CommandPads(2) \/ \E j \in 1..(k - 1) : x = Out(g, j)
  <2>1. 1 \in 1..(3 - 1) /\ 2 \in 1..(3 - 1)
    OBVIOUS
  <2> QED BY <1>7, <1>8, <1>9, <1>10, <2>1
<1>13. \A k \in 1..3 : \A j \in 1..(k - 1) : Out(g, j) # Out(g, k)
  <2>1. /\ <<"main", 0>> # <<"bgm", 1>> /\ <<"main", 0>> # <<"aout", 0>>
        /\ <<"bgm", 1>> # <<"aout", 0>>
    OBVIOUS
  <2>2. \A k \in 1..3 : \A j \in 1..(k - 1) :
          (j = 1 /\ k = 2) \/ (j = 1 /\ k = 3) \/ (j = 2 /\ k = 3)
    OBVIOUS
  <2> QED BY ONLY <1>7, <2>1, <2>2
<1>14. \A k, l \in 1..3 : \A i \in DOMAIN g[k].ins, j \in DOMAIN g[l].ins :
         g[k].ins[i] = g[l].ins[j] => k = l /\ i = j
  <2> DEFINE At(x) == CASE x = <<"in:a", 0>> -> 1 [] x = <<"in:a", 1>> -> 2
                        [] OTHER -> 3
             Place(x) == IF x = <<"bgm", 1>> THEN 2 ELSE 1
  <2>1. /\ At(<<"in:a", 0>>) = 1 /\ At(<<"in:a", 1>>) = 2
        /\ At(<<"main", 0>>) = 3 /\ At(<<"bgm", 1>>) = 3
        /\ Place(<<"in:a", 0>>) = 1 /\ Place(<<"in:a", 1>>) = 1
        /\ Place(<<"main", 0>>) = 1 /\ Place(<<"bgm", 1>>) = 2
    OBVIOUS
  <2> HIDE DEF At, Place
  <2>2. \A k \in 1..3 : \A i \in DOMAIN g[k].ins :
          At(g[k].ins[i]) = k /\ Place(g[k].ins[i]) = i
    <3> SUFFICES ASSUME NEW k \in 1..3, NEW i \in DOMAIN g[k].ins
                 PROVE  At(g[k].ins[i]) = k /\ Place(g[k].ins[i]) = i
      OBVIOUS
    <3>1. CASE k = 1
      <4>1. i = 1 /\ g[k].ins[i] = <<"in:a", 0>>
        BY <1>3, <1>6, <3>1
      <4> QED BY ONLY <2>1, <3>1, <4>1
    <3>2. CASE k = 2
      <4>1. i = 1 /\ g[k].ins[i] = <<"in:a", 1>>
        BY <1>4, <1>6, <3>2
      <4> QED BY ONLY <2>1, <3>2, <4>1
    <3>3. CASE k = 3
      <4>1. \/ i = 1 /\ g[k].ins[i] = <<"main", 0>>
            \/ i = 2 /\ g[k].ins[i] = <<"bgm", 1>>
        BY <1>5, <1>6, <3>3
      <4> QED BY ONLY <2>1, <3>3, <4>1
    <3> QED BY <1>10, <3>1, <3>2, <3>3
  <2> SUFFICES ASSUME NEW k \in 1..3, NEW l \in 1..3,
                      NEW i \in DOMAIN g[k].ins, NEW j \in DOMAIN g[l].ins,
                      g[k].ins[i] = g[l].ins[j]
               PROVE  k = l /\ i = j
    OBVIOUS
  <2>3. /\ At(g[k].ins[i]) = k /\ Place(g[k].ins[i]) = i
        /\ At(g[l].ins[j]) = l /\ Place(g[l].ins[j]) = j
    BY <2>2
  <2> QED BY <2>3
<1>15. {Out(g, k) : k \in 1..3} \ UNION {In(g, k) : k \in 1..3} = {<<"aout", 0>>}
  <2>1. /\ Out(g, 1) \in In(g, 3) /\ Out(g, 2) \in In(g, 3)
        /\ \A k \in 1..3 : Out(g, 3) \notin In(g, k)
    BY <1>7, <1>8, <1>10
  <2>2. 1 \in 1..3 /\ 2 \in 1..3 /\ 3 \in 1..3
    OBVIOUS
  <2> QED BY ONLY <1>7, <1>10, <2>1, <2>2
<1>16. DOMAIN g = 1..3 /\ g \in Seq(ChainSet)
  BY <1>6
<1>17. Wired(g, 2, {<<"aout", 0>>})
  BY ONLY <1>11, <1>12, <1>13, <1>14, <1>15, <1>16, Zenon DEF Wired
<1> QED BY <1>1, <1>17

(* A graph may leave inputs of the command unused.                         *)
LEMMA MorePads ==
  ASSUME NEW g, NEW mapped, NEW n \in Nat, NEW m \in Nat, n <= m,
         Wired(g, n, mapped)
  PROVE  Wired(g, m, mapped)
<1>1. CommandPads(n) \subseteq CommandPads(m)
  <2>1. 0..(n - 1) \subseteq 0..(m - 1)
    OBVIOUS
  <2> QED BY <2>1, Zenon DEF CommandPads
<1> QED BY <1>1, Zenon DEF Wired

(* What a job maps to its output, given the chains of its graph. *)
MappedOf(k, g, n) ==
  CASE k = "clip" -> {Filters!Label("vout"), Filters!Label("aout")}
    [] k = "overlay" ->
         {IF \E i \in DOMAIN g : Out(g, i) = Filters!Label("vsub")
          THEN Filters!Label("vsub") ELSE Filters!TmpOf(n - 1),
          Filters!Label("aout")}
    [] OTHER -> {Filters!Label("aout")}

Wires == job.kind \notin {"amix", "concat"}
Chosen == {"bake", "assembly"}   \* not every extra gets a number

Early == stage \in Preparing \/ (job.kind = "overlay" /\ stage \in {"inputs", "none"})

Increasing(l) == \A i, j \in 1..Len(l) : i < j => l[i] < l[j]

(* A graph is made once, when every extra that gets a number has one.      *)
NumbersInv ==
  /\ Len(pads) >= 1 /\ Increasing(pads)
  /\ Early => pads = <<0>> /\ graph = << >>
  /\ stage = "filter" =>
       /\ graph = << >>
       /\ \A i \in 1..Len(pads) : pads[i] < extra
       /\ job.kind \notin Chosen => Len(pads) = extra
  /\ Extras = 0 => inputs = <<0>>
  /\ job.kind = "overlay" /\ stage = "filter" => Extras >= 1
  /\ graph # << >> /\ Wires =>
       Wired(graph, Len(pads), MappedOf(job.kind, graph, Len(pads)))

(* Whatever the kind of the job, Graph makes a graph that is wired.        *)
LEMMA GraphMade ==
  ASSUME Filters!JobsAssumption, Filters!TypeOK, Wires,
         NEW items \in Seq(0..Extras), Len(items) >= 1, Increasing(items),
         job.kind \notin Chosen => Len(items) = Extras + 1,
         job.kind = "overlay" => Extras >= 1
  PROVE  Wired(Filters!Graph(items), Len(items),
               MappedOf(job.kind, Filters!Graph(items), Len(items)))
<1> DEFINE aout == {Filters!Label("aout")}
<1>1. Extras \in Nat /\ Len(items) \in Nat
  BY JobFacts, LenProperties
<1>2. /\ job.kind \in Filters!Kinds
      /\ job.kind \in Chosen => Extras = 2
      /\ job.kind \in {"music", "acrossfade"} => Extras >= 1
  <2>1. job \in Jobs
    BY DEF Filters!TypeOK
  <2>2. /\ job.kind \in Filters!Kinds
        /\ job.kind \in {"bake", "assembly"} => Len(job.extras) = 2
        /\ job.kind \in {"music", "acrossfade"} => Len(job.extras) > 0
    BY <2>1 DEF Filters!JobsAssumption
  <2> QED BY <1>1, <2>2 DEF Extras, Chosen
<1>3. CASE job.kind \in Chosen
  <2>1. items \in Seq(0..2)
    BY <1>2, <1>3
  <2>2. \A j, k \in 1..Len(items) : items[j] = items[k] => j = k
    <3>1. \A k \in 1..Len(items) : items[k] \in 0..2
      BY <2>1, ElementOfSeq
    <3> SUFFICES ASSUME NEW j \in 1..Len(items), NEW k \in 1..Len(items),
                        items[j] = items[k]
                 PROVE  j = k
      OBVIOUS
    <3>2. items[j] \in Int /\ j \in Int /\ k \in Int
      BY <1>1, <3>1
    <3>3. ~(j < k) /\ ~(k < j)
      BY <3>2 DEF Increasing
    <3> QED BY <3>2, <3>3
  <2>3. Wired(Filters!build_bake_filter(items), Len(items), aout)
    BY <2>1, <2>2, BakeWired
  <2>4. Filters!Graph(items) = Filters!build_bake_filter(items)
    BY <1>3 DEF Filters!Graph, Filters!kind, Chosen
  <2>5. MappedOf(job.kind, Filters!Graph(items), Len(items)) = aout
    BY <1>3 DEF MappedOf, Chosen
  <2> HIDE DEF aout
  <2> QED BY <2>3, <2>4, <2>5
<1>4. CASE job.kind = "clip"
  <2>1. Len(items) - 1 \in Nat /\ (Len(items) - 1) + 1 = Len(items)
    BY <1>1
  <2>2. Wired(Filters!build_clip_filter(Len(items) - 1), Len(items),
              {Filters!Label("vout"), Filters!Label("aout")})
    <3>1. \A n \in Nat : Wired(Filters!build_clip_filter(n), n + 1,
                               {Filters!Label("vout"), Filters!Label("aout")})
      BY ClipWired
    <3> QED BY <2>1, <3>1
  <2>3. Filters!Graph(items) = Filters!build_clip_filter(Len(items) - 1)
    BY <1>4 DEF Filters!Graph, Filters!kind
  <2>4. MappedOf(job.kind, Filters!Graph(items), Len(items))
          = {Filters!Label("vout"), Filters!Label("aout")}
    BY <1>4 DEF MappedOf
  <2> QED BY <2>2, <2>3, <2>4
<1>5. CASE job.kind = "overlay"
  <2> DEFINE n == Len(items) - 1
             g == Filters!build_overlay_filter(n)
  <2>1. n \in Nat \ {0} /\ n + 1 = Len(items)
    BY <1>1, <1>5 DEF Chosen
  <2>2. /\ Wired(g, n + 1, {IF Filters!Exists(job.subs) THEN Filters!Label("vsub")
                            ELSE Filters!TmpOf(n), Filters!Label("aout")})
        /\ Filters!Exists(job.subs) <=>
             \E k \in DOMAIN g : Out(g, k) = Filters!Label("vsub")
    BY <2>1, OverlayWired
  <2>3. Filters!Graph(items) = g
    BY <1>5 DEF Filters!Graph, Filters!kind
  <2>4. MappedOf(job.kind, g, Len(items))
          = {IF \E k \in DOMAIN g : Out(g, k) = Filters!Label("vsub")
             THEN Filters!Label("vsub") ELSE Filters!TmpOf(n),
             Filters!Label("aout")}
    BY <1>5 DEF MappedOf
  <2> HIDE DEF g, n
  <2> QED BY <2>1, <2>2, <2>3, <2>4
<1>6. ASSUME job.kind \in {"music", "acrossfade"}
      PROVE  2 \in Nat /\ 2 <= Len(items)
             /\ MappedOf(job.kind, Filters!Graph(items), Len(items)) = aout
  <2>1. MappedOf(job.kind, Filters!Graph(items), Len(items)) = aout
    BY <1>6 DEF MappedOf
  <2>2. 2 <= Len(items)
    BY <1>1, <1>2, <1>6 DEF Chosen
  <2> QED BY <2>1, <2>2
<1>7. CASE job.kind = "music"
  <2>1. Filters!Graph(items) = Filters!build_background_music_filter
    BY <1>7 DEF Filters!Graph, Filters!kind
  <2> HIDE DEF aout
  <2>2. Wired(Filters!build_background_music_filter, 2, aout)
    BY MusicWired DEF aout
  <2> QED BY <1>1, <1>6, <1>7, <2>1, <2>2, MorePads
<1>8. CASE job.kind = "acrossfade"
  <2>1. Filters!Graph(items) = Filters!build_acrossfade_filter
    BY <1>8 DEF Filters!Graph, Filters!kind
  <2> HIDE DEF aout
  <2>2. Wired(Filters!build_acrossfade_filter, 2, aout)
    BY CrossfadeWired DEF aout
  <2> QED BY <1>1, <1>6, <1>8, <2>1, <2>2, MorePads
<1> QED BY <1>2, <1>3, <1>4, <1>5, <1>7, <1>8
        DEF Filters!Kinds, Filters!Builders, Wires, Chosen

(* Wired is what the property of the model says.                           *)
LEMMA WiredGraph ==
  ASSUME Filters!JobsAssumption, Filters!TypeOK, NumbersInv
  PROVE  Filters!GraphIsWired
<1> SUFFICES ASSUME graph # << >>, Filters!kind \notin {"amix", "concat"}
             PROVE  Filters!GraphIsWired
  BY DEF Filters!GraphIsWired
<1> DEFINE n == Len(pads)
           Defined(k) == UNION {Filters!Outs(graph[j]) : j \in 1..k}
           Used == UNION {Filters!ToSet(graph[k].ins) : k \in DOMAIN graph}
           InPads == {Filters!InA(i) : i \in 0..(n - 1)}
                     \cup {Filters!InV(i) : i \in 0..(n - 1)}
<1>1. Wired(graph, n, MappedOf(job.kind, graph, n))
  BY DEF NumbersInv, Wires, Filters!kind
<1>2. Len(graph) \in Nat /\ DOMAIN graph = 1..Len(graph)
  BY <1>1, LenProperties DEF Wired
<1>3. \A k \in DOMAIN graph : /\ graph[k].outs = <<Out(graph, k)>>
                              /\ Len(graph[k].outs) = 1
                              /\ Filters!Outs(graph[k]) = {Out(graph, k)}
  <2> SUFFICES ASSUME NEW k \in DOMAIN graph
               PROVE  /\ graph[k].outs = <<Out(graph, k)>>
                      /\ Len(graph[k].outs) = 1
                      /\ Filters!Outs(graph[k]) = {Out(graph, k)}
    OBVIOUS
  <2> DEFINE x == Out(graph, k)
  <2>1. graph[k].outs = <<x>>
    BY <1>1 DEF Wired
  <2> HIDE DEF x
  <2>2. /\ Len(<<x>>) = 1 /\ DOMAIN <<x>> = 1..1 /\ <<x>>[1] = x
    OBVIOUS
  <2>3. Filters!ToSet(<<x>>) = {x}
    BY <2>2 DEF Filters!ToSet
  <2> QED BY <2>1, <2>2, <2>3 DEF Filters!Outs, x
<1>4. \A k \in 0..Len(graph) : \A x :
        x \in Defined(k) <=> \E j \in 1..k : x = Out(graph, j)
  <2> SUFFICES ASSUME NEW k \in 0..Len(graph), NEW x
               PROVE  x \in Defined(k) <=> \E j \in 1..k : x = Out(graph, j)
    OBVIOUS
  <2>1. \A j \in 1..k : j \in DOMAIN graph
    BY <1>2
  <2>2. \A j \in 1..k : Filters!Outs(graph[j]) = {Out(graph, j)}
    BY <1>3, <2>1
  <2> QED BY <2>2
<1>5. \A k \in DOMAIN graph : Filters!ToSet(graph[k].ins) = In(graph, k)
  BY DEF Filters!ToSet, In
<1>6. InPads = CommandPads(n)
  BY DEF CommandPads
<1>7. Filters!Mapped(n) = MappedOf(job.kind, graph, n)
  <2>1. (\E c \in Filters!ToSet(graph) :
           Filters!Label("vsub") \in Filters!ToSet(c.outs))
          <=> \E i \in DOMAIN graph : Out(graph, i) = Filters!Label("vsub")
    <3>1. \A i \in DOMAIN graph : Filters!ToSet(graph[i].outs) = {Out(graph, i)}
      BY <1>3 DEF Filters!Outs
    <3>2. Filters!ToSet(graph) = {graph[i] : i \in DOMAIN graph}
      BY DEF Filters!ToSet
    <3> QED BY <3>1, <3>2
  <2> QED BY <2>1 DEF Filters!Mapped, MappedOf, Filters!kind
<1> HIDE DEF Defined, InPads
<1>8. ASSUME NEW k \in DOMAIN graph
      PROVE  /\ Len(graph[k].ins) = graph[k].takes /\ Len(graph[k].outs) = 1
             /\ Filters!ToSet(graph[k].ins) \subseteq InPads \cup Defined(k - 1)
             /\ Filters!Outs(graph[k]) \cap Defined(k - 1) = {}
  <2>1. k - 1 \in 0..Len(graph)
    BY <1>2
  <2>2. /\ Len(graph[k].ins) = graph[k].takes
        /\ \A x \in In(graph, k) :
             x \in CommandPads(n) \/ \E j \in 1..(k - 1) : x = Out(graph, j)
        /\ \A j \in 1..(k - 1) : Out(graph, j) # Out(graph, k)
    BY <1>1 DEF Wired
  <2>3. \A x : x \in Defined(k - 1) <=> \E j \in 1..(k - 1) : x = Out(graph, j)
    BY <1>4, <2>1
  <2>4. Filters!ToSet(graph[k].ins) \subseteq InPads \cup Defined(k - 1)
    BY <1>5, <1>6, <2>2, <2>3
  <2>5. Out(graph, k) \notin Defined(k - 1)
    BY <2>2, <2>3
  <2> QED BY <1>3, <2>2, <2>4, <2>5
<1>9. \A k, l \in DOMAIN graph :
        \A i \in DOMAIN graph[k].ins, j \in DOMAIN graph[l].ins :
          graph[k].ins[i] = graph[l].ins[j] => k = l /\ i = j
  BY <1>1 DEF Wired
<1>10. Defined(Len(graph)) \ Used = Filters!Mapped(n)
  <2>1. {Out(graph, k) : k \in DOMAIN graph}
          \ UNION {In(graph, k) : k \in DOMAIN graph} = Filters!Mapped(n)
    BY <1>1, <1>7 DEF Wired
  <2>2. Used = UNION {In(graph, k) : k \in DOMAIN graph}
    BY <1>5
  <2>3. Defined(Len(graph)) = {Out(graph, k) : k \in DOMAIN graph}
    <3>1. Len(graph) \in 0..Len(graph)
      BY <1>2
    <3> QED BY <1>2, <1>4, <3>1
  <2> QED BY <2>1, <2>2, <2>3
<1> QED BY <1>8, <1>9, <1>10 DEF Filters!GraphIsWired, Defined, InPads

LEMMA InitNumbers ==
  ASSUME Filters!JobsAssumption, Filters!Init PROVE NumbersInv
<1>1. /\ pads = <<0>> /\ inputs = <<0>> /\ graph = << >> /\ extra = 1
      /\ stage \in {"filter", "base"}
      /\ stage = "filter" => job.kind \in Filters!Builders
  BY DEF Filters!Init, Filters!kind
<1>2. Len(pads) = 1 /\ pads[1] = 0
  BY <1>1
<1>3. Increasing(pads)
  BY <1>2 DEF Increasing
<1>4. \A i \in 1..Len(pads) : pads[i] < extra
  BY <1>1, <1>2
<1> QED BY <1>1, <1>2, <1>3, <1>4 DEF NumbersInv, Filters!Builders

(* One more number: the list still increases. *)
LEMMA NextNumber ==
  ASSUME Filters!JobsAssumption, FilterInv, NumbersInv, stage = "filter",
         NEW items, items = IF extra \in 1..Extras /\ Filters!HasChain
                            THEN Append(pads, extra) ELSE pads
  PROVE  /\ items \in Seq(0..Extras) /\ Len(items) >= 1 /\ Increasing(items)
         /\ \A i \in 1..Len(items) : items[i] < extra + 1
         /\ job.kind \notin Chosen /\ extra \in 1..Extras => Len(items) = extra + 1
         /\ job.kind \notin Chosen /\ extra \notin 1..Extras => Len(items) = extra
<1>1. /\ Extras \in Nat /\ extra \in Nat /\ pads \in Seq(0..Extras)
      /\ Len(pads) >= 1 /\ Increasing(pads) /\ Len(pads) \in Nat
      /\ \A i \in 1..Len(pads) : pads[i] < extra /\ pads[i] \in Int
      /\ job.kind \notin Chosen => Len(pads) = extra
  <2>1. Filters!TypeOK
    BY DEF FilterInv
  <2>2. Extras \in Nat /\ extra \in Nat
    BY <2>1, JobFacts
  <2>3. pads \in Seq(0..Extras)
    BY <2>1 DEF Filters!TypeOK, Extras
  <2>4. Len(pads) \in Nat /\ \A i \in 1..Len(pads) : pads[i] \in 0..Extras
    BY <2>3, LenProperties, ElementOfSeq
  <2> QED BY <2>2, <2>3, <2>4 DEF NumbersInv
<1>2. CASE extra \in 1..Extras /\ Filters!HasChain
  <2>1. items = Append(pads, extra) /\ extra \in 0..Extras
    BY <1>1, <1>2
  <2>2. /\ items \in Seq(0..Extras) /\ Len(items) = Len(pads) + 1
        /\ items[Len(pads) + 1] = extra
        /\ \A i \in 1..Len(pads) : items[i] = pads[i]
    BY ONLY <1>1, <2>1, AppendProperties
  <2>3. \A i \in 1..Len(items) : i \in 1..Len(pads) \/ i = Len(pads) + 1
    BY <1>1, <2>2
  <2>4. \A i \in 1..Len(items) : items[i] < extra + 1
    BY <1>1, <2>2, <2>3
  <2>5. Increasing(items)
    <3> SUFFICES ASSUME NEW i \in 1..Len(items), NEW j \in 1..Len(items), i < j
                 PROVE  items[i] < items[j]
      BY DEF Increasing
    <3>1. i \in 1..Len(pads) /\ items[i] = pads[i]
      BY <1>1, <2>2, <2>3
    <3>2. CASE j \in 1..Len(pads)
      BY <1>1, <2>2, <3>1, <3>2 DEF Increasing
    <3>3. CASE j = Len(pads) + 1
      BY <1>1, <2>2, <3>1, <3>3
    <3> QED BY <2>3, <3>2, <3>3
  <2> QED BY <1>1, <1>2, <2>2, <2>4, <2>5
<1>3. CASE ~(extra \in 1..Extras /\ Filters!HasChain)
  <2>1. items = pads
    BY <1>3
  <2>2. \A i \in 1..Len(pads) : pads[i] < extra + 1
    BY <1>1
  <2>3. job.kind \notin Chosen => Filters!HasChain
    BY DEF Filters!HasChain, Filters!kind, Chosen
  <2> QED BY <1>1, <1>3, <2>1, <2>2, <2>3
<1> QED BY <1>2, <1>3

LEMMA FilterNumbers ==
  ASSUME Filters!JobsAssumption, FilterInv, NumbersInv, Filters!Filter
  PROVE  NumbersInv'
<1> DEFINE after == CASE job.kind = "overlay" -> "run"
                      [] job.kind \in Filters!Builders -> "done"
                      [] OTHER -> "inputs"
           items == pads'
<1>1. /\ stage = "filter" /\ UNCHANGED <<job, inputs>>
      /\ pads' = IF extra \in DOMAIN job.extras /\ Filters!HasChain
                 THEN Append(pads, extra) ELSE pads
      /\ graph' = IF Filters!LastExtra THEN Filters!Graph(pads') ELSE graph
  BY DEF Filters!Filter
<1>2. Filters!NextExtra(after, 1)
  BY DEF Filters!Filter, Filters!kind
<1>3. /\ Extras \in Nat /\ DOMAIN job.extras = 1..Extras
      /\ extra \in Nat /\ extra >= 1 /\ Filters!TypeOK
      /\ Filters!LastExtra <=> extra >= Extras
      /\ extra = 1 \/ extra <= Extras
  BY <1>1, JobFacts DEF FilterInv, Outcome
<1>4. /\ after # "filter" /\ after \notin Preparing
      /\ ~(job.kind = "overlay" /\ after \in {"inputs", "none"})
  BY DEF Preparing
<1> HIDE DEF after, items
<1>5. /\ extra >= Extras => stage' = after /\ extra' = 1
      /\ extra < Extras => stage' = "filter" /\ extra' = extra + 1
  BY <1>1, <1>2, <1>3, ExtraMoves
<1>6. Extras' = Extras /\ job' = job /\ inputs' = inputs
  BY <1>1 DEF Extras
<1>7. items = IF extra \in 1..Extras /\ Filters!HasChain
              THEN Append(pads, extra) ELSE pads
  BY <1>1, <1>3 DEF items
<1>8. /\ items \in Seq(0..Extras) /\ Len(items) >= 1 /\ Increasing(items)
      /\ \A i \in 1..Len(items) : items[i] < extra + 1
      /\ job.kind \notin Chosen /\ extra \in 1..Extras => Len(items) = extra + 1
      /\ job.kind \notin Chosen /\ extra \notin 1..Extras => Len(items) = extra
  BY <1>1, <1>7, NextNumber
<1>9. Increasing(items) = Increasing(pads)'
  BY DEF Increasing, items
<1>10. graph = << >> /\ (Extras = 0 => inputs = <<0>>)
       /\ (job.kind = "overlay" => Extras >= 1)
  BY <1>1 DEF NumbersInv
<1>11. ~Early'
  <2>1. stage' = after \/ stage' = "filter"
    BY <1>3, <1>5
  <2> QED BY <1>4, <1>6, <2>1 DEF Early, Preparing
<1>12. stage' = "filter" =>
         /\ graph' = << >>
         /\ \A i \in 1..Len(items) : items[i] < extra'
         /\ job.kind \notin Chosen => Len(items) = extra'
  <2> SUFFICES ASSUME stage' = "filter"
               PROVE  /\ graph' = << >>
                      /\ \A i \in 1..Len(items) : items[i] < extra'
                      /\ job.kind \notin Chosen => Len(items) = extra'
    OBVIOUS
  <2>1. extra < Extras /\ extra' = extra + 1 /\ extra \in 1..Extras
    BY <1>3, <1>4, <1>5
  <2>2. graph' = << >>
    BY <1>1, <1>3, <1>10, <2>1
  <2> QED BY <1>8, <2>1, <2>2
<1>13. ASSUME graph' # << >>, Wires
       PROVE  Wired(graph', Len(items), MappedOf(job.kind, graph', Len(items)))
  <2>1. Filters!LastExtra /\ graph' = Filters!Graph(items) /\ extra >= Extras
    BY <1>1, <1>3, <1>10, <1>13 DEF items
  <2>2. job.kind \notin Chosen => Len(items) = Extras + 1
    BY <1>3, <1>8, <2>1
  <2>3. Wired(Filters!Graph(items), Len(items),
              MappedOf(job.kind, Filters!Graph(items), Len(items)))
    BY <1>3, <1>8, <1>10, <1>13, <2>2, GraphMade
  <2> QED BY <2>1, <2>3
<1>14. (graph # << >> /\ Wires =>
          Wired(graph, Len(pads), MappedOf(job.kind, graph, Len(pads))))'
  BY <1>6, <1>13 DEF Wires, items, Wired, MappedOf, Out, In
<1> QED BY <1>6, <1>8, <1>9, <1>10, <1>11, <1>12, <1>14 DEF NumbersInv, items

(* The other steps leave the graph and its numbers alone, and go back to   *)
(* numbering only before a graph was made.                                 *)
LEMMA KeepNumbers ==
  ASSUME Filters!JobsAssumption, FilterInv, NumbersInv,
         UNCHANGED <<job, pads, graph>>,
         inputs' = inputs \/ Extras # 0,
         Early' => Early,
         stage' = "filter" =>
           \/ stage = "filter" /\ extra' = extra
           \/ Early /\ extra' = 1 /\ (job.kind = "overlay" => Extras >= 1)
  PROVE  NumbersInv'
<1>1. Extras' = Extras
  BY DEF Extras
<1>2. Early => Len(pads) = 1 /\ pads[1] = 0
  <2>1. Len(<<0>>) = 1 /\ <<0>>[1] = 0
    OBVIOUS
  <2> QED BY <2>1 DEF NumbersInv
<1>3. /\ (Len(pads) >= 1)' /\ Increasing(pads)'
  BY DEF NumbersInv, Increasing
<1>4. (stage = "filter" =>
        /\ graph = << >>
        /\ \A i \in 1..Len(pads) : pads[i] < extra
        /\ job.kind \notin Chosen => Len(pads) = extra)'
  <2> SUFFICES ASSUME stage' = "filter"
               PROVE  /\ graph = << >>
                      /\ \A i \in 1..Len(pads) : pads[i] < extra'
                      /\ job.kind \notin Chosen => Len(pads) = extra'
    OBVIOUS
  <2>1. CASE stage = "filter" /\ extra' = extra
    BY <2>1 DEF NumbersInv
  <2>2. CASE Early /\ extra' = 1
    <3>1. \A i \in 1..Len(pads) : pads[i] < 1
      <4>1. \A i \in 1..1 : i = 1
        OBVIOUS
      <4>2. Len(pads) = 1 /\ pads[1] = 0
        BY <1>2, <2>2, Zenon
      <4> QED BY ONLY <4>1, <4>2
    <3> QED BY <1>2, <2>2, <3>1 DEF NumbersInv
  <2> QED BY <2>1, <2>2
<1>5. (job.kind = "overlay" /\ stage = "filter" => Extras >= 1)'
  BY <1>1 DEF NumbersInv
<1>6. (graph # << >> /\ Wires =>
         Wired(graph, Len(pads), MappedOf(job.kind, graph, Len(pads))))'
  <2>1. graph # << >> /\ Wires =>
          Wired(graph, Len(pads), MappedOf(job.kind, graph, Len(pads)))
    BY DEF NumbersInv
  <2>2. graph' = graph /\ pads' = pads /\ job' = job
    OBVIOUS
  <2>3. graph' # << >> /\ Wires =>
          Wired(graph', Len(pads'), MappedOf(job'.kind, graph', Len(pads')))
    BY ONLY <2>1, <2>2, Zenon
  <2> QED BY <2>2, <2>3 DEF Wires, Wired, MappedOf, Out, In
<1>7. (Early => pads = <<0>> /\ graph = << >>)' /\ (Extras = 0 => inputs = <<0>>)'
  BY <1>1 DEF NumbersInv
<1> QED BY <1>3, <1>4, <1>5, <1>6, <1>7 DEF NumbersInv

LEMMA InputNumbers ==
  ASSUME Filters!JobsAssumption, FilterInv, NumbersInv, Filters!Input
  PROVE  NumbersInv'
<1> DEFINE after == IF job.kind # "overlay" THEN "run"
                    ELSE IF inputs' = <<0>> THEN "none" ELSE "filter"
<1>1. /\ stage = "inputs" /\ UNCHANGED <<job, pads, graph>>
      /\ inputs' = IF extra \in DOMAIN job.extras /\ Filters!IsInput
                   THEN Append(inputs, extra) ELSE inputs
  BY DEF Filters!Input, Filters!Keep
<1>2. Filters!NextExtra(after, 1)
  BY DEF Filters!Input, Filters!kind
<1>3. /\ Extras \in Nat /\ DOMAIN job.extras = 1..Extras
      /\ extra \in Nat /\ extra >= 1 /\ Filters!TypeOK
  BY <1>1, JobFacts DEF FilterInv
<1>4. inputs' = inputs \/ Extras # 0
  BY <1>1, <1>3
<1>5. /\ after \in {"run", "none", "filter"}
      /\ after = "run" => job.kind # "overlay"
      /\ after = "filter" => job.kind = "overlay" /\ inputs' # <<0>>
  OBVIOUS
<1> HIDE DEF after
<1>6. /\ extra >= Extras => stage' = after /\ extra' = 1
      /\ extra < Extras => stage' = "inputs" /\ extra' = extra + 1
  BY <1>1, <1>2, <1>3, ExtraMoves
<1>7. Early' => Early
  <2>1. stage' = after \/ stage' = "inputs"
    BY <1>3, <1>6
  <2>2. stage' \notin Preparing
    BY <1>5, <2>1 DEF Preparing
  <2> QED BY <1>1, <2>2 DEF Early
<1>8. stage' = "filter" =>
        Early /\ extra' = 1 /\ (job.kind = "overlay" => Extras >= 1)
  <2> SUFFICES ASSUME stage' = "filter"
               PROVE  Early /\ extra' = 1 /\ Extras >= 1
    OBVIOUS
  <2>1. extra' = 1 /\ job.kind = "overlay" /\ inputs' # <<0>>
    BY <1>3, <1>5, <1>6
  <2>2. Extras # 0
    BY <1>4, <2>1 DEF NumbersInv
  <2> QED BY <1>1, <1>3, <2>1, <2>2 DEF Early
<1> QED BY <1>1, <1>4, <1>7, <1>8, KeepNumbers

LEMMA PreparingNumbers ==
  ASSUME Filters!JobsAssumption, FilterInv, NumbersInv,
         Filters!HasBase \/ Filters!AcceptExtra
  PROVE  NumbersInv'
<1>1. stage \in Preparing /\ UNCHANGED <<job, pads, inputs, graph>>
  BY DEF Filters!HasBase, Filters!AcceptExtra, Filters!Keep, Filters!build,
         Preparing
<1>2. stage' = "filter" => extra' = 1 /\ job.kind # "overlay"
  <2>1. CASE Filters!HasBase
    BY <2>1 DEF Filters!HasBase, Filters!Goto, Filters!kind
  <2>2. CASE Filters!AcceptExtra
    BY <2>2 DEF Filters!AcceptExtra, Filters!NextExtra, Filters!Goto, Filters!kind
  <2> QED BY <2>1, <2>2
<1> QED BY <1>1, <1>2, KeepNumbers DEF Early

(* The numbers and the graph, in every state of a job.                     *)
LEMMA NumbersHold ==
  ASSUME Filters!JobsAssumption
  PROVE  Filters!Spec => []NumbersInv
<1>1. Filters!Init => NumbersInv
  BY InitNumbers
<1>2. FilterInv /\ NumbersInv /\ [Filters!Next]_(Filters!vars) => NumbersInv'
  <2> SUFFICES ASSUME FilterInv, NumbersInv, [Filters!Next]_(Filters!vars)
               PROVE  NumbersInv'
    OBVIOUS
  <2>1. CASE Filters!NoBase \/ Filters!RejectExtra \/ Filters!OffsetTooLong
               \/ Filters!NoOverlays \/ Filters!FfmpegFails
    <3>1. Filters!Fail
      BY <2>1 DEF Filters!NoBase, Filters!RejectExtra, Filters!OffsetTooLong,
                  Filters!NoOverlays, Filters!FfmpegFails
    <3>2. stage' = "done" /\ UNCHANGED <<job, pads, inputs, graph>>
      BY <3>1 DEF Filters!Fail, Filters!build
    <3> QED BY <3>2, KeepNumbers DEF Early, Preparing
  <2>2. CASE Filters!HasBase \/ Filters!AcceptExtra
    BY <2>2, PreparingNumbers
  <2>3. CASE Filters!Filter
    BY <2>3, FilterNumbers
  <2>4. CASE Filters!Input
    BY <2>4, InputNumbers
  <2>5. CASE Filters!Ffmpeg \/ Filters!Verify
    <3>1. stage' \in {"verify", "done"} /\ UNCHANGED <<job, pads, inputs, graph>>
      BY <2>5 DEF Filters!Ffmpeg, Filters!Verify, Filters!Goto, Filters!build
    <3> QED BY <3>1, KeepNumbers DEF Early, Preparing
  <2>6. CASE \/ \E p \in Paths : Filters!ChangeFile(p)
             \/ Filters!Done \/ UNCHANGED Filters!vars
    <3>1. UNCHANGED <<job, stage, extra, pads, inputs, graph>>
      BY <2>6 DEF Filters!ChangeFile, Filters!Done, Filters!vars, Filters!build
    <3>2. Early' = Early
      BY <3>1 DEF Early
    <3> QED BY <3>1, <3>2, KeepNumbers
  <2> QED BY <2>1, <2>2, <2>3, <2>4, <2>5, <2>6 DEF Filters!Next, Filters!Job
<1> QED BY <1>1, <1>2, FilterHolds, PTL DEF Filters!Spec

(* The graph of a job, whatever its extras are, holds together: each label *)
(* is made once and used once, later, each number is one of a file, and    *)
(* what is left over is what the command maps to the output.  (amix and    *)
(* concat are left out: their texts do not hold together.)                 *)
THEOREM GraphWired ==
  ASSUME Filters!JobsAssumption
  PROVE  Filters!Spec => []Filters!GraphIsWired
<1>1. FilterInv /\ NumbersInv => Filters!GraphIsWired
  BY WiredGraph DEF FilterInv
<1> QED BY <1>1, FilterHolds, NumbersHold, PTL

(* The base is heard in the ranges of the job and there only, voice-over   *)
(* and music in the rest, and an overlay is enabled outside them.          *)
THEOREM GatesAlwaysSplit ==
  ASSUME Filters!JobsAssumption
  PROVE  Filters!Spec => []Filters!GatesSplitTime
<1>1. FilterInv => Filters!GatesSplitTime
  BY GatesSplit DEF FilterInv, Filters!TypeOK
<1> QED BY <1>1, FilterHolds, PTL

-----------------------------------------------------------------------------
(* The parts next to each other.                                           *)

Stock == INSTANCE BufferPoolProofs

NoKernels == part # "kernels"
NoFilters == part # "filters"

LEMMA PartsStep ==
  ASSUME [AudioNext]_audioVars
  PROVE  /\ [Next]_vars /\ [BufferPools!Next]_(BufferPools!vars)
         /\ [Mix!Next]_(Mix!vars) /\ [Filters!Next]_(Filters!vars)
         /\ (part = "kernels")' <=> part = "kernels"
         /\ NoKernels => NoKernels'
         /\ NoFilters => NoFilters'
<1>1. CASE AudioNext
  BY <1>1 DEF AudioNext, vars, kernelVars, poolVars, filterVars, Mix!vars,
              BufferPools!vars, Filters!vars, Filters!build, NoKernels, NoFilters
<1>2. CASE UNCHANGED audioVars
  BY <1>2 DEF audioVars, vars, kernelVars, poolVars, filterVars, Mix!vars,
              BufferPools!vars, Filters!vars, Filters!build, NoKernels, NoFilters
<1> QED BY <1>1, <1>2

(* Each part runs as its own module says it does, or not at all. *)
THEOREM EachPartRuns ==
  AudioSpec => /\ Spec /\ BufferPools!Spec
               /\ Mix!Spec \/ []NoKernels
               /\ Filters!Spec \/ []NoFilters
<1>1. AudioInit => /\ Init /\ BufferPools!Init
                   /\ Mix!Init \/ NoKernels
                   /\ Filters!Init \/ NoFilters
  BY DEF AudioInit, NoKernels, NoFilters
<1> QED BY <1>1, PartsStep, PTL
        DEF AudioSpec, Spec, BufferPools!Spec, Mix!Spec, Filters!Spec

(* The specification BufferPoolProofs is about, with its own instance of   *)
(* the sizes of sets.                                                      *)
LEMMA SameSize ==
  \A S : /\ BufferPools!IsFiniteSet(S) <=> Stock!IsFiniteSet(S)
         /\ BufferPools!Cardinality(S) = Stock!Cardinality(S)
BY DEF BufferPools!IsFiniteSet, Stock!IsFiniteSet, BufferPools!Cardinality,
       Stock!Cardinality

LEMMA SameStock ==
  /\ BufferPools!PoolAssumption => Stock!PoolAssumption
  /\ BufferPools!Init => Stock!Init
  /\ [BufferPools!Next]_(BufferPools!vars) => [Stock!Next]_(Stock!vars)
  /\ Stock!TypeOK => BufferPools!TypeOK
  /\ Stock!FreshIsSilent => BufferPools!FreshIsSilent
  /\ Stock!AllocatesAtPeakOnly => BufferPools!AllocatesAtPeakOnly
<1>1. BufferPools!PoolAssumption => Stock!PoolAssumption
  BY SameSize DEF BufferPools!PoolAssumption, Stock!PoolAssumption,
         BufferPools!Kinds, Stock!Kinds
<1>2. BufferPools!Init => Stock!Init
  BY DEF BufferPools!Init, Stock!Init, BufferPools!Stacks, Stock!Stacks,
         BufferPools!Nothing, Stock!Nothing
<1>3. [BufferPools!Next]_(BufferPools!vars) => [Stock!Next]_(Stock!vars)
  <2> SUFFICES ASSUME [BufferPools!Next]_(BufferPools!vars)
               PROVE  [Stock!Next]_(Stock!vars)
    OBVIOUS
  <2>1. ASSUME NEW t, NEW h, NEW k, BufferPools!AcquireNew(t, h, k)
        PROVE Stock!AcquireNew(t, h, k)
    BY <2>1, SameSize DEF BufferPools!AcquireNew, Stock!AcquireNew,
           BufferPools!Nothing, Stock!Nothing, BufferPools!StackOf,
           Stock!StackOf, BufferPools!Guard, Stock!Guard,
           BufferPools!NewBuffer, Stock!NewBuffer, BufferPools!Counted,
           Stock!Counted, BufferPools!Buffer, Stock!Buffer,
           BufferPools!larger, Stock!larger, BufferPools!GuardsOf,
           Stock!GuardsOf
  <2>2. ASSUME NEW t, NEW h, NEW k, BufferPools!AcquireCached(t, h, k)
        PROVE Stock!AcquireCached(t, h, k)
    BY <2>2, SameSize DEF BufferPools!AcquireCached, Stock!AcquireCached,
           BufferPools!StackOf, Stock!StackOf, BufferPools!Nothing,
           Stock!Nothing, BufferPools!Guard, Stock!Guard, BufferPools!Reused,
           Stock!Reused, BufferPools!Counted, Stock!Counted,
           BufferPools!resize, Stock!resize, BufferPools!clear, Stock!clear,
           BufferPools!larger, Stock!larger, BufferPools!GuardsOf,
           Stock!GuardsOf, BufferPools!smaller, Stock!smaller
  <2>3. ASSUME NEW h, BufferPools!Drop(h)
        PROVE Stock!Drop(h)
    BY <2>3 DEF BufferPools!Drop, Stock!Drop, BufferPools!Nothing,
           Stock!Nothing, BufferPools!tl_release, Stock!tl_release,
           BufferPools!release, Stock!release, BufferPools!FitsClass,
           Stock!FitsClass, BufferPools!Push, Stock!Push, BufferPools!clear,
           Stock!clear
  <2>4. ASSUME NEW h, BufferPools!into_inner(h)
        PROVE Stock!into_inner(h)
    BY <2>4 DEF BufferPools!into_inner, Stock!into_inner, BufferPools!Nothing,
           Stock!Nothing, BufferPools!Owners, Stock!Owners
  <2>5. ASSUME NEW h, BufferPools!DropRaw(h)
        PROVE Stock!DropRaw(h)
    BY <2>5 DEF BufferPools!DropRaw, Stock!DropRaw, BufferPools!Nothing,
           Stock!Nothing
  <2>6. ASSUME NEW h, BufferPools!Write(h)
        PROVE Stock!Write(h)
    BY <2>6 DEF BufferPools!Write, Stock!Write, BufferPools!Nothing,
           Stock!Nothing, BufferPools!Written, Stock!Written
  <2>7. ASSUME NEW h, NEW p, BufferPools!ReleaseRaw(h, p)
        PROVE Stock!ReleaseRaw(h, p)
    BY <2>7 DEF BufferPools!ReleaseRaw, Stock!ReleaseRaw, BufferPools!Nothing,
           Stock!Nothing, BufferPools!release, Stock!release,
           BufferPools!Push, Stock!Push, BufferPools!clear, Stock!clear
  <2>8. ASSUME NEW h, NEW t, BufferPools!Send(h, t)
        PROVE Stock!Send(h, t)
    BY <2>8 DEF BufferPools!Send, Stock!Send, BufferPools!Nothing,
           Stock!Nothing, BufferPools!Owners, Stock!Owners
  <2> QED BY <2>1, <2>2, <2>3, <2>4, <2>5, <2>6, <2>7, <2>8
       DEF BufferPools!Next, Stock!Next, BufferPools!vars, Stock!vars,
           BufferPools!Kinds, Stock!Kinds
<1>4. Stock!TypeOK => BufferPools!TypeOK
  BY DEF BufferPools!TypeOK, Stock!TypeOK, BufferPools!Stacks, Stock!Stacks,
         BufferPools!Buffers, Stock!Buffers, BufferPools!Held, Stock!Held,
         BufferPools!Nothing, Stock!Nothing, BufferPools!Owners, Stock!Owners,
         BufferPools!Kinds, Stock!Kinds
<1>5. Stock!FreshIsSilent => BufferPools!FreshIsSilent
  BY DEF BufferPools!FreshIsSilent, Stock!FreshIsSilent, BufferPools!Nothing,
         Stock!Nothing
<1>6. Stock!AllocatesAtPeakOnly => BufferPools!AllocatesAtPeakOnly
  BY DEF BufferPools!AllocatesAtPeakOnly, Stock!AllocatesAtPeakOnly
<1> QED BY <1>1, <1>2, <1>3, <1>4, <1>5, <1>6

LEMMA StockRuns == BufferPools!Spec => Stock!Spec
BY SameStock, PTL DEF BufferPools!Spec, Stock!Spec

(* The parts keep their types, with whole frames for the encoder. *)
THEOREM PartsTyped == ASSUME AudioAssumption PROVE AudioSpec => []PartsTypeOK
<1>1. Stock!Spec => []Stock!TypeOK
  BY SameStock, Stock!TypeCorrect DEF AudioAssumption
<1>2. Mix!Spec => [](Mix!TypeOK /\ Mix!NeighboursKept)
  BY KernelsStayInside DEF AudioAssumption
<1>3. Filters!Spec => []Filters!TypeOK
  BY JobsTyped DEF AudioAssumption
<1>4. /\ TypeOK /\ WholeFrames /\ Stock!TypeOK
      /\ NoKernels \/ (Mix!TypeOK /\ Mix!NeighboursKept)
      /\ NoFilters \/ Filters!TypeOK
      => PartsTypeOK
  BY SameStock DEF PartsTypeOK, NoKernels, NoFilters
<1> QED BY <1>1, <1>2, <1>3, <1>4, TypeCorrect, FramesWhole, EachPartRuns,
           StockRuns, PTL

(* A kernel that is done has computed what its function promises. *)
THEOREM PartsCompute == ASSUME AudioAssumption PROVE AudioSpec => []ResultIsReference
<1>1. Mix!Spec => []Mix!ResultIsReference
  BY KernelsCompute DEF AudioAssumption
<1>2. NoKernels \/ Mix!ResultIsReference => ResultIsReference
  BY DEF ResultIsReference, NoKernels
<1> QED BY <1>1, <1>2, EachPartRuns, PTL

(* Memory behind the buffer keeps its contents at every step of a kernel. *)
THEOREM PartsStayInside == ASSUME AudioAssumption PROVE AudioSpec => []NeighboursKept
<1>1. Mix!Spec => [](Mix!TypeOK /\ Mix!NeighboursKept)
  BY KernelsStayInside DEF AudioAssumption
<1>2. NoKernels \/ (Mix!TypeOK /\ Mix!NeighboursKept) => NeighboursKept
  BY DEF NeighboursKept, NoKernels
<1> QED BY <1>1, <1>2, EachPartRuns, PTL

(* A buffer that is handed out is silent, of the right length, whatever    *)
(* its last owner wrote.                                                   *)
THEOREM PartsFresh == ASSUME AudioAssumption PROVE AudioSpec => []FreshIsSilent
<1>1. Stock!Spec => []Stock!FreshIsSilent
  BY SameStock, Stock!FreshSilent DEF AudioAssumption
<1>2. Stock!FreshIsSilent => FreshIsSilent
  BY SameStock DEF FreshIsSilent
<1> QED BY <1>1, <1>2, EachPartRuns, StockRuns, PTL

(* A thread allocates a buffer of a class only when it has more of them in *)
(* use than ever before, up to the limit of its stack.                     *)
THEOREM PartsAllocate == ASSUME AudioAssumption PROVE AudioSpec => []AllocatesAtPeakOnly
<1>1. Stock!Spec => []Stock!AllocatesAtPeakOnly
  BY SameStock, Stock!AllocatesAtPeak DEF AudioAssumption
<1>2. Stock!AllocatesAtPeakOnly => AllocatesAtPeakOnly
  BY SameStock DEF AllocatesAtPeakOnly
<1> QED BY <1>1, <1>2, EachPartRuns, StockRuns, PTL

(* A job that succeeds has made its output itself, from the files its      *)
(* graph was written for unless files changed meanwhile.                   *)
THEOREM PartsMakeOutput == ASSUME AudioAssumption PROVE AudioSpec => []OutputAsMeant
<1>1. Filters!Spec => []Filters!OutputAsMeant
  BY OutputMeant DEF AudioAssumption
<1>2. NoFilters \/ Filters!OutputAsMeant => OutputAsMeant
  BY DEF OutputAsMeant, NoFilters
<1> QED BY <1>1, <1>2, EachPartRuns, PTL

(* The graph of a job holds together, and its gates split the time.        *)
THEOREM PartsWired == ASSUME AudioAssumption PROVE AudioSpec => []GraphIsWired
<1>1. Filters!Spec => [](Filters!GraphIsWired /\ Filters!GatesSplitTime)
  BY GraphWired, GatesAlwaysSplit, PTL DEF AudioAssumption
<1>2. NoFilters \/ (Filters!GraphIsWired /\ Filters!GatesSplitTime) => GraphIsWired
  BY DEF GraphIsWired, NoFilters
<1> QED BY <1>1, <1>2, EachPartRuns, PTL
=============================================================================
