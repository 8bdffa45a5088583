----------------------------- MODULE CoreProofs -----------------------------
(***************************************************************************)
(* Theorems about three components that share no state: BatchScheduler,    *)
(* for any workers, costs and number of jobs; ThreadPool, for any callers, *)
(* cores and tasks; and RenderGraph, for any graphs, files and clock.      *)
(***************************************************************************)
EXTENDS CoreParts, FiniteSetTheorems, SequenceTheorems, TLAPS

-----------------------------------------------------------------------------
(* Sorting.                                                                *)

(* A set of natural numbers with an element has a least one.               *)
LEMMA LeastNatural ==
  ASSUME NEW T \in SUBSET Nat, T # {}
  PROVE  \E m \in T : \A k \in T : m <= k
<1> DEFINE R == OpToRel(<, Nat)
<1>1. \A a, b \in Nat : a < b => <<a, b>> \in R
  BY DEF OpToRel
<1>2. IsWellFoundedOn(R, Nat)
  BY NatLessThanWellFounded
<1> HIDE DEF R
<1>3. PICK m \in T : \A k \in T : ~ (<<k, m>> \in R)
  BY <1>2, WFMin
<1>4. \A k \in T : ~ (k < m)
  BY <1>1, <1>3
<1>5. \A k \in T : m <= k
  BY <1>4
<1> QED BY <1>5

(* The only way to list 1..n in increasing order.                          *)
LEMMA IncreasingIsIdentity ==
  ASSUME NEW n \in Nat, NEW f \in [1..n -> 1..n],
         \A x, y \in 1..n : x < y => f[x] < f[y]
  PROVE  \A x \in 1..n : f[x] = x
<1>1. \A x \in 1..n : f[x] >= x
  <2> DEFINE Low == {x \in 1..n : f[x] < x}
  <2> SUFFICES ASSUME Low # {} PROVE FALSE
    OBVIOUS
  <2>0. Low \in SUBSET Nat
    OBVIOUS
  <2>1. PICK m \in Low : \A k \in Low : m <= k
    <3> HIDE DEF Low
    <3> QED BY <2>0, LeastNatural
  <2>2. m \in 1..n /\ f[m] < m /\ f[m] \in 1..n
    OBVIOUS
  <2>3. m - 1 \in 1..n /\ m - 1 \notin Low
    BY <2>1, <2>2
  <2>4. f[m-1] < f[m] /\ f[m-1] >= m - 1 /\ f[m-1] \in 1..n
    BY <2>2, <2>3
  <2> QED BY <2>2, <2>4
<1>2. \A x \in 1..n : f[x] <= x
  <2> DEFINE High == {d \in 0..n : \E x \in 1..n : d = n - x /\ f[x] > x}
  <2> SUFFICES ASSUME High # {} PROVE FALSE
    <3> SUFFICES ASSUME NEW x \in 1..n, f[x] > x PROVE High # {}
      OBVIOUS
    <3>1. n - x \in High
      OBVIOUS
    <3> QED BY <3>1
  <2>0. High \in SUBSET Nat
    OBVIOUS
  <2>1. PICK d \in High : \A k \in High : d <= k
    <3> HIDE DEF High
    <3> QED BY <2>0, LeastNatural
  <2>2. PICK x \in 1..n : d = n - x /\ f[x] > x
    BY <2>1
  <2>3. f[x] \in 1..n /\ x + 1 \in 1..n
    BY <2>2
  <2>4. f[x+1] > f[x] /\ f[x+1] \in 1..n
    <3> HIDE DEF High
    <3> QED BY <2>3
  <2>5. n - (x + 1) \in High
    BY <2>2, <2>3, <2>4
  <2>6. d <= n - (x + 1)
    <3> HIDE DEF High
    <3> QED BY <2>1, <2>5
  <2> QED BY <2>2, <2>6
<1> QED BY <1>1, <1>2

(* Sorting the positions by cost only moves them around.                   *)
LEMMA SortedPositions ==
  ASSUME N \in Nat,
         NEW s \in Sorted(1..N, cost)
  PROVE  s \in Injection(1..N, 1..N) /\ s \in Surjection(1..N, 1..N)
<1>1. IsFiniteSet(1..N) /\ Cardinality(1..N) = N
  BY FS_Interval
<1>2. s \in Injection(1..N, 1..N)
  BY <1>1 DEF Sorted, Injection, IsInjective
<1> QED BY <1>1, <1>2, FS_Injection

(* The results, each with its position, sorted by position: the list of    *)
(* the jobs' results.                                                      *)
LEMMA SortedResults ==
  ASSUME N \in Nat,
         NEW S, S = {<<i, F(i)>> : i \in 1..N},
         NEW r \in Sorted(S, [a \in S |-> a[1]])
  PROVE  [x \in DOMAIN r |-> r[x][2]] = [i \in 1..N |-> F(i)]
<1> DEFINE g == [i \in 1..N |-> <<i, F(i)>>]
           f == [x \in 1..N |-> r[x][1]]
<1>1. Cardinality(S) = N
  <2>1. g \in Bijection(1..N, S)
    BY DEF Bijection, Injection, IsInjective, Surjection
  <2>2. IsFiniteSet(1..N) /\ Cardinality(1..N) = N
    BY FS_Interval
  <2> QED BY <2>1, <2>2, FS_Bijection DEF ExistsBijection
<1>2. /\ r \in [1..N -> S]
      /\ \A x, y \in 1..N : x # y => r[x] # r[y]
      /\ \A x, y \in 1..N : x < y => r[x][1] <= r[y][1]
  BY <1>1 DEF Sorted
<1>3. \A x \in 1..N : r[x][1] \in 1..N /\ r[x] = <<r[x][1], F(r[x][1])>>
  BY <1>2
<1>4. f \in [1..N -> 1..N]
  BY <1>3
<1>5. \A x, y \in 1..N : x < y => f[x] < f[y]
  <2> SUFFICES ASSUME NEW x \in 1..N, NEW y \in 1..N, x < y
               PROVE  r[x][1] < r[y][1]
    OBVIOUS
  <2>1. r[x][1] # r[y][1]
    <3>1. x # y
      OBVIOUS
    <3>2. r[x][1] = r[y][1] => r[x] = r[y]
      BY <1>3, Zenon
    <3> QED BY <1>2, <3>1, <3>2
  <2>2. r[x][1] \in Int /\ r[y][1] \in Int /\ r[x][1] <= r[y][1]
    BY <1>2, <1>3
  <2> QED BY <2>1, <2>2
<1>6. \A x \in 1..N : f[x] = x
  <2> HIDE DEF f
  <2> QED BY <1>4, <1>5, IncreasingIsIdentity
<1>7. \A x \in 1..N : r[x] = <<x, F(x)>>
  BY <1>3, <1>6
<1> QED BY <1>2, <1>7

-----------------------------------------------------------------------------
(* The inductive invariant: the parts lie within the vector, the sort has  *)
(* only moved the positions around, a result is that of the job at its     *)
(* place, and the jobs that have started are those that have a result.     *)

InRange(s) == 1 <= s.from /\ s.from <= s.to + 1 /\ s.to <= N
PartsIn == \A h \in Handles : InRange(PartAt(h))

AtStart ==
  phase = "call" =>
    /\ indexed = << >> /\ results = << >> /\ started = << >>
    /\ part = [w \in Workers |-> Nothing]
    /\ queue = [w \in Workers |-> << >>]

Outcome(x) == <<indexed[x], F(indexed[x])>>
Ran == {x \in 1..N : results[x] # Pending}

Scheduled ==
  phase \in {"run", "restore"} =>
    /\ indexed \in [1..N -> 1..N]
    /\ \A x, y \in 1..N : x # y => indexed[x] # indexed[y]
    /\ \A i \in 1..N : \E x \in 1..N : indexed[x] = i
    /\ DOMAIN results = 1..N
    /\ \A x \in 1..N : results[x] \in {Pending, Outcome(x)}
    /\ ToSet(started) = {indexed[x] : x \in Ran}

AllRan == phase = "restore" => Ran = 1..N

BatchInv ==
  TypeOK /\ PartsIn /\ AtStart /\ Scheduled /\ PartsCoverPending /\ AllRan

LEMMA JobsCounted ==
  ASSUME TypeOK
  PROVE  N \in Nat
BY LenProperties DEF TypeOK, N

-----------------------------------------------------------------------------
(* The parts of the workers.                                               *)

LEMMA HandleRules ==
  ASSUME part \in [Workers -> Parts], queue \in [Workers -> Seq(Parts)]
  PROVE  /\ \A w \in Workers : <<w, 0>> \in Handles /\ PartAt(<<w, 0>>) = part[w]
         /\ \A w \in Workers : \A i \in 1..Len(queue[w]) :
              /\ <<w, i>> \in Handles /\ PartAt(<<w, i>>) = queue[w][i]
              /\ queue[w][i] \in Parts
         /\ \A h \in Handles :
              \E w \in Workers : \E i \in 0..Len(queue[w]) : h = <<w, i>>
         /\ \A h \in Handles : PartAt(h) \in Parts
<1>1. \A w \in Workers : Len(queue[w]) \in Nat
  BY LenProperties
<1>2. \A w \in Workers : <<w, 0>> \in Handles /\ PartAt(<<w, 0>>) = part[w]
  BY <1>1 DEF Handles, PartAt
<1>3. ASSUME NEW w \in Workers, NEW i \in 1..Len(queue[w])
      PROVE  /\ <<w, i>> \in Handles /\ PartAt(<<w, i>>) = queue[w][i]
             /\ queue[w][i] \in Parts
  <2>1. queue[w][i] \in Parts
    BY ElementOfSeq
  <2>2. i \in 0..Len(queue[w]) /\ i # 0
    BY <1>1
  <2> QED BY <2>1, <2>2 DEF Handles, PartAt
<1>4. \A h \in Handles :
        \E w \in Workers : \E i \in 0..Len(queue[w]) : h = <<w, i>>
  BY DEF Handles
<1>5. ASSUME NEW h \in Handles PROVE PartAt(h) \in Parts
  <2>0. PICK w \in Workers : \E i \in 0..Len(queue[w]) : h = <<w, i>>
    BY <1>4
  <2>1. PICK i \in 0..Len(queue[w]) : h = <<w, i>>
    BY <2>0
  <2>2. CASE i = 0
    BY <1>2, <2>1, <2>2
  <2>3. CASE i # 0
    <3>1. i \in 1..Len(queue[w])
      BY <1>1, <2>3
    <3> QED BY <1>3, <2>1, <3>1
  <2> QED BY <2>2, <2>3
<1> QED BY <1>2, <1>3, <1>4, <1>5

(* A step that only cuts parts up or moves them: every new part lies in an *)
(* old one, those that lie in the same do not overlap, and no place is     *)
(* forgotten.                                                              *)
LEMMA Recut ==
  ASSUME PartsCoverPending, phase = "run", phase' = "run",
         UNCHANGED <<cost, results>>,
         NEW m \in [Handles' -> Handles],
         \A h \in Handles' : Places(PartAt(h)') \subseteq Places(PartAt(m[h])),
         \A g, h \in Handles' : g # h /\ m[g] = m[h]
            => Places(PartAt(g)') \cap Places(PartAt(h)') = {},
         \A h \in Handles : \A x \in Places(PartAt(h)) :
            \E g \in Handles' : x \in Places(PartAt(g)')
  PROVE  PartsCoverPending'
<1>1. ASSUME NEW g \in Handles', NEW h \in Handles', g # h
      PROVE  Places(PartAt(g)') \cap Places(PartAt(h)') = {}
  <2>1. CASE m[g] = m[h]
    BY <1>1, <2>1
  <2>2. CASE m[g] # m[h]
    <3>1. Places(PartAt(m[g])) \cap Places(PartAt(m[h])) = {}
      BY <2>2 DEF PartsCoverPending
    <3>2. /\ Places(PartAt(g)') \subseteq Places(PartAt(m[g]))
          /\ Places(PartAt(h)') \subseteq Places(PartAt(m[h]))
      OBVIOUS
    <3> QED BY <3>1, <3>2
  <2> QED BY <2>1, <2>2
<1>2. UNION {Places(PartAt(h)') : h \in Handles'}
        = UNION {Places(PartAt(h)) : h \in Handles}
  <2>1. ASSUME NEW h \in Handles', NEW x \in Places(PartAt(h)')
        PROVE  x \in UNION {Places(PartAt(g)) : g \in Handles}
    <3>1. m[h] \in Handles /\ x \in Places(PartAt(m[h]))
      OBVIOUS
    <3> QED BY <3>1
  <2>2. ASSUME NEW h \in Handles, NEW x \in Places(PartAt(h))
        PROVE  x \in UNION {Places(PartAt(g)') : g \in Handles'}
    OBVIOUS
  <2> QED BY <2>1, <2>2
<1>3. {x \in 1..N : results[x] = Pending}' = {x \in 1..N : results[x] = Pending}
  BY DEF N
<1>4. (UNION {Places(PartAt(h)) : h \in Handles})'
        = UNION {Places(PartAt(h)') : h \in Handles'}
  BY DEF Places
<1>5. UNION {Places(PartAt(h)) : h \in Handles}
        = {x \in 1..N : results[x] = Pending}
  BY DEF PartsCoverPending
<1> QED BY <1>1, <1>2, <1>3, <1>4, <1>5 DEF PartsCoverPending, Places

(* Half of a part of two places or more is a place of it, not its first.   *)
LEMMA HalfIsInside ==
  ASSUME NEW s \in Parts, Size(s) > 1, 1 <= s.from
  PROVE  Half(s) \in (s.from + 1)..s.to
<1> DEFINE n == s.to + 1 - s.from
<1>1. n \in Nat /\ n > 1 /\ s.from \in Nat /\ s.to = s.from + n - 1
  BY DEF Size, Parts
<1>2. Half(s) = s.from + (n \div 2)
  BY DEF Half, Size
<1> HIDE DEF n
<1>3. n \div 2 \in Nat /\ n \div 2 >= 1 /\ n \div 2 <= n - 1
  BY <1>1
<1> QED BY <1>1, <1>2, <1>3

(* What the parts are after a step, told in terms of those before it.      *)
LEMMA NewHandles ==
  ASSUME part' \in [Workers -> Parts], queue' \in [Workers -> Seq(Parts)]
  PROVE  /\ \A w \in Workers :
              <<w, 0>> \in Handles' /\ PartAt(<<w, 0>>)' = part'[w]
         /\ \A w \in Workers : \A i \in 1..Len(queue'[w]) :
              /\ <<w, i>> \in Handles' /\ PartAt(<<w, i>>)' = queue'[w][i]
         /\ \A h \in Handles' :
              \E w \in Workers : \E i \in 0..Len(queue'[w]) : h = <<w, i>>
<1>1. \A w \in Workers : Len(queue'[w]) \in Nat
  BY LenProperties
<1>2. \A w \in Workers :
        <<w, 0>> \in Handles' /\ PartAt(<<w, 0>>)' = part'[w]
  BY <1>1 DEF Handles, PartAt
<1>3. ASSUME NEW w \in Workers, NEW i \in 1..Len(queue'[w])
      PROVE  <<w, i>> \in Handles' /\ PartAt(<<w, i>>)' = queue'[w][i]
  <2>1. i \in 0..Len(queue'[w]) /\ i # 0
    BY <1>1
  <2> QED BY <2>1 DEF Handles, PartAt
<1>4. \A h \in Handles' :
        \E w \in Workers : \E i \in 0..Len(queue'[w]) : h = <<w, i>>
  BY DEF Handles
<1> QED BY <1>2, <1>3, <1>4

LEMMA SplitParts ==
  ASSUME TypeOK, PartsIn, NEW w \in Workers, Split(w),
         NEW n, n = <<w, Len(queue[w]) + 1>>
  PROVE  /\ part' \in [Workers -> Parts] /\ queue' \in [Workers -> Seq(Parts)]
         /\ n \notin Handles /\ Handles' = Handles \cup {n}
         /\ \A h \in Handles : h # <<w, 0>> => PartAt(h)' = PartAt(h)
         /\ InRange(PartAt(<<w, 0>>)') /\ InRange(PartAt(n)')
         /\ Places(PartAt(<<w, 0>>)') \cup Places(PartAt(n)')
              = Places(PartAt(<<w, 0>>))
         /\ Places(PartAt(<<w, 0>>)') \cap Places(PartAt(n)') = {}
<1> DEFINE L == Len(queue[w])
           s == [part[w] EXCEPT !.splits = @ \div 2]
           lower == [s EXCEPT !.to = Half(s) - 1]
           right == [s EXCEPT !.from = Half(s)]
<1>1. /\ part \in [Workers -> Parts] /\ queue \in [Workers -> Seq(Parts)]
      /\ L \in Nat /\ N \in Nat /\ part[w] \in Parts
  BY JobsCounted, LenProperties DEF TypeOK
<1>2. InRange(part[w])
  BY <1>1, HandleRules DEF PartsIn
<1>3. s \in Parts /\ s.from = part[w].from /\ s.to = part[w].to
  <2>1. part[w].splits \in Nat
    BY <1>1 DEF Parts
  <2>2. part[w].splits \div 2 \in Nat
    BY <2>1
  <2> QED BY <1>1, <2>2 DEF Parts
<1>4. part' = [part EXCEPT ![w] = lower]
      /\ queue' = [queue EXCEPT ![w] = Append(queue[w], right)]
      /\ Size(part[w]) > 1 /\ cost' = cost
  BY <1>1 DEF Split
<1>5. Half(s) \in (s.from + 1)..s.to
  <2>1. Size(s) > 1 /\ 1 <= s.from
    BY <1>2, <1>3, <1>4 DEF Size, InRange
  <2> HIDE DEF s
  <2> QED BY <1>3, <2>1, HalfIsInside
<1>6. /\ lower \in Parts /\ lower.from = s.from /\ lower.to = Half(s) - 1
      /\ right \in Parts /\ right.from = Half(s) /\ right.to = s.to
  <2> HIDE DEF s
  <2>1. Half(s) \in Nat /\ Half(s) - 1 \in Nat
    BY <1>3, <1>5 DEF Parts
  <2> QED BY <1>3, <2>1 DEF Parts
<1>7. /\ part' \in [Workers -> Parts] /\ part'[w] = lower
      /\ \A v \in Workers : v # w => part'[v] = part[v]
  <2> HIDE DEF lower
  <2> QED BY <1>1, <1>4, <1>6
<1>8. /\ queue' \in [Workers -> Seq(Parts)]
      /\ Len(queue'[w]) = L + 1 /\ queue'[w][L + 1] = right
      /\ \A i \in 1..L : queue'[w][i] = queue[w][i]
      /\ \A v \in Workers : v # w => queue'[v] = queue[v]
  <2> HIDE DEF right
  <2> QED BY <1>1, <1>4, <1>6, AppendProperties
<1> HIDE DEF lower, right, s
<1>9. n \notin Handles /\ Handles' = Handles \cup {n}
  <2>1. n \notin Handles
    <3> SUFFICES ASSUME n \in Handles PROVE FALSE
      OBVIOUS
    <3>1. PICK v \in Workers : \E i \in 0..Len(queue[v]) : n = <<v, i>>
      BY DEF Handles
    <3>2. L + 1 \in 0..L
      BY <3>1
    <3> QED BY <1>1, <3>2
  <2>2. \A v \in Workers :
          {v} \X (0..Len(queue'[v]))
            = ({v} \X (0..Len(queue[v]))) \cup (IF v = w THEN {n} ELSE {})
    <3> SUFFICES ASSUME NEW v \in Workers
                 PROVE  {v} \X (0..Len(queue'[v]))
                          = ({v} \X (0..Len(queue[v])))
                              \cup (IF v = w THEN {n} ELSE {})
      OBVIOUS
    <3>1. CASE v = w
      <4>1. 0..(L + 1) = (0..L) \cup {L + 1}
        BY <1>1
      <4>2. {w} \X (0..(L + 1)) = ({w} \X (0..L)) \cup {<<w, L + 1>>}
        BY <4>1
      <4> QED BY <1>8, <3>1, <4>2
    <3>2. CASE v # w
      BY <1>8, <3>2
    <3> QED BY <3>1, <3>2
  <2>3. n \in {w} \X (0..Len(queue'[w]))
    BY <2>2
  <2>4. Handles' \subseteq Handles \cup {n}
    <3> SUFFICES ASSUME NEW v \in Workers, NEW h \in {v} \X (0..Len(queue'[v]))
                 PROVE  h \in Handles \cup {n}
      BY DEF Handles
    <3>1. h \in {v} \X (0..Len(queue[v])) \/ h = n
      BY <2>2
    <3> QED BY <3>1 DEF Handles
  <2>5. Handles \subseteq Handles'
    <3> SUFFICES ASSUME NEW v \in Workers, NEW h \in {v} \X (0..Len(queue[v]))
                 PROVE  h \in Handles'
      BY DEF Handles
    <3>1. h \in {v} \X (0..Len(queue'[v]))
      BY <2>2
    <3> QED BY <3>1 DEF Handles
  <2>6. n \in Handles'
    BY <2>3 DEF Handles
  <2> QED BY <2>1, <2>4, <2>5, <2>6
<1>10. ASSUME NEW h \in Handles, h # <<w, 0>>
       PROVE  PartAt(h)' = PartAt(h)
  <2>1. PICK v \in Workers : \E i \in 0..Len(queue[v]) : h = <<v, i>>
    BY DEF Handles
  <2>2. PICK i \in 0..Len(queue[v]) : h = <<v, i>>
    BY <2>1
  <2>3. CASE i = 0
    BY <1>7, <1>10, <2>2, <2>3 DEF PartAt
  <2>4. CASE i # 0
    <3>1. CASE v = w
      <4>1. i \in 1..L
        BY <1>1, <2>4, <3>1
      <4>2. queue'[v][i] = queue[v][i]
        BY <1>8, <3>1, <4>1
      <4> QED BY <2>2, <2>4, <4>2 DEF PartAt
    <3>2. CASE v # w
      BY <1>8, <2>2, <2>4, <3>2 DEF PartAt
    <3> QED BY <3>1, <3>2
  <2> QED BY <2>3, <2>4
<1>11. PartAt(<<w, 0>>)' = lower /\ PartAt(n)' = right
       /\ PartAt(<<w, 0>>) = part[w]
  <2>1. L + 1 \in 1..Len(queue'[w])
    BY <1>1, <1>8
  <2>2. PartAt(<<w, 0>>)' = part'[w] /\ PartAt(n)' = queue'[w][L + 1]
    <3>1. PICK j \in 1..Len(queue'[w]) : j = L + 1
      BY <2>1
    <3>2. PartAt(<<w, j>>)' = queue'[w][j] /\ n = <<w, j>>
      BY <1>7, <1>8, <3>1, NewHandles
    <3> QED BY <1>7, <1>8, <3>1, <3>2, NewHandles
  <2>3. PartAt(<<w, 0>>) = part[w]
    BY <1>1, HandleRules
  <2> QED BY <1>7, <1>8, <2>2, <2>3
<1>12. /\ InRange(lower) /\ InRange(right)
       /\ Places(lower) \cup Places(right) = Places(part[w])
       /\ Places(lower) \cap Places(right) = {}
  <2>1. /\ s.from \in Nat /\ s.to \in Nat /\ Half(s) \in Nat
        /\ 1 <= s.from /\ s.to <= N
    BY <1>2, <1>3, <1>5 DEF Parts, InRange
  <2> QED BY <1>1, <1>3, <1>5, <1>6, <2>1 DEF Places, InRange
<1> QED BY <1>7, <1>8, <1>9, <1>10, <1>11, <1>12

LEMMA SplitCovers ==
  ASSUME TypeOK, PartsIn, PartsCoverPending, NEW w \in Workers, Split(w)
  PROVE  PartsIn' /\ PartsCoverPending'
<1>0. PICK n : n = <<w, Len(queue[w]) + 1>>
  OBVIOUS
<1> DEFINE m == [h \in Handles' |-> IF h = n THEN <<w, 0>> ELSE h]
<1>1. /\ n \notin Handles /\ Handles' = Handles \cup {n}
      /\ \A h \in Handles : h # <<w, 0>> => PartAt(h)' = PartAt(h)
      /\ InRange(PartAt(<<w, 0>>)') /\ InRange(PartAt(n)')
      /\ Places(PartAt(<<w, 0>>)') \cup Places(PartAt(n)')
           = Places(PartAt(<<w, 0>>))
      /\ Places(PartAt(<<w, 0>>)') \cap Places(PartAt(n)') = {}
  BY <1>0, SplitParts
<1>2. <<w, 0>> \in Handles
  BY HandleRules DEF TypeOK
<1>3. phase = "run" /\ phase' = "run" /\ UNCHANGED <<cost, results>>
  BY DEF Split
<1>4. PartsIn'
  <2>1. \A h \in Handles' : InRange(PartAt(h)')
    BY <1>1 DEF PartsIn
  <2> QED BY <1>3, <2>1 DEF PartsIn, InRange, N
<1>5. m \in [Handles' -> Handles]
  BY <1>1, <1>2
<1>6. \A h \in Handles' : Places(PartAt(h)') \subseteq Places(PartAt(m[h]))
  BY <1>1, <1>2
<1>7. \A g, h \in Handles' : g # h /\ m[g] = m[h]
        => Places(PartAt(g)') \cap Places(PartAt(h)') = {}
  <2> SUFFICES ASSUME NEW g \in Handles', NEW h \in Handles', g # h, m[g] = m[h]
               PROVE  Places(PartAt(g)') \cap Places(PartAt(h)') = {}
    OBVIOUS
  <2>1. (g = n /\ h = <<w, 0>>) \/ (h = n /\ g = <<w, 0>>)
    BY <1>1
  <2> QED BY <1>1, <2>1
<1>8. \A h \in Handles : \A x \in Places(PartAt(h)) :
        \E g \in Handles' : x \in Places(PartAt(g)')
  <2> SUFFICES ASSUME NEW h \in Handles, NEW x \in Places(PartAt(h))
               PROVE  \E g \in Handles' : x \in Places(PartAt(g)')
    OBVIOUS
  <2>1. CASE h = <<w, 0>>
    BY <1>1, <2>1
  <2>2. CASE h # <<w, 0>>
    BY <1>1, <2>2
  <2> QED BY <2>1, <2>2
<1> HIDE DEF m
<1> QED BY <1>3, <1>4, <1>5, <1>6, <1>7, <1>8, Recut

(* The newest part of a worker's own queue becomes the one it holds.       *)
LEMMA PopCovers ==
  ASSUME TypeOK, PartsIn, PartsCoverPending, NEW w \in Workers, Pop(w)
  PROVE  /\ part' \in [Workers -> Parts] /\ queue' \in [Workers -> Seq(Parts)]
         /\ PartsIn' /\ PartsCoverPending'
<1>0. PICK L : L = Len(queue[w])
  OBVIOUS
<1> DEFINE m == [h \in Handles' |-> IF h = <<w, 0>> THEN <<w, L>> ELSE h]
<1>1. /\ part \in [Workers -> Parts] /\ queue \in [Workers -> Seq(Parts)]
      /\ L \in Nat /\ queue[w] # << >> /\ L >= 1
  BY <1>0, LenProperties, EmptySeq DEF TypeOK, Pop
<1>2. /\ Last(queue[w]) = queue[w][L] /\ queue[w][L] \in Parts
      /\ Front(queue[w]) \in Seq(Parts) /\ Len(Front(queue[w])) = L - 1
      /\ \A i \in 1..(L - 1) : Front(queue[w])[i] = queue[w][i]
  <2>1. \A i \in 1..L : queue[w][i] \in Parts
    BY <1>0, <1>1, ElementOfSeq
  <2>2. /\ SubSeq(queue[w], 1, L - 1) \in Seq(Parts)
        /\ Len(SubSeq(queue[w], 1, L - 1)) = L - 1
        /\ \A i \in 1..(L - 1) : SubSeq(queue[w], 1, L - 1)[i] = queue[w][i]
    <3>1. \A i \in 1..(L - 1) : queue[w][i] \in Parts
      BY <1>1, <2>1
    <3>2. \A i \in 1..(L - 1) : 1 + i - 1 = i
      OBVIOUS
    <3> QED BY <1>1, <3>1, <3>2, SubSeqProperties
  <2> QED BY <1>0, <1>1, <2>1, <2>2 DEF Last, Front
<1>3. /\ part' = [part EXCEPT ![w] = queue[w][L]]
      /\ queue' = [queue EXCEPT ![w] = Front(queue[w])]
      /\ Size(part[w]) = 0 /\ phase = "run" /\ phase' = "run"
      /\ UNCHANGED <<cost, results>>
  BY <1>1, <1>2 DEF Pop
<1>4. /\ part' \in [Workers -> Parts] /\ part'[w] = queue[w][L]
      /\ \A v \in Workers : v # w => part'[v] = part[v]
  BY <1>1, <1>2, <1>3
<1>5. /\ queue' \in [Workers -> Seq(Parts)] /\ Len(queue'[w]) = L - 1
      /\ \A i \in 1..(L - 1) : queue'[w][i] = queue[w][i]
      /\ \A v \in Workers : v # w => queue'[v] = queue[v]
  BY <1>1, <1>2, <1>3
<1>6. /\ <<w, L>> \in Handles /\ PartAt(<<w, L>>) = queue[w][L]
      /\ <<w, 0>> \in Handles /\ PartAt(<<w, 0>>) = part[w]
      /\ <<w, 0>> \in Handles' /\ PartAt(<<w, 0>>)' = queue[w][L]
  <2>1. L \in 1..Len(queue[w])
    BY <1>0, <1>1
  <2> QED BY <1>1, <1>4, <1>5, <2>1, HandleRules, NewHandles
<1>7. \A h \in Handles' : h # <<w, 0>> =>
        h \in Handles /\ h # <<w, L>> /\ PartAt(h)' = PartAt(h)
  <2> SUFFICES ASSUME NEW v \in Workers, NEW i \in 0..Len(queue'[v]),
                      <<v, i>> # <<w, 0>>
               PROVE  /\ <<v, i>> \in Handles /\ <<v, i>> # <<w, L>>
                      /\ PartAt(<<v, i>>)' = PartAt(<<v, i>>)
    <3>1. \A h \in Handles' :
            \E v \in Workers : \E i \in 0..Len(queue'[v]) : h = <<v, i>>
      BY <1>4, <1>5, NewHandles
    <3> QED BY <3>1
  <2>1. CASE v = w
    <3>1. i \in 1..(L - 1) /\ i \in 1..Len(queue[w]) /\ i \in 1..Len(queue'[w])
          /\ i # L
      BY <1>0, <1>1, <1>5, <2>1
    <3> QED BY <1>1, <1>4, <1>5, <2>1, <3>1, HandleRules, NewHandles
  <2>2. CASE v # w
    BY <1>1, <1>4, <1>5, <2>2 DEF Handles, PartAt
  <2> QED BY <2>1, <2>2
<1>8. \A h \in Handles : h = <<w, L>> \/ h \in Handles'
  <2> SUFFICES ASSUME NEW v \in Workers, NEW i \in 0..Len(queue[v]),
                      <<v, i>> # <<w, L>>
               PROVE  <<v, i>> \in Handles'
    BY <1>1, HandleRules
  <2>1. i \in 0..Len(queue'[v])
    <3>1. CASE v = w
      BY <1>0, <1>1, <1>5, <3>1
    <3>2. CASE v # w
      BY <1>5, <3>2
    <3> QED BY <3>1, <3>2
  <2> QED BY <2>1 DEF Handles
<1>9. Places(PartAt(<<w, 0>>)) = {}
  <2>1. part[w] \in Parts /\ Size(part[w]) = 0
    BY <1>1, <1>3
  <2> QED BY <1>6, <2>1 DEF Places, Size, Parts
<1>10. PartsIn'
  <2>1. \A h \in Handles' : InRange(PartAt(h)')
    BY <1>6, <1>7 DEF PartsIn
  <2> QED BY <1>3, <2>1 DEF PartsIn, InRange, N
<1>11. m \in [Handles' -> Handles]
  BY <1>6, <1>7
<1>12. \A h \in Handles' : Places(PartAt(h)') \subseteq Places(PartAt(m[h]))
  BY <1>6, <1>7
<1>13. \A g, h \in Handles' : g # h /\ m[g] = m[h]
         => Places(PartAt(g)') \cap Places(PartAt(h)') = {}
  BY <1>6, <1>7
<1>14. \A h \in Handles : \A x \in Places(PartAt(h)) :
         \E g \in Handles' : x \in Places(PartAt(g)')
  <2> SUFFICES ASSUME NEW h \in Handles, NEW x \in Places(PartAt(h))
               PROVE  \E g \in Handles' : x \in Places(PartAt(g)')
    OBVIOUS
  <2>1. CASE h = <<w, L>>
    BY <1>6, <2>1
  <2>2. CASE h # <<w, L>>
    BY <1>7, <1>8, <1>9, <2>2
  <2> QED BY <2>1, <2>2
<1> HIDE DEF m
<1> QED BY <1>3, <1>4, <1>5, <1>10, <1>11, <1>12, <1>13, <1>14, Recut

(* A worker without parts takes the oldest one of another's queue.         *)
LEMMA StealCovers ==
  ASSUME TypeOK, PartsIn, PartsCoverPending,
         NEW w \in Workers, NEW v \in Workers, Steal(w, v)
  PROVE  /\ part' \in [Workers -> Parts] /\ queue' \in [Workers -> Seq(Parts)]
         /\ PartsIn' /\ PartsCoverPending'
<1>0. PICK L, s : L = Len(queue[v]) /\ s = Head(queue[v])
  OBVIOUS
<1> DEFINE m == [h \in Handles' |->
                   IF h = <<w, 0>> THEN <<v, 1>>
                   ELSE IF h[1] = v /\ h[2] # 0 THEN <<v, h[2] + 1>> ELSE h]
<1>1. /\ part \in [Workers -> Parts] /\ queue \in [Workers -> Seq(Parts)]
      /\ L \in Nat /\ queue[v] # << >> /\ L >= 1 /\ w # v
  BY <1>0, LenProperties, EmptySeq DEF TypeOK, Steal
<1>2. /\ s = queue[v][1] /\ s \in Parts
      /\ Tail(queue[v]) \in Seq(Parts) /\ Len(Tail(queue[v])) = L - 1
      /\ \A i \in 1..(L - 1) : Tail(queue[v])[i] = queue[v][i + 1]
  BY <1>0, <1>1, HeadTailProperties
<1>3. PICK k \in Nat : part' = [part EXCEPT ![w] = [s EXCEPT !.splits = k]]
  <2>1. Cardinality(Workers) \in Nat
    BY SchedulerAssumption, FS_CardinalityType
  <2>2. s.splits \in Nat /\ s.splits \div 2 \in Nat
    BY <1>2 DEF Parts
  <2>3. PICK again :
          /\ again \in {s.splits \div 2, Cardinality(Workers)}
          /\ part' = [part EXCEPT ![w] = [s EXCEPT !.splits = 2 * again]]
    BY <1>0 DEF Steal
  <2>4. 2 * again \in Nat
    BY <2>1, <2>2, <2>3
  <2> QED BY <2>3, <2>4
<1>4. /\ queue' = [queue EXCEPT ![v] = Tail(queue[v])]
      /\ Size(part[w]) = 0 /\ queue[w] = << >>
      /\ phase = "run" /\ phase' = "run" /\ UNCHANGED <<cost, results>>
  BY <1>1 DEF Steal
<1>5. /\ part' \in [Workers -> Parts]
      /\ part'[w].from = s.from /\ part'[w].to = s.to
      /\ \A u \in Workers : u # w => part'[u] = part[u]
  <2>1. [s EXCEPT !.splits = k] \in Parts
    BY <1>2 DEF Parts
  <2>2. [s EXCEPT !.splits = k].from = s.from /\ [s EXCEPT !.splits = k].to = s.to
    BY <1>2 DEF Parts
  <2> QED BY <1>1, <1>3, <2>1, <2>2
<1>6. /\ queue' \in [Workers -> Seq(Parts)] /\ Len(queue'[v]) = L - 1
      /\ \A i \in 1..(L - 1) : queue'[v][i] = queue[v][i + 1]
      /\ \A u \in Workers : u # v => queue'[u] = queue[u]
  BY <1>1, <1>2, <1>4
<1>7. /\ <<v, 1>> \in Handles /\ PartAt(<<v, 1>>) = s
      /\ <<w, 0>> \in Handles /\ PartAt(<<w, 0>>) = part[w]
      /\ <<w, 0>> \in Handles'
      /\ Places(PartAt(<<w, 0>>)') = Places(s)
      /\ InRange(s) => InRange(PartAt(<<w, 0>>)')
  <2>1. 1 \in 1..Len(queue[v])
    BY <1>0, <1>1
  <2>2. <<w, 0>> \in Handles' /\ PartAt(<<w, 0>>)' = part'[w]
    BY <1>5, <1>6, NewHandles
  <2> QED BY <1>1, <1>2, <1>5, <2>1, <2>2, HandleRules DEF Places, InRange
<1>8. ASSUME NEW i \in 1..(L - 1)
      PROVE  /\ <<v, i>> \in Handles' /\ <<v, i + 1>> \in Handles
             /\ PartAt(<<v, i>>)' = PartAt(<<v, i + 1>>)
             /\ m[<<v, i>>] = <<v, i + 1>>
  <2>1. i \in 1..Len(queue'[v]) /\ i + 1 \in 1..Len(queue[v]) /\ i # 0
    BY <1>0, <1>1, <1>6
  <2>2. <<v, i>> \in Handles' /\ PartAt(<<v, i>>)' = queue'[v][i]
    BY <1>5, <1>6, <2>1, NewHandles
  <2>3. <<v, i + 1>> \in Handles /\ PartAt(<<v, i + 1>>) = queue[v][i + 1]
    BY <1>1, <2>1, HandleRules
  <2>4. m[<<v, i>>] = <<v, i + 1>>
    BY <2>1, <2>2
  <2> QED BY <1>6, <2>2, <2>3, <2>4
<1>9. ASSUME NEW u \in Workers, NEW i \in 0..Len(queue[u]),
             u # v \/ i = 0, <<u, i>> # <<w, 0>>
      PROVE  /\ <<u, i>> \in Handles' /\ <<u, i>> \in Handles
             /\ PartAt(<<u, i>>)' = PartAt(<<u, i>>)
             /\ m[<<u, i>>] = <<u, i>>
  <2>1. i \in 0..Len(queue'[u])
    BY <1>1, <1>6, <1>9
  <2>2. <<u, i>> \in Handles' /\ <<u, i>> \in Handles
    BY <2>1 DEF Handles
  <2>3. PartAt(<<u, i>>)' = PartAt(<<u, i>>)
    BY <1>5, <1>6, <1>9 DEF PartAt
  <2> QED BY <1>9, <2>2, <2>3
<1>10. m[<<w, 0>>] = <<v, 1>>
  BY <1>7
<1>11. \A h \in Handles' :
         \/ h = <<w, 0>>
         \/ \E i \in 1..(L - 1) : h = <<v, i>>
         \/ /\ h # <<w, 0>>
            /\ \E u \in Workers : \E i \in 0..Len(queue[u]) :
                 h = <<u, i>> /\ (u # v \/ i = 0)
  <2> SUFFICES ASSUME NEW u \in Workers, NEW i \in 0..Len(queue'[u]),
                      <<u, i>> # <<w, 0>>, u = v, i # 0
               PROVE  i \in 1..(L - 1)
    <3>1. \A h \in Handles' :
            \E u \in Workers : \E i \in 0..Len(queue'[u]) : h = <<u, i>>
      BY <1>5, <1>6, NewHandles
    <3>2. \A u \in Workers : \A i \in 0..Len(queue'[u]) : i \in 0..Len(queue[u])
      BY <1>0, <1>1, <1>6
    <3> QED BY <3>1, <3>2
  <2> QED BY <1>1, <1>6
<1> HIDE DEF m
<1>12. \A h \in Handles' :
         /\ m[h] \in Handles
         /\ Places(PartAt(h)') = Places(PartAt(m[h]))
         /\ InRange(PartAt(m[h])) => InRange(PartAt(h)')
  <2> SUFFICES ASSUME NEW h \in Handles'
               PROVE  /\ m[h] \in Handles
                      /\ Places(PartAt(h)') = Places(PartAt(m[h]))
                      /\ InRange(PartAt(m[h])) => InRange(PartAt(h)')
    OBVIOUS
  <2>1. CASE h = <<w, 0>>
    BY <1>7, <1>10, <2>1
  <2>2. CASE \E i \in 1..(L - 1) : h = <<v, i>>
    BY <1>8, <2>2
  <2>3. ASSUME NEW u \in Workers, NEW i \in 0..Len(queue[u]),
               h # <<w, 0>>, h = <<u, i>>, u # v \/ i = 0
        PROVE  m[h] = h /\ h \in Handles /\ PartAt(h)' = PartAt(h)
    BY <1>9, <2>3
  <2> QED BY <1>11, <2>1, <2>2, <2>3
<1>13. \A g, h \in Handles' : m[g] = m[h] => g = h
  <2> SUFFICES ASSUME NEW g \in Handles', NEW h \in Handles', m[g] = m[h]
               PROVE  g = h
    OBVIOUS
  <2> DEFINE Own(x) == x = <<w, 0>> /\ m[x] = <<v, 1>>
             Moved(x) == \E i \in 1..(L - 1) : x = <<v, i>> /\ m[x] = <<v, i + 1>>
             Same(x) == \E u \in Workers : \E i \in 0..Len(queue[u]) :
                          x = <<u, i>> /\ m[x] = x /\ (u # v \/ i = 0)
  <2>1. \A x \in Handles' : Own(x) \/ Moved(x) \/ Same(x)
    <3> SUFFICES ASSUME NEW x \in Handles' PROVE Own(x) \/ Moved(x) \/ Same(x)
      OBVIOUS
    <3>1. CASE x = <<w, 0>>
      BY <1>10, <3>1
    <3>2. CASE \E i \in 1..(L - 1) : x = <<v, i>>
      BY <1>8, <3>2
    <3>3. ASSUME NEW u \in Workers, NEW i \in 0..Len(queue[u]),
                 x # <<w, 0>>, x = <<u, i>>, u # v \/ i = 0
          PROVE  Same(x)
      BY <1>9, <3>3
    <3> QED BY <1>11, <3>1, <3>2, <3>3
  <2>2. \A x : Moved(x) => m[x] # <<v, 1>> /\ m[x] # <<v, 0>>
    BY <1>1
  <2>3. \A x : Same(x) => \A i \in 1..L : m[x] # <<v, i>>
    <3> SUFFICES ASSUME NEW u \in Workers, NEW i \in 0..Len(queue[u]),
                        u # v \/ i = 0, NEW j \in 1..L
                 PROVE  <<u, i>> # <<v, j>>
      OBVIOUS
    <3> QED BY <1>1
  <2>4. \A x, y : Moved(x) /\ Moved(y) /\ m[x] = m[y] => x = y
    <3> SUFFICES ASSUME NEW i \in 1..(L - 1), NEW j \in 1..(L - 1),
                        <<v, i + 1>> = <<v, j + 1>>
                 PROVE  i = j
      OBVIOUS
    <3> QED BY <1>1
  <2>5. \A x : Moved(x) => \E i \in 1..L : m[x] = <<v, i>>
    BY <1>1
  <2>6. \A x : Own(x) => \E i \in 1..L : m[x] = <<v, i>>
    BY <1>1
  <2>7. \A x, y : /\ Own(x) /\ Own(y) => x = y
                  /\ Same(x) /\ Same(y) /\ m[x] = m[y] => x = y
                  /\ Own(x) /\ Moved(y) => m[x] # m[y]
    BY <2>2
  <2>8. /\ Own(g) \/ Moved(g) \/ Same(g)
        /\ Own(h) \/ Moved(h) \/ Same(h)
    BY <2>1
  <2> HIDE DEF Own, Moved, Same
  <2> QED BY <2>3, <2>4, <2>5, <2>6, <2>7, <2>8
<1>14. PartsIn'
  <2>1. \A h \in Handles' : InRange(PartAt(h)')
    BY <1>12 DEF PartsIn
  <2> QED BY <1>4, <2>1 DEF PartsIn, InRange, N
<1>15. m \in [Handles' -> Handles]
  BY <1>12 DEF m
<1>16. Places(part[w]) = {}
  <2>1. part[w] \in Parts
    BY <1>1
  <2> QED BY <1>4, <2>1 DEF Places, Size, Parts
<1>17. \A h \in Handles : \A x \in Places(PartAt(h)) :
         \E g \in Handles' : x \in Places(PartAt(g)')
  <2> SUFFICES ASSUME NEW u \in Workers, NEW i \in 0..Len(queue[u]),
                      NEW x \in Places(PartAt(<<u, i>>))
               PROVE  \E g \in Handles' : x \in Places(PartAt(g)')
    BY <1>1, HandleRules
  <2>1. CASE <<u, i>> = <<w, 0>>
    BY <1>7, <1>16, <2>1
  <2>2. CASE <<u, i>> # <<w, 0>> /\ (u # v \/ i = 0)
    BY <1>9, <2>2
  <2>3. CASE u = v /\ i = 1
    BY <1>7, <2>3
  <2>4. CASE u = v /\ i # 0 /\ i # 1
    <3>1. i - 1 \in 1..(L - 1) /\ (i - 1) + 1 = i
      BY <1>0, <1>1, <2>4
    <3>2. <<v, i - 1>> \in Handles' /\ PartAt(<<v, i - 1>>)' = PartAt(<<v, i>>)
      BY <1>8, <3>1
    <3> QED BY <2>4, <3>2
  <2> QED BY <2>1, <2>2, <2>3, <2>4
<1> QED BY <1>4, <1>5, <1>6, <1>12, <1>13, <1>14, <1>15, <1>17, Recut

-----------------------------------------------------------------------------
(* Running a job.                                                          *)

LEMMA AppendToSet ==
  ASSUME NEW S, NEW s \in Seq(S), NEW e \in S
  PROVE  Append(s, e) \in Seq(S) /\ ToSet(Append(s, e)) = ToSet(s) \cup {e}
<1> DEFINE a == Append(s, e)
<1>1. /\ Len(s) \in Nat /\ a \in Seq(S) /\ Len(a) = Len(s) + 1
      /\ \A i \in 1..Len(s) : a[i] = s[i]
      /\ a[Len(s) + 1] = e
  BY AppendProperties, LenProperties
<1>2. DOMAIN s = 1..Len(s) /\ DOMAIN a = 1..(Len(s) + 1)
  BY <1>1, LenProperties
<1> HIDE DEF a
<1>3. /\ \A i \in 1..(Len(s) + 1) : i \in 1..Len(s) \/ i = Len(s) + 1
      /\ Len(s) + 1 \in 1..(Len(s) + 1) /\ 1..Len(s) \subseteq 1..(Len(s) + 1)
  BY <1>1
<1>4. ToSet(a) = ToSet(s) \cup {e}
  BY <1>1, <1>2, <1>3 DEF ToSet
<1> QED BY <1>1, <1>4 DEF a

LEMMA PairIsNotPending ==
  ASSUME NEW a, NEW b
  PROVE  <<a, b>> # Pending
<1>1. Len(<<a, b>>) = 2 /\ Len(<< >>) = 0
  OBVIOUS
<1> QED BY <1>1 DEF Pending

(* The place of the job that is run, its result and its start.             *)
LEMMA RunJobRules ==
  ASSUME BatchInv, NEW w \in Workers, RunJob(w), NEW x, x = part[w].from
  PROVE  /\ x \in 1..N /\ results[x] = Pending
         /\ phase = "run" /\ phase' = "run"
         /\ UNCHANGED <<cost, indexed, queue, answer>>
         /\ results' = [results EXCEPT ![x] = Outcome(x)]
         /\ DOMAIN results' = 1..N /\ results'[x] = Outcome(x)
         /\ \A y \in 1..N : y # x => results'[y] = results[y]
         /\ Ran' = Ran \cup {x} /\ x \notin Ran
         /\ started' = Append(started, indexed[x])
         /\ indexed[x] \in 1..N
         /\ started' \in Seq(1..N)
         /\ ToSet(started') = ToSet(started) \cup {indexed[x]}
         /\ part' = [part EXCEPT ![w] = [part[w] EXCEPT !.from = x + 1]]
         /\ <<w, 0>> \in Handles /\ PartAt(<<w, 0>>) = part[w]
         /\ part[w] \in Parts /\ Size(part[w]) >= 1
<1>1. /\ part \in [Workers -> Parts] /\ queue \in [Workers -> Seq(Parts)]
      /\ part[w] \in Parts /\ N \in Nat /\ started \in Seq(1..N)
  BY JobsCounted DEF BatchInv, TypeOK
<1>2. <<w, 0>> \in Handles /\ PartAt(<<w, 0>>) = part[w]
  BY <1>1, HandleRules
<1>3. InRange(part[w])
  BY <1>2 DEF BatchInv, PartsIn
<1>4. Size(part[w]) >= 1
  BY <1>1 DEF RunJob, Size, Parts
<1>5. x \in 1..N /\ x \in Places(part[w])
  BY <1>1, <1>3, <1>4 DEF Size, InRange, Places, Parts
<1>6. phase = "run" /\ phase' = "run" /\ UNCHANGED <<cost, indexed, queue, answer>>
  BY DEF RunJob
<1>7. results[x] = Pending
  <2>1. /\ UNION {Places(PartAt(h)) : h \in Handles}
             = {y \in 1..N : results[y] = Pending}
    BY <1>6 DEF BatchInv, PartsCoverPending
  <2>2. x \in UNION {Places(PartAt(h)) : h \in Handles}
    BY <1>2, <1>5
  <2> QED BY <2>1, <2>2
<1>8. results' = [results EXCEPT ![x] = Outcome(x)]
  BY DEF RunJob, Outcome
<1>9. DOMAIN results = 1..N /\ indexed \in [1..N -> 1..N]
  BY <1>6 DEF BatchInv, Scheduled
<1>10. /\ DOMAIN results' = 1..N /\ results'[x] = Outcome(x)
       /\ \A y \in 1..N : y # x => results'[y] = results[y]
  BY <1>5, <1>8, <1>9
<1>11. Ran' = Ran \cup {x} /\ x \notin Ran
  <2>1. Outcome(x) # Pending
    BY PairIsNotPending DEF Outcome
  <2>2. N' = N
    BY <1>6 DEF N
  <2>3. Ran' = {y \in 1..N : results'[y] # Pending}
    BY <2>2 DEF Ran, Pending
  <2> QED BY <1>5, <1>7, <1>10, <2>1, <2>3 DEF Ran
<1>12. started' = Append(started, indexed[x]) /\ indexed[x] \in 1..N
  BY <1>5, <1>9 DEF RunJob
<1>13. /\ started' \in Seq(1..N)
       /\ ToSet(started') = ToSet(started) \cup {indexed[x]}
  <2>0. PICK S, e : S = 1..N /\ e = indexed[x]
    OBVIOUS
  <2>1. Append(started, e) \in Seq(S) /\ ToSet(Append(started, e)) = ToSet(started) \cup {e}
    BY <1>1, <1>12, <2>0, AppendToSet
  <2> QED BY <1>12, <2>0, <2>1
<1>14. part' = [part EXCEPT ![w] = [part[w] EXCEPT !.from = x + 1]]
  BY <1>1 DEF RunJob
<1> QED BY <1>1, <1>2, <1>4, <1>5, <1>6, <1>7, <1>8, <1>10, <1>11, <1>12,
           <1>13, <1>14

LEMMA RunJobCovers ==
  ASSUME BatchInv, NEW w \in Workers, RunJob(w)
  PROVE  /\ part' \in [Workers -> Parts]
         /\ PartsIn' /\ PartsCoverPending'
<1>0. PICK x : x = part[w].from
  OBVIOUS
<1>1. /\ x \in 1..N /\ results[x] = Pending
      /\ phase = "run" /\ phase' = "run" /\ UNCHANGED <<cost, queue>>
      /\ Ran' = Ran \cup {x} /\ x \notin Ran
      /\ part' = [part EXCEPT ![w] = [part[w] EXCEPT !.from = x + 1]]
      /\ <<w, 0>> \in Handles /\ PartAt(<<w, 0>>) = part[w]
      /\ part[w] \in Parts /\ Size(part[w]) >= 1
  BY <1>0, RunJobRules
<1>2. /\ part \in [Workers -> Parts] /\ queue \in [Workers -> Seq(Parts)]
      /\ N \in Nat /\ N' = N
  BY <1>1, JobsCounted DEF BatchInv, TypeOK, N
<1> DEFINE s == [part[w] EXCEPT !.from = x + 1]
<1>3. s \in Parts /\ s.from = x + 1 /\ s.to = part[w].to
  BY <1>1 DEF Parts
<1>4. /\ InRange(s)
      /\ Places(part[w]) = Places(s) \cup {x} /\ x \notin Places(s)
  <2>1. InRange(part[w])
    BY <1>1 DEF BatchInv, PartsIn
  <2>2. part[w].to \in Nat /\ x <= part[w].to
    BY <1>0, <1>1 DEF Parts, Size
  <2> HIDE DEF s
  <2> QED BY <1>0, <1>1, <1>2, <1>3, <2>1, <2>2 DEF InRange, Places
<1>5. /\ part' \in [Workers -> Parts] /\ part'[w] = s
      /\ \A v \in Workers : v # w => part'[v] = part[v]
  <2> HIDE DEF s
  <2> QED BY <1>1, <1>2, <1>3 DEF s
<1>6. Handles' = Handles
  BY <1>1 DEF Handles
<1>7. PartAt(<<w, 0>>)' = s
  BY <1>5 DEF PartAt
<1>8. ASSUME NEW h \in Handles, h # <<w, 0>> PROVE PartAt(h)' = PartAt(h)
  <2>1. PICK v \in Workers : \E i \in 0..Len(queue[v]) : h = <<v, i>>
    BY DEF Handles
  <2>2. PICK i \in 0..Len(queue[v]) : h = <<v, i>>
    BY <2>1
  <2> QED BY <1>1, <1>5, <1>8, <2>2 DEF PartAt
<1> HIDE DEF s
<1>9. PartsIn'
  <2>1. \A h \in Handles : InRange(PartAt(h)')
    BY <1>4, <1>7, <1>8 DEF BatchInv, PartsIn
  <2> QED BY <1>2, <1>6, <2>1 DEF PartsIn, InRange
<1>10. /\ \A g, h \in Handles :
            g # h => Places(PartAt(g)) \cap Places(PartAt(h)) = {}
       /\ UNION {Places(PartAt(h)) : h \in Handles}
            = {y \in 1..N : results[y] = Pending}
  BY <1>1 DEF BatchInv, PartsCoverPending
<1>11. \A h \in Handles : Places(PartAt(h)') = Places(PartAt(h)) \ {x}
  <2>1. Places(PartAt(<<w, 0>>)') = Places(PartAt(<<w, 0>>)) \ {x}
    BY <1>1, <1>4, <1>7
  <2>2. ASSUME NEW h \in Handles, h # <<w, 0>>
        PROVE  Places(PartAt(h)') = Places(PartAt(h)) \ {x}
    <3>1. Places(PartAt(h)) \cap Places(PartAt(<<w, 0>>)) = {}
      BY <1>1, <1>10, <2>2
    <3>2. x \in Places(PartAt(<<w, 0>>))
      BY <1>1, <1>4
    <3> QED BY <1>8, <2>2, <3>1, <3>2
  <2> QED BY <2>1, <2>2
<1>12. \A g, h \in Handles' :
         g # h => Places(PartAt(g)') \cap Places(PartAt(h)') = {}
  <2> SUFFICES ASSUME NEW g \in Handles, NEW h \in Handles, g # h
               PROVE  Places(PartAt(g)') \cap Places(PartAt(h)') = {}
    BY <1>6
  <2>1. Places(PartAt(g)) \cap Places(PartAt(h)) = {}
    BY <1>10
  <2> QED BY <1>11, <2>1
<1>13. UNION {Places(PartAt(h)') : h \in Handles'}
         = {y \in 1..N : results'[y] = Pending}
  <2>1. {y \in 1..N : results'[y] = Pending}
          = {y \in 1..N : results[y] = Pending} \ {x}
    <3>1. /\ Ran' = {y \in 1..N : results'[y] # Pending}
          /\ Ran = {y \in 1..N : results[y] # Pending}
      BY <1>2 DEF Ran, Pending
    <3> QED BY <1>1, <3>1
  <2>2. ASSUME NEW y PROVE y \in UNION {Places(PartAt(h)') : h \in Handles'}
                       <=> y \in (UNION {Places(PartAt(h)) : h \in Handles}) \ {x}
    <3>1. y \in UNION {Places(PartAt(h)') : h \in Handles'}
            <=> \E h \in Handles : y \in Places(PartAt(h)')
      BY <1>6
    <3>2. y \in UNION {Places(PartAt(h)) : h \in Handles}
            <=> \E h \in Handles : y \in Places(PartAt(h))
      OBVIOUS
    <3> QED BY <1>11, <3>1, <3>2
  <2> QED BY <1>10, <2>1, <2>2
<1> QED BY <1>2, <1>5, <1>9, <1>12, <1>13 DEF PartsCoverPending, Places, Pending

-----------------------------------------------------------------------------
(* The invariant is inductive.                                             *)

LEMMA InitBatch == Init => BatchInv
<1> SUFFICES ASSUME Init PROVE BatchInv
  OBVIOUS
<1>1. cost \in Seq(Costs)
  <2>1. PICK k \in 0..MaxJobs : cost \in [1..k -> Costs]
    BY DEF Init
  <2>2. k \in Nat
    OBVIOUS
  <2> QED BY <2>1, <2>2 DEF Seq
<1>2. Nothing \in Parts
  BY DEF Nothing, Parts
<1>3. TypeOK
  BY <1>1, <1>2, EmptySeq DEF Init, TypeOK
<1>4. N \in Nat
  BY <1>3, JobsCounted
<1>5. PartsIn
  <2> SUFFICES ASSUME NEW h \in Handles PROVE InRange(PartAt(h))
    BY DEF PartsIn
  <2>1. PICK w \in Workers : \E i \in 0..Len(queue[w]) : h = <<w, i>>
    BY DEF Handles
  <2>2. queue[w] = << >> /\ part[w] = Nothing
    BY DEF Init
  <2>3. h = <<w, 0>>
    BY <2>1, <2>2, EmptySeq
  <2>4. PartAt(h) = Nothing
    BY <2>2, <2>3 DEF PartAt
  <2> QED BY <1>4, <2>4 DEF InRange, Nothing
<1> QED BY <1>3, <1>5
        DEF Init, BatchInv, AtStart, Scheduled, PartsCoverPending, AllRan

(* Nothing is scheduled, and every worker is idle.                         *)
LEMMA ScheduleStep ==
  ASSUME BatchInv, NEW w \in Workers, Schedule(w)
  PROVE  BatchInv'
<1>1. /\ part = [v \in Workers |-> Nothing] /\ queue = [v \in Workers |-> << >>]
      /\ started = << >> /\ phase' = "run"
      /\ UNCHANGED <<cost, queue, answer, started>>
      /\ indexed' \in Sorted(1..N, cost)
      /\ results' = [x \in 1..N |-> Pending]
      /\ part' = [part EXCEPT ![w] = [from |-> 1, to |-> N,
                                      splits |-> Cardinality(Workers)]]
  BY DEF Schedule, BatchInv, AtStart
<1>2. N \in Nat /\ N' = N /\ TypeOK
  BY <1>1, JobsCounted DEF BatchInv, N
<1>3. indexed' \in Injection(1..N, 1..N) /\ indexed' \in Surjection(1..N, 1..N)
  BY <1>1, <1>2, SortedPositions
<1>4. /\ indexed' \in [1..N -> 1..N]
      /\ \A x, y \in 1..N : x # y => indexed'[x] # indexed'[y]
      /\ \A i \in 1..N : \E x \in 1..N : indexed'[x] = i
  BY <1>3 DEF Injection, IsInjective, Surjection
<1>5. indexed' \in Seq(1..N)
  BY <1>2, <1>4 DEF Seq
<1> DEFINE s == [from |-> 1, to |-> N, splits |-> Cardinality(Workers)]
<1>6. s \in Parts /\ Nothing \in Parts /\ Places(s) = 1..N /\ Places(Nothing) = {}
      /\ InRange(s) /\ InRange(Nothing)
  <2>1. Cardinality(Workers) \in Nat
    BY SchedulerAssumption, FS_CardinalityType
  <2> QED BY <1>2, <2>1 DEF Parts, Nothing, Places, InRange
<1> HIDE DEF s
<1>7. /\ part' \in [Workers -> Parts] /\ part'[w] = s
      /\ \A v \in Workers : v # w => part'[v] = Nothing
  BY <1>1, <1>6 DEF s
<1>8. \A v \in Workers : queue'[v] = << >>
  BY <1>1
<1>9. TypeOK'
  <2>1. DOMAIN results' = 1..N /\ DOMAIN indexed' = 1..N
    BY <1>1, <1>4
  <2>2. \A x \in DOMAIN results' : results'[x] = Pending
    BY <1>1
  <2>3. started' \in Seq(1..N) /\ queue' \in [Workers -> Seq(Parts)]
    BY <1>1, <1>2 DEF TypeOK
  <2> QED BY <1>1, <1>2, <1>5, <1>7, <2>1, <2>2, <2>3 DEF TypeOK, Pending
<1>10. \A h \in Handles' : \E v \in Workers : h = <<v, 0>>
  <2> SUFFICES ASSUME NEW h \in Handles'
               PROVE  \E v \in Workers : h = <<v, 0>>
    OBVIOUS
  <2>1. PICK v \in Workers : \E i \in 0..Len(queue'[v]) : h = <<v, i>>
    BY DEF Handles
  <2>2. queue'[v] = << >>
    BY <1>8
  <2> QED BY <2>1, <2>2, EmptySeq
<1>11. \A v \in Workers : PartAt(<<v, 0>>)' = IF v = w THEN s ELSE Nothing
  BY <1>7 DEF PartAt
<1>12. PartsIn'
  <2>1. \A h \in Handles' : InRange(PartAt(h)')
    BY <1>6, <1>10, <1>11
  <2> QED BY <1>2, <2>1 DEF PartsIn, InRange
<1>13. <<w, 0>> \in Handles'
  BY <1>1 DEF Handles
<1>14. PartsCoverPending'
  <2>1. \A g, h \in Handles' :
          g # h => Places(PartAt(g)') \cap Places(PartAt(h)') = {}
    BY <1>6, <1>10, <1>11
  <2>2. UNION {Places(PartAt(h)') : h \in Handles'} = 1..N
    <3>1. \A h \in Handles' : Places(PartAt(h)') \subseteq 1..N
      BY <1>6, <1>10, <1>11
    <3>2. Places(PartAt(<<w, 0>>)') = 1..N
      BY <1>6, <1>11
    <3> QED BY <1>13, <3>1, <3>2
  <2>3. {x \in 1..N : results'[x] = Pending} = 1..N
    BY <1>1
  <2> QED BY <1>2, <2>1, <2>2, <2>3 DEF PartsCoverPending, Places, Pending
<1>15. Scheduled'
  <2>1. Ran' = {}
    BY <1>1, <1>2 DEF Ran, Pending
  <2>2. ToSet(started') = {}
    BY <1>1 DEF ToSet
  <2>3. /\ DOMAIN results' = 1..N
        /\ \A x \in 1..N : results'[x] = Pending
    BY <1>1
  <2> QED BY <1>2, <1>4, <2>1, <2>2, <2>3 DEF Scheduled, Pending
<1> QED BY <1>1, <1>9, <1>12, <1>14, <1>15 DEF BatchInv, AtStart, AllRan

(* A step that moves parts leaves the jobs alone.                          *)
LEMMA MoveStep ==
  ASSUME BatchInv, NEW w \in Workers,
         Split(w) \/ Pop(w) \/ \E v \in Workers : Steal(w, v)
  PROVE  BatchInv'
<1>1. /\ phase = "run" /\ phase' = "run"
      /\ UNCHANGED <<cost, indexed, results, answer, started>>
  BY DEF Split, Pop, Steal
<1>2. /\ part' \in [Workers -> Parts] /\ queue' \in [Workers -> Seq(Parts)]
      /\ PartsIn' /\ PartsCoverPending'
  <2>1. CASE Split(w)
    <3>1. PICK n : n = <<w, Len(queue[w]) + 1>>
      OBVIOUS
    <3> QED BY <2>1, <3>1, SplitParts, SplitCovers DEF BatchInv
  <2>2. CASE Pop(w)
    BY <2>2, PopCovers DEF BatchInv
  <2>3. CASE \E v \in Workers : Steal(w, v)
    BY <2>3, StealCovers DEF BatchInv
  <2> QED BY <2>1, <2>2, <2>3
<1>3. N' = N /\ Ran' = Ran /\ \A x : Outcome(x)' = Outcome(x)
  BY <1>1 DEF N, Ran, Outcome
<1>4. TypeOK'
  BY <1>1, <1>2, <1>3 DEF BatchInv, TypeOK
<1>5. Scheduled'
  <2>1. Scheduled /\ phase \in {"run", "restore"}
    BY <1>1 DEF BatchInv
  <2>2. \A x \in 1..N : results[x] \in {Pending, Outcome(x)'}
    BY <1>3, <2>1 DEF Scheduled
  <2> QED BY <1>1, <1>3, <2>1, <2>2 DEF Scheduled
<1>6. AtStart' /\ AllRan'
  BY <1>1 DEF AtStart, AllRan
<1> QED BY <1>2, <1>4, <1>5, <1>6 DEF BatchInv

LEMMA RunJobStep ==
  ASSUME BatchInv, NEW w \in Workers, RunJob(w)
  PROVE  BatchInv'
<1>0. PICK x : x = part[w].from
  OBVIOUS
<1>1a. /\ x \in 1..N /\ phase = "run" /\ phase' = "run"
       /\ UNCHANGED <<cost, indexed, queue, answer>>
       /\ indexed[x] \in 1..N /\ started' \in Seq(1..N)
       /\ ToSet(started') = ToSet(started) \cup {indexed[x]}
  BY <1>0, RunJobRules
<1>1b. /\ DOMAIN results' = 1..N /\ results'[x] = Outcome(x)
       /\ \A y \in 1..N : y # x => results'[y] = results[y]
       /\ Ran' = Ran \cup {x}
  <2>1. DOMAIN results' = 1..N
    BY <1>0, RunJobRules
  <2>2. results'[x] = Outcome(x)
    BY <1>0, RunJobRules
  <2>3. \A y \in 1..N : y # x => results'[y] = results[y]
    <3>1. results' = [results EXCEPT ![x] = Outcome(x)]
      BY <1>0, RunJobRules
    <3>2. DOMAIN results = 1..N
      BY <1>1a DEF BatchInv, Scheduled
    <3> QED BY <3>1, <3>2
  <2>4. Ran' = Ran \cup {x}
    BY <1>0, RunJobRules
  <2> QED BY <2>1, <2>2, <2>3, <2>4
<1>2. part' \in [Workers -> Parts] /\ PartsIn' /\ PartsCoverPending'
  BY RunJobCovers
<1>3. /\ indexed \in [1..N -> 1..N] /\ DOMAIN results = 1..N
      /\ \A y \in 1..N : results[y] \in {Pending, Outcome(y)}
      /\ ToSet(started) = {indexed[y] : y \in Ran}
  BY <1>1a DEF BatchInv, Scheduled
<1>4. N' = N /\ \A y : Outcome(y)' = Outcome(y)
  BY <1>1a, <1>1b DEF N, Outcome
<1>5. TypeOK'
  <2>1. \A y \in 1..N : results'[y] = Pending \/ results'[y][1] \in 1..N
    <3>1. results'[x][1] \in 1..N
      BY <1>1a, <1>1b DEF Outcome
    <3>2. \A y \in 1..N : results[y] = Pending \/ results[y][1] \in 1..N
      BY <1>3 DEF BatchInv, TypeOK
    <3> QED BY <1>1a, <1>1b, <3>1, <3>2
  <2> QED BY <1>1a, <1>1b, <1>2, <1>3, <1>4, <2>1 DEF BatchInv, TypeOK, Pending
<1>6. Scheduled'
  <2>1. \A y \in 1..N : results'[y] \in {Pending, Outcome(y)}
    BY <1>1a, <1>1b, <1>3
  <2>2. ToSet(started') = {indexed[y] : y \in Ran'}
    BY <1>1a, <1>1b, <1>3
  <2>3. \A y \in 1..N : results'[y] \in {Pending, Outcome(y)'}
    BY <1>4, <2>1
  <2>4. /\ \A y, z \in 1..N : y # z => indexed'[y] # indexed'[z]
        /\ \A i \in 1..N : \E y \in 1..N : indexed'[y] = i
        /\ indexed' \in [1..N -> 1..N]
    BY <1>1a DEF BatchInv, Scheduled
  <2>5. ToSet(started') = {indexed'[y] : y \in Ran'}
    BY <1>1a, <2>2
  <2> QED BY <1>1b, <1>4, <2>3, <2>4, <2>5 DEF Scheduled, Pending
<1> QED BY <1>1a, <1>1b, <1>2, <1>5, <1>6 DEF BatchInv, AtStart, AllRan

(* When every worker is idle there is no place left without a result.      *)
LEMMA JoinedStep ==
  ASSUME BatchInv, Joined
  PROVE  BatchInv'
<1>1. /\ phase = "run" /\ phase' = "restore"
      /\ UNCHANGED <<cost, indexed, part, queue, results, answer, started>>
  BY DEF Joined
<1>2. \A h \in Handles : Places(PartAt(h)) = {}
  <2> SUFFICES ASSUME NEW h \in Handles PROVE Places(PartAt(h)) = {}
    OBVIOUS
  <2>1. PICK w \in Workers : \E i \in 0..Len(queue[w]) : h = <<w, i>>
    BY DEF Handles
  <2>2. Size(part[w]) = 0 /\ queue[w] = << >> /\ part[w] \in Parts
    BY DEF Joined, Idle, BatchInv, TypeOK
  <2>3. h = <<w, 0>>
    BY <2>1, <2>2, EmptySeq
  <2>4. PartAt(h) = part[w]
    BY <2>3 DEF PartAt
  <2> QED BY <2>2, <2>4 DEF Places, Size, Parts
<1>3. Ran = 1..N
  <2>1. {x \in 1..N : results[x] = Pending} = {}
    BY <1>1, <1>2 DEF BatchInv, PartsCoverPending
  <2> QED BY <2>1 DEF Ran
<1>4. /\ N' = N /\ Ran' = Ran /\ Handles' = Handles
      /\ \A x : Outcome(x)' = Outcome(x)
      /\ \A h : PartAt(h)' = PartAt(h)
  BY <1>1 DEF N, Ran, Outcome, Handles, PartAt
<1>5. PartsIn'
  BY <1>4 DEF BatchInv, PartsIn, InRange
<1>6. TypeOK'
  BY <1>1, <1>4 DEF BatchInv, TypeOK
<1>7. Scheduled'
  BY <1>1, <1>4 DEF BatchInv, Scheduled, Outcome
<1> QED BY <1>1, <1>3, <1>4, <1>5, <1>6, <1>7
        DEF BatchInv, AtStart, PartsCoverPending, AllRan

(* The second sort puts the results where the jobs were.                   *)
LEMMA RestoreAnswers ==
  ASSUME BatchInv, Restore
  PROVE  /\ answer' = [i \in 1..N |-> F(i)]
         /\ ToSet(started) = 1..N
<1>1. /\ phase = "restore" /\ N \in Nat
      /\ \E r \in Sorted(ToSet(results), [a \in ToSet(results) |-> a[1]]) :
           answer' = [x \in DOMAIN r |-> r[x][2]]
  BY JobsCounted DEF Restore, BatchInv
<1>2. /\ indexed \in [1..N -> 1..N]
      /\ \A i \in 1..N : \E x \in 1..N : indexed[x] = i
      /\ DOMAIN results = 1..N
      /\ \A x \in 1..N : results[x] \in {Pending, Outcome(x)}
      /\ ToSet(started) = {indexed[x] : x \in Ran}
      /\ Ran = 1..N
  BY <1>1 DEF BatchInv, Scheduled, AllRan
<1>3. \A x \in 1..N : results[x] = <<indexed[x], F(indexed[x])>>
  BY <1>2 DEF Ran, Outcome
<1>4. PICK S : S = ToSet(results)
  OBVIOUS
<1>5. S = {<<i, F(i)>> : i \in 1..N}
  <2>1. S = {results[x] : x \in 1..N}
    BY <1>2, <1>4 DEF ToSet
  <2>2. ASSUME NEW x \in 1..N
        PROVE  results[x] \in {<<i, F(i)>> : i \in 1..N}
    BY <1>2, <1>3
  <2>3. ASSUME NEW i \in 1..N
        PROVE  <<i, F(i)>> \in {results[x] : x \in 1..N}
    BY <1>2, <1>3
  <2> QED BY <2>1, <2>2, <2>3
<1>6. PICK r \in Sorted(S, [a \in S |-> a[1]]) :
        answer' = [x \in DOMAIN r |-> r[x][2]]
  BY <1>1, <1>4
<1>7. [x \in DOMAIN r |-> r[x][2]] = [i \in 1..N |-> F(i)]
  BY <1>1, <1>5, <1>6, SortedResults
<1>8. ToSet(started) = 1..N
  BY <1>2
<1> QED BY <1>6, <1>7, <1>8

LEMMA StepBatch ==
  ASSUME BatchInv, [Next]_vars
  PROVE  BatchInv'
<1>1. CASE Empty
  <2>1. N' = N /\ Handles' = Handles /\ \A h : PartAt(h)' = PartAt(h)
    BY <1>1 DEF Empty, N, Handles, PartAt
  <2> QED BY <1>1, <2>1
          DEF Empty, BatchInv, TypeOK, PartsIn, InRange, AtStart, Scheduled,
              PartsCoverPending, AllRan
<1>2. CASE Restore
  <2>1. N' = N /\ Handles' = Handles /\ \A h : PartAt(h)' = PartAt(h)
    BY <1>2 DEF Restore, N, Handles, PartAt
  <2>2. DOMAIN answer' = 1..N
    BY <1>2, RestoreAnswers
  <2> QED BY <1>2, <2>1, <2>2
          DEF Restore, BatchInv, TypeOK, PartsIn, InRange, AtStart, Scheduled,
              PartsCoverPending, AllRan
<1>3. CASE UNCHANGED vars
  <2>1. /\ N' = N /\ Ran' = Ran /\ Handles' = Handles
        /\ \A h : PartAt(h)' = PartAt(h)
    BY <1>3 DEF vars, N, Ran, Handles, PartAt
  <2>2. TypeOK' /\ PartsIn'
    BY <1>3, <2>1 DEF vars, BatchInv, TypeOK, PartsIn, InRange
  <2>3. Scheduled'
    <3>1. UNCHANGED <<phase, indexed, results, started>>
      BY <1>3 DEF vars
    <3>2. Scheduled
      BY DEF BatchInv
    <3>3. \A x : Outcome(x)' = Outcome(x)
      BY <3>1 DEF Outcome
    <3> SUFFICES ASSUME phase' \in {"run", "restore"}
                 PROVE  /\ indexed' \in [1..N' -> 1..N']
                        /\ \A x, y \in 1..N' : x # y => indexed'[x] # indexed'[y]
                        /\ \A i \in 1..N' : \E x \in 1..N' : indexed'[x] = i
                        /\ DOMAIN results' = 1..N'
                        /\ \A x \in 1..N' : results'[x] \in {Pending, Outcome(x)'}
                        /\ ToSet(started') = {indexed'[x] : x \in Ran'}
      BY DEF Scheduled
    <3>4. phase \in {"run", "restore"}
      BY <3>1
    <3>5. \A x \in 1..N : results[x] \in {Pending, Outcome(x)}
      BY <3>2, <3>4 DEF Scheduled
    <3>6. \A x \in 1..N' : results'[x] \in {Pending, Outcome(x)'}
      BY <2>1, <3>1, <3>3, <3>5
    <3> QED BY <2>1, <3>1, <3>2, <3>4, <3>6 DEF Scheduled
  <2>4. PartsCoverPending'
    BY <1>3, <2>1 DEF vars, BatchInv, PartsCoverPending
  <2> QED BY <1>3, <2>1, <2>2, <2>3, <2>4 DEF vars, BatchInv, AtStart, AllRan
<1> QED BY <1>1, <1>2, <1>3, ScheduleStep, MoveStep, RunJobStep, JoinedStep
        DEF Next, Work

(* The state of a batch has the types the code gives it.                   *)
THEOREM TypeCorrect == Spec => []TypeOK
<1>1. BatchInv /\ [Next]_vars => BatchInv'
  BY StepBatch
<1>2. BatchInv => TypeOK
  BY DEF BatchInv
<1> QED BY <1>1, <1>2, InitBatch, PTL DEF Spec

(* However the vector is cut up and stolen, each job without a result is   *)
(* in exactly one part, for any number of workers and jobs.                *)
THEOREM NoJobLost == Spec => []PartsCoverPending
<1>1. BatchInv /\ [Next]_vars => BatchInv'
  BY StepBatch
<1>2. BatchInv => PartsCoverPending
  BY DEF BatchInv
<1> QED BY <1>1, <1>2, InitBatch, PTL DEF Spec

-----------------------------------------------------------------------------
(* A batch is an ordered map.                                              *)

OrderedVars == <<N, ToSet(started), answer>>

LEMMA StepOrdered ==
  ASSUME BatchInv, [Next]_vars
  PROVE  [Ordered!OrderedNext]_OrderedVars
<1>1. CASE Empty \/ Joined \/ UNCHANGED vars
  BY <1>1 DEF Empty, Joined, vars, OrderedVars, N
<1>2. ASSUME NEW w \in Workers,
             Schedule(w) \/ Split(w) \/ Pop(w) \/ \E v \in Workers : Steal(w, v)
      PROVE  UNCHANGED OrderedVars
  BY <1>2 DEF Schedule, Split, Pop, Steal, OrderedVars, N
<1>3. ASSUME NEW w \in Workers, RunJob(w)
      PROVE  Ordered!OrderedNext
  <2>1. PICK x : x = part[w].from
    OBVIOUS
  <2>2. /\ x \in 1..N /\ phase = "run"
        /\ UNCHANGED <<cost, answer>>
        /\ x \notin Ran /\ indexed[x] \in 1..N
        /\ ToSet(started') = ToSet(started) \cup {indexed[x]}
    BY <1>3, <2>1, RunJobRules
  <2>3. indexed[x] \notin ToSet(started)
    <3>1. /\ \A y, z \in 1..N : y # z => indexed[y] # indexed[z]
          /\ ToSet(started) = {indexed[y] : y \in Ran}
          /\ Ran \subseteq 1..N
      BY <2>2 DEF BatchInv, Scheduled, Ran
    <3> QED BY <2>2, <3>1
  <2>4. N' = N
    BY <2>2 DEF N
  <2>5. Ordered!Apply(indexed[x])
    BY <2>2, <2>3, <2>4 DEF Ordered!Apply
  <2> QED BY <2>2, <2>5 DEF Ordered!OrderedNext
<1>4. CASE Restore
  <2>1. answer' = [i \in 1..N |-> F(i)] /\ ToSet(started) = 1..N
    BY <1>4, RestoreAnswers
  <2>2. N' = N /\ started' = started
    BY <1>4 DEF Restore, N
  <2>3. Ordered!Answer
    BY <2>1, <2>2 DEF Ordered!Answer
  <2> QED BY <2>3 DEF Ordered!OrderedNext
<1> QED BY <1>1, <1>2, <1>3, <1>4 DEF Next, Work

(* "returns results in the original input order": whatever the costs, the  *)
(* number of workers and the way they cut up and steal the work, a call    *)
(* applies its function to each job once, and its answer lists the results *)
(* in the order of the jobs.                                               *)
THEOREM BatchIsOrderedMap == Spec => ImplementsOrderedMap
<1>1. BatchInv /\ [Next]_vars => BatchInv'
  BY StepBatch
<1>2. Init => Ordered!OrderedInit
  <2> SUFFICES ASSUME Init PROVE Ordered!OrderedInit
    OBVIOUS
  <2>1. N \in Nat
    BY InitBatch, JobsCounted DEF BatchInv
  <2>2. started = << >> /\ answer = << >> /\ ToSet(<< >>) = {}
    BY DEF Init, ToSet
  <2> QED BY <2>1, <2>2 DEF Ordered!OrderedInit
<1>3. BatchInv /\ [Next]_vars
        => [Ordered!OrderedNext]_<<N, ToSet(started), answer>>
  BY StepOrdered DEF OrderedVars
<1> QED BY <1>1, <1>2, <1>3, InitBatch, PTL
        DEF Spec, ImplementsOrderedMap, Ordered!OrderedSpec

-----------------------------------------------------------------------------
(* ThreadPool: the global pool, next to the scheduler.                     *)
LEMMA PoolCounts == \A S : Pool!Cardinality(S) = Cardinality(S)
BY DEF Cardinality, Pool!Cardinality

(* The workers that run.                                                   *)
Started == {w \in Pool!PoolWorkers : pc[w] # "off"}

(* While the lock is taken one thread computes the pool info, and the      *)
(* tuned pool is there only from then on; none of its workers computes.    *)
OneComputes ==
  /\ lock # "running" => Pool!Computing = {}
  /\ lock = "running" => \E x \in Pool!Actors : Pool!Computing = {x}
  /\ registry = "tuned" => lock # "empty" /\ Pool!Computing \subseteq Callers

PoolTold ==
  /\ \A x \in Pool!Actors : pc[x] \in {"warm", "unwarmed"} => registry # "none"
  /\ registry = "none" => pool = 0
  /\ registry = "tuned" => pool = Pool!num_threads
  /\ registry = "failed" => pool < Pool!num_threads
  /\ lock = "ready" =>
       /\ registry # "none"
       /\ info = [threads |-> Pool!num_threads, initialised |-> registry = "tuned"]

(* Only spawned workers run, and those that serve have a frame.            *)
WorkersServe ==
  /\ \A w \in Pool!PoolWorkers :
       /\ pc[w] # "off" => w <= pool
       /\ stack[w] = << >> <=> pc[w] \in {"off", "idle"}
  /\ \A c \in Callers : pc[c] \notin {"off", "finish"}

(* The workers that build_global spawns run the start handler; the counter *)
(* has counted them, and each has taken a core of its own below it, or     *)
(* could not be pinned.                                                    *)
Handled == registry \in {"tuned", "failed"} /\ Physical # 0
Pinned ==
  /\ counter = IF Handled THEN Cardinality(Started) ELSE 0
  /\ \A w \in Pool!PoolWorkers : core[w] \in -1..(counter - 1)
  /\ \A v, w \in Pool!PoolWorkers : v # w /\ core[v] # -1 => core[v] # core[w]

PoolInv == Pool!TypeOK /\ OneComputes /\ PoolTold /\ WorkersServe /\ Pinned

ComputeLabels == {"build", "warm", "unwarmed"}
Labels == {"off", "idle", "init", "join", "finish"} \cup ComputeLabels

LEMMA PoolNumbers ==
  ASSUME Pool!PoolAssumption
  PROVE  /\ Physical \in Nat /\ DefaultWorkers \in Nat \ {0}
         /\ Pool!num_threads \in Nat \ {0}
         /\ IsFiniteSet(Pool!PoolWorkers) /\ Pool!PoolWorkers \subseteq Nat \ {0}
         /\ Cardinality(Pool!PoolWorkers) \in Nat
         /\ Pool!num_threads <= Cardinality(Pool!PoolWorkers)
         /\ DefaultWorkers <= Cardinality(Pool!PoolWorkers)
         /\ Physical # 0 => Pool!num_threads <= Physical
         /\ Physical > 1 => Pool!num_threads < Physical
         /\ "warm" \notin Callers
         /\ \A c \in Callers : c \notin Pool!PoolWorkers
<1>1. /\ Physical \in Nat /\ DefaultWorkers \in Nat \ {0}
      /\ Pool!num_threads \in Nat \ {0}
  BY DEF Pool!PoolAssumption, Pool!num_threads
<1>2. PICK m \in Nat \ {0} : /\ Pool!PoolWorkers = 1..m
                             /\ Pool!num_threads <= m /\ DefaultWorkers <= m
  BY <1>1 DEF Pool!PoolWorkers
<1>3. IsFiniteSet(1..m) /\ Cardinality(1..m) = m
  <2>1. m \in Int /\ 1 \in Int /\ ~(1 > m) /\ m - 1 + 1 = m
    OBVIOUS
  <2> QED BY <2>1, FS_Interval
<1>4. /\ Physical # 0 => Pool!num_threads <= Physical
      /\ Physical > 1 => Pool!num_threads < Physical
  BY <1>1 DEF Pool!num_threads
<1>5. "warm" \notin Callers /\ \A c \in Callers : c \notin Pool!PoolWorkers
  BY DEF Pool!PoolAssumption
<1> QED BY <1>1, <1>2, <1>3, <1>4, <1>5

LEMMA StartedFinite ==
  ASSUME Pool!PoolAssumption
  PROVE  /\ IsFiniteSet(Started) /\ Cardinality(Started) \in Nat
         /\ Cardinality(Started) <= Cardinality(Pool!PoolWorkers)
<1>1. Started \in SUBSET Pool!PoolWorkers
  BY DEF Started
<1>2. /\ IsFiniteSet(Started)
      /\ Cardinality(Started) <= Cardinality(Pool!PoolWorkers)
  BY <1>1, PoolNumbers, FS_Subset
<1> QED BY <1>2, FS_CardinalityType

(* A frame is put on a stack, or the innermost one is taken off.           *)
LEMMA Pushed ==
  ASSUME NEW T, NEW f \in T, NEW s \in Seq(T)
  PROVE  <<f>> \o s \in Seq(T) /\ <<f>> \o s # << >>
<1>1. <<f>> \o s \in Seq(T) /\ Len(<<f>> \o s) = 1 + Len(s) /\ Len(s) \in Nat
  OBVIOUS
<1> QED BY <1>1

LEMMA Popped ==
  ASSUME NEW T, NEW s \in Seq(T), s # << >>
  PROVE  s[1] \in T /\ Tail(s) \in Seq(T)
OBVIOUS

LEMMA InitPool == ASSUME Pool!PoolAssumption, Pool!Init PROVE PoolInv
<1>1. Pool!TypeOK
  <2>1. 0 \in 0..Pool!Cardinality(Pool!PoolWorkers)
    BY PoolNumbers, PoolCounts
  <2>2. -1 \in -1..(Physical - 1) /\ 0 \in 0..MaxPoolJobs
    BY PoolNumbers DEF Pool!PoolAssumption
  <2>3. /\ info \in [threads : {0, Pool!num_threads}, initialised : BOOLEAN]
        /\ core \in [Pool!PoolWorkers -> -1..(Physical - 1)]
        /\ injected \subseteq Pool!Kinds /\ left \in [Pool!Kinds -> SUBSET Nat]
        /\ stack \in [Pool!PoolWorkers -> Seq(Pool!Frame)]
    BY <2>2 DEF Pool!Init, Pool!NoInfo
  <2>4. pc \in [Pool!Actors -> {"off", "idle", "init", "build", "warm",
                                "unwarmed", "join", "finish"}]
    BY DEF Pool!Init
  <2> QED BY <2>1, <2>2, <2>3, <2>4 DEF Pool!Init, Pool!TypeOK
<1>2. \A x \in Pool!Actors : pc[x] \in {"off", "idle"}
  BY DEF Pool!Init
<1>3. OneComputes
  BY <1>2 DEF OneComputes, Pool!Init, Pool!Computing
<1>4. PoolTold
  BY <1>2 DEF PoolTold, Pool!Init
<1>5. WorkersServe
  BY PoolNumbers DEF WorkersServe, Pool!Init, Pool!Actors
<1>6. Pinned
  BY DEF Pinned, Handled, Pool!Init
<1> QED BY <1>1, <1>3, <1>4, <1>5, <1>6 DEF PoolInv

-----------------------------------------------------------------------------
(* What a step keeps that moves one actor.                                 *)
LEMMA Moved ==
  ASSUME Pool!TypeOK, NEW x \in Pool!Actors, NEW l \in Labels, Pool!Goto(x, l)
  PROVE  /\ pc' \in [Pool!Actors -> Labels] /\ pc'[x] = l
         /\ \A y \in Pool!Actors : y # x => pc'[y] = pc[y]
BY DEF Pool!TypeOK, Pool!Goto, Labels, ComputeLabels

LEMMA PinnedStays ==
  ASSUME PoolInv, NEW x \in Pool!Actors, NEW l \in Labels, Pool!Goto(x, l),
         pc[x] # "off", l # "off", UNCHANGED <<counter, core, registry>>
  PROVE  Pinned'
<1>1. Started' = Started
  BY Moved DEF PoolInv, Started, Pool!Actors
<1> QED BY <1>1 DEF PoolInv, Pinned, Handled

(* The threads that compute the pool info come and go one at a time.       *)
LEMMA ComputingStays ==
  ASSUME PoolInv, NEW x \in Pool!Actors, NEW l \in Labels, Pool!Goto(x, l),
         pc[x] \in ComputeLabels <=> l \in ComputeLabels
  PROVE  Pool!Computing' = Pool!Computing
BY Moved DEF PoolInv, Pool!Computing, ComputeLabels

LEMMA ServeStays ==
  ASSUME Pool!PoolAssumption, PoolInv, NEW x \in Pool!Actors,
         NEW l \in Labels, Pool!Goto(x, l),
         pc[x] # "off", l # "off", UNCHANGED stack, pool' = pool \/ pool = 0,
         x \in Pool!PoolWorkers => (pc[x] = "idle" <=> l = "idle"),
         x \in Callers => l # "finish"
  PROVE  WorkersServe'
<1>1. \A w \in Pool!PoolWorkers : pc'[w] # "off" => pc[w] # "off" /\ w <= pool'
  BY Moved, PoolNumbers DEF PoolInv, WorkersServe, Pool!Actors
<1> QED BY <1>1, Moved DEF PoolInv, WorkersServe, Pool!Actors

(* A thread that computes is the one that holds the lock.                  *)
LEMMA ComputesAlone ==
  ASSUME PoolInv, NEW x \in Pool!Actors, pc[x] \in ComputeLabels
  PROVE  lock = "running" /\ Pool!Computing = {x}
<1>1. x \in Pool!Computing
  BY DEF Pool!Computing, ComputeLabels
<1> QED BY <1>1 DEF PoolInv, OneComputes, Pool!TypeOK

(* A call begins or is answered, a job is joined, build_global answers that*)
(* there is a pool, a task ends: only one actor's place changes.           *)
LEMMA OneMoves ==
  ASSUME PoolInv, Pool!PoolAssumption, NEW x \in Pool!Actors,
         NEW l \in Labels, Pool!Goto(x, l),
         pc[x] # "off", l # "off",
         pc[x] \in ComputeLabels <=> l \in ComputeLabels,
         l \in ComputeLabels => registry # "none",
         x \in Pool!PoolWorkers => (pc[x] = "idle" <=> l = "idle"),
         x \in Callers => l # "finish",
         UNCHANGED <<lock, info, registry, pool, counter, core, injected, left,
                     stack, jobs>>
  PROVE  PoolInv'
<1>1. Pool!TypeOK'
  BY Moved DEF PoolInv, Pool!TypeOK, Labels, ComputeLabels
<1>2. Pool!Computing' = Pool!Computing
  BY ComputingStays
<1>3. OneComputes'
  BY <1>2 DEF PoolInv, OneComputes
<1>4. PoolTold'
  BY Moved DEF PoolInv, PoolTold, ComputeLabels
<1>5. WorkersServe'
  BY ServeStays
<1>6. Pinned'
  BY PinnedStays
<1> QED BY <1>1, <1>3, <1>4, <1>5, <1>6 DEF PoolInv

LEMMA CallerMoves ==
  ASSUME PoolInv, Pool!PoolAssumption, NEW c \in Callers,
         Pool!Init_thread_pool(c) \/ Pool!Joined(c)
  PROVE  PoolInv'
<1>1. PICK l \in {"init", "idle"} :
        /\ Pool!Goto(c, l) /\ pc[c] \in {"idle", "join"}
        /\ UNCHANGED <<lock, info, registry, pool, counter, core, injected, left,
                       stack, jobs>>
  BY DEF Pool!Init_thread_pool, Pool!Joined, Pool!once, Pool!spawned, Pool!pins,
         Pool!work
<1>2. c \in Pool!Actors /\ c \notin Pool!PoolWorkers
  BY PoolNumbers DEF Pool!Actors
<1>3. l \in Labels /\ l \notin ComputeLabels /\ pc[c] \notin ComputeLabels
  BY <1>1 DEF Labels, ComputeLabels
<1> QED BY <1>1, <1>2, <1>3, OneMoves

LEMMA KnownStep ==
  ASSUME PoolInv, Pool!PoolAssumption, NEW x \in Pool!Actors, Pool!Known(x)
  PROVE  PoolInv'
<1>1. PICK l \in {"finish", "idle"} :
        /\ Pool!Goto(x, l) /\ pc[x] = "init"
        /\ x \in Pool!PoolWorkers => l = "finish"
        /\ x \notin Pool!PoolWorkers => l = "idle"
        /\ UNCHANGED <<lock, info, registry, pool, counter, core, injected, left,
                       stack, jobs>>
  BY DEF Pool!Known, Pool!Return, Pool!once, Pool!spawned, Pool!pins, Pool!work
<1>2. l \in Labels /\ l \notin ComputeLabels /\ pc[x] \notin ComputeLabels
  BY <1>1 DEF Labels, ComputeLabels
<1> QED BY <1>1, <1>2, PoolNumbers, OneMoves

LEMMA AlreadyBuiltStep ==
  ASSUME PoolInv, Pool!PoolAssumption, NEW x \in Pool!Actors, Pool!AlreadyBuilt(x)
  PROVE  PoolInv'
<1>1. /\ pc[x] = "build" /\ registry # "none" /\ Pool!Goto(x, "unwarmed")
      /\ UNCHANGED <<lock, info, registry, pool, counter, core, injected, left,
                     stack, jobs>>
  BY DEF Pool!AlreadyBuilt, Pool!once, Pool!spawned, Pool!pins, Pool!work
<1>2. /\ "unwarmed" \in Labels /\ "unwarmed" \in ComputeLabels
      /\ "build" \in ComputeLabels
  BY DEF Labels, ComputeLabels
<1> QED BY <1>1, <1>2, OneMoves

LEMMA FinishTaskStep ==
  ASSUME PoolInv, Pool!PoolAssumption, NEW w \in Pool!PoolWorkers,
         Pool!FinishTask(w)
  PROVE  PoolInv'
<1>1. /\ pc[w] = "finish" /\ Pool!Goto(w, "join")
      /\ UNCHANGED <<lock, info, registry, pool, counter, core, injected, left,
                     stack, jobs>>
  BY DEF Pool!FinishTask, Pool!once, Pool!spawned, Pool!pins, Pool!work
<1>2. /\ w \in Pool!Actors
      /\ "join" \in Labels /\ "join" \notin ComputeLabels
      /\ "finish" \notin ComputeLabels
  BY DEF Pool!Actors, Labels, ComputeLabels
<1> QED BY <1>1, <1>2, OneMoves

LEMMA ComputeStep ==
  ASSUME PoolInv, Pool!PoolAssumption, NEW x \in Pool!Actors, Pool!Compute(x)
  PROVE  PoolInv'
<1>0. /\ pc[x] = "init" /\ lock = "empty" /\ lock' = "running" /\ Pool!Goto(x, "build")
      /\ UNCHANGED <<info, registry, pool, counter, core, injected, left, stack, jobs>>
  BY DEF Pool!Compute, Pool!spawned, Pool!pins, Pool!work
<1>l. "build" \in Labels
  BY DEF Labels, ComputeLabels
<1>1. Pool!TypeOK'
  BY <1>0, <1>l, Moved DEF PoolInv, Pool!TypeOK, Labels, ComputeLabels
<1>2. Pool!Computing' = {x} /\ registry # "tuned"
  BY <1>0, <1>l, Moved DEF PoolInv, OneComputes, Pool!Computing
<1>3. OneComputes'
  BY <1>0, <1>2 DEF OneComputes
<1>4. PoolTold'
  BY <1>0, <1>l, Moved DEF PoolInv, PoolTold
<1>5. WorkersServe'
  BY <1>0, <1>l, ServeStays
<1>6. Pinned'
  BY <1>0, <1>l, PinnedStays
<1> QED BY <1>1, <1>3, <1>4, <1>5, <1>6 DEF PoolInv

(* No worker runs yet when build_global spawns them: a caller calls it, and*)
(* the counter has counted none.                                           *)
LEMMA NoneStarted ==
  ASSUME PoolInv, Pool!PoolAssumption, registry = "none"
  PROVE  /\ Started = {} /\ counter = 0
         /\ \A w \in Pool!PoolWorkers : pc[w] = "off" /\ core[w] = -1
<1>1. \A w \in Pool!PoolWorkers : pc[w] = "off"
  BY PoolNumbers DEF PoolInv, PoolTold, WorkersServe
<1>2. counter = 0
  BY DEF PoolInv, Pinned, Handled
<1>3. \A w \in Pool!PoolWorkers : core[w] = -1
  <2> SUFFICES ASSUME NEW w \in Pool!PoolWorkers PROVE core[w] = -1
    OBVIOUS
  <2>1. core[w] \in -1..(0 - 1)
    BY <1>2 DEF PoolInv, Pinned
  <2> QED BY <2>1
<1> QED BY <1>1, <1>2, <1>3 DEF Started

LEMMA PinnedNone ==
  ASSUME PoolInv, Pool!PoolAssumption, registry = "none", Started' = {},
         UNCHANGED <<counter, core>>
  PROVE  Pinned'
<1>1. Cardinality(Started') = 0
  BY FS_EmptySet
<1> QED BY <1>1, NoneStarted DEF PoolInv, Pinned, Handled

LEMMA BuildStep ==
  ASSUME PoolInv, Pool!PoolAssumption, NEW x \in Pool!Actors,
         Pool!BuildGlobal(x) \/ Pool!SpawnFails(x)
  PROVE  PoolInv'
<1>0. PICK l \in {"warm", "unwarmed"} :
        /\ pc[x] = "build" /\ registry = "none" /\ Pool!Goto(x, l)
        /\ \/ registry' = "tuned" /\ pool' = Pool!num_threads
           \/ registry' = "failed" /\ pool' \in 0..(Pool!num_threads - 1)
        /\ injected' \subseteq Pool!Kinds
        /\ left' \in [Pool!Kinds -> SUBSET Nat]
        /\ UNCHANGED <<lock, info, counter, core, stack, jobs>>
  <2> USE DEF Pool!once, Pool!pins, Pool!work
  <2>1. CASE Pool!BuildGlobal(x)
    <3>1. "warm" \in Pool!Kinds
      BY DEF Pool!Kinds
    <3>2. injected' \subseteq Pool!Kinds /\ left' \in [Pool!Kinds -> SUBSET Nat]
      BY <2>1, <3>1 DEF Pool!BuildGlobal, Pool!Inject, PoolInv, Pool!TypeOK
    <3> QED BY <2>1, <3>2 DEF Pool!BuildGlobal
  <2>2. CASE Pool!SpawnFails(x)
    BY <2>2 DEF Pool!SpawnFails, PoolInv, Pool!TypeOK
  <2> QED BY <2>1, <2>2
<1>l. l \in Labels /\ l \in ComputeLabels /\ "build" \in ComputeLabels
  BY DEF Labels, ComputeLabels
<1>a. lock = "running" /\ Pool!Computing = {x}
  BY <1>0, <1>l, ComputesAlone
<1>x. x \in Callers /\ x \notin Pool!PoolWorkers
  BY <1>0, NoneStarted, PoolNumbers DEF Pool!Actors
<1>1. Pool!TypeOK'
  <2>1. pool' \in 0..Pool!Cardinality(Pool!PoolWorkers)
    BY <1>0, PoolNumbers, PoolCounts
  <2>2. pc' \in [Pool!Actors -> Labels]
    BY <1>0, <1>l, Moved DEF PoolInv
  <2> QED BY <1>0, <2>1, <2>2 DEF PoolInv, Pool!TypeOK, Labels, ComputeLabels
<1>2. Pool!Computing' = Pool!Computing
  BY <1>0, <1>l, ComputingStays
<1>3. OneComputes'
  BY <1>0, <1>2, <1>a, <1>x DEF PoolInv, OneComputes
<1>4. PoolTold'
  BY <1>0, <1>a, PoolNumbers DEF PoolTold
<1>5. WorkersServe'
  BY <1>0, <1>l, <1>x, ServeStays DEF PoolInv, PoolTold
<1>6. Pinned'
  <2>1. \A w \in Pool!PoolWorkers : pc'[w] = "off"
    BY <1>0, <1>l, <1>x, Moved, NoneStarted DEF PoolInv, Pool!Actors
  <2>2. Started' = {}
    BY <2>1 DEF Started
  <2> QED BY <1>0, <2>2, PinnedNone
<1> QED BY <1>1, <1>3, <1>4, <1>5, <1>6 DEF PoolInv

LEMMA WarmedStep ==
  ASSUME PoolInv, Pool!PoolAssumption, NEW x \in Pool!Actors, Pool!Warmed(x)
  PROVE  PoolInv'
<1>0. PICK l \in {"idle", "finish"} :
        /\ pc[x] \in {"warm", "unwarmed"} /\ lock' = "ready" /\ Pool!Goto(x, l)
        /\ info' = [threads |-> Pool!num_threads, initialised |-> registry = "tuned"]
        /\ x \in Pool!PoolWorkers => l = "finish"
        /\ x \notin Pool!PoolWorkers => l = "idle"
        /\ UNCHANGED <<registry, pool, counter, core, injected, left, stack, jobs>>
  BY DEF Pool!Warmed, Pool!WarmupOver, Pool!Return, Pool!spawned, Pool!pins,
         Pool!work
<1>l. l \in Labels /\ l \notin ComputeLabels /\ pc[x] \in ComputeLabels
  BY <1>0 DEF Labels, ComputeLabels
<1>a. lock = "running" /\ Pool!Computing = {x}
  BY <1>l, ComputesAlone
<1>1. Pool!TypeOK'
  <2>1. info' \in [threads : {0, Pool!num_threads}, initialised : BOOLEAN]
    BY <1>0
  <2>2. pc' \in [Pool!Actors -> Labels]
    BY <1>0, <1>l, Moved DEF PoolInv
  <2> QED BY <1>0, <2>1, <2>2 DEF PoolInv, Pool!TypeOK, Labels, ComputeLabels
<1>2. Pool!Computing' = {}
  BY <1>a, <1>0, <1>l, Moved DEF PoolInv, Pool!Computing, ComputeLabels
<1>3. OneComputes'
  BY <1>0, <1>2 DEF PoolInv, OneComputes
<1>4. PoolTold'
  BY <1>0, <1>l, Moved DEF PoolInv, PoolTold, ComputeLabels
<1>5. WorkersServe'
  BY <1>0, <1>l, PoolNumbers, ServeStays
<1>6. Pinned'
  BY <1>0, <1>l, PinnedStays
<1> QED BY <1>1, <1>3, <1>4, <1>5, <1>6 DEF PoolInv

-----------------------------------------------------------------------------
LEMMA SubmitStep ==
  ASSUME PoolInv, Pool!PoolAssumption, NEW c \in Callers, Pool!Submit(c)
  PROVE  PoolInv'
<1>0. /\ pc[c] = "idle" /\ jobs < MaxPoolJobs /\ jobs' = jobs + 1
      /\ Pool!Goto(c, "join")
      /\ \/ registry = "none" /\ registry' = "default" /\ pool' = DefaultWorkers
         \/ registry \in {"tuned", "default"} /\ UNCHANGED <<registry, pool>>
      /\ Pool!Inject(c)
      /\ UNCHANGED <<lock, info, counter, core, stack>>
  BY DEF Pool!Submit, Pool!once, Pool!pins, Pool!spawned
<1>l. /\ "join" \in Labels /\ "join" \notin ComputeLabels
      /\ "idle" \notin ComputeLabels
  BY DEF Labels, ComputeLabels
<1>x. c \in Pool!Actors /\ c \notin Pool!PoolWorkers /\ c \in Pool!Kinds
  BY PoolNumbers DEF Pool!Actors, Pool!Kinds
<1>1. Pool!TypeOK'
  <2>1. jobs' \in 0..MaxPoolJobs
    BY <1>0 DEF PoolInv, Pool!TypeOK, Pool!PoolAssumption
  <2>2. pool' \in 0..Pool!Cardinality(Pool!PoolWorkers)
    BY <1>0, PoolNumbers, PoolCounts DEF PoolInv, Pool!TypeOK
  <2>3. injected' \subseteq Pool!Kinds /\ left' \in [Pool!Kinds -> SUBSET Nat]
    BY <1>0, <1>x DEF Pool!Inject, PoolInv, Pool!TypeOK
  <2>4. pc' \in [Pool!Actors -> Labels]
    BY <1>0, <1>l, <1>x, Moved DEF PoolInv
  <2> QED BY <1>0, <2>1, <2>2, <2>3, <2>4
          DEF PoolInv, Pool!TypeOK, Labels, ComputeLabels
<1>2. Pool!Computing' = Pool!Computing
  BY <1>0, <1>x, <1>l, ComputingStays
<1>3. OneComputes'
  BY <1>0, <1>2 DEF PoolInv, OneComputes
<1>4. PoolTold'
  BY <1>0, <1>x, <1>l, Moved, PoolNumbers DEF PoolInv, PoolTold
<1>5. WorkersServe'
  BY <1>0, <1>x, <1>l, ServeStays DEF PoolInv, PoolTold
<1>6. Pinned'
  <2>1. CASE registry = "none"
    <3>1. \A w \in Pool!PoolWorkers : pc'[w] = "off"
      BY <1>0, <1>l, <1>x, <2>1, Moved, NoneStarted DEF PoolInv, Pool!Actors
    <3>2. Started' = {}
      BY <3>1 DEF Started
    <3> QED BY <1>0, <2>1, <3>2, PinnedNone
  <2>2. CASE registry # "none"
    BY <1>0, <1>x, <1>l, <2>2, PinnedStays
  <2> QED BY <2>1, <2>2
<1> QED BY <1>1, <1>3, <1>4, <1>5, <1>6 DEF PoolInv

LEMMA SubmitPanicsStep ==
  ASSUME PoolInv, Pool!PoolAssumption, NEW c \in Callers, Pool!SubmitPanics(c)
  PROVE  PoolInv'
<1>0. /\ jobs < MaxPoolJobs /\ jobs' = jobs + 1
      /\ registry \in {"none", "failed"} /\ registry' = "failed"
      /\ UNCHANGED <<lock, info, pool, counter, core, injected, left, stack, pc>>
  BY DEF Pool!SubmitPanics, Pool!once, Pool!pins, Pool!work
<1>1. Pool!TypeOK'
  <2>1. jobs' \in 0..MaxPoolJobs
    BY <1>0 DEF PoolInv, Pool!TypeOK, Pool!PoolAssumption
  <2> QED BY <1>0, <2>1 DEF PoolInv, Pool!TypeOK
<1>2. OneComputes'
  BY <1>0 DEF PoolInv, OneComputes, Pool!Computing
<1>3. PoolTold'
  BY <1>0, PoolNumbers DEF PoolInv, PoolTold
<1>4. WorkersServe'
  BY <1>0 DEF PoolInv, WorkersServe
<1>5. Pinned'
  <2>1. Started' = Started
    BY <1>0 DEF Started
  <2>2. CASE registry = "none"
    BY <1>0, <2>1, <2>2, NoneStarted, PinnedNone
  <2>3. CASE registry = "failed"
    BY <1>0, <2>1, <2>3 DEF PoolInv, Pinned, Handled
  <2> QED BY <1>0, <2>2, <2>3
<1> QED BY <1>1, <1>2, <1>3, <1>4, <1>5 DEF PoolInv

LEMMA SmallRemainder ==
  ASSUME NEW a \in Nat, NEW b \in Nat, a < b
  PROVE  a % b = a
OBVIOUS

(* There are fewer workers with a start handler than cores left to take.   *)
LEMMA CounterBelow ==
  ASSUME PoolInv, Pool!PoolAssumption, Handled
  PROVE  /\ counter \in Nat /\ counter <= Pool!num_threads
         /\ \A w \in Pool!PoolWorkers :
              pc[w] = "off" /\ w <= pool => counter < Pool!num_threads
<1>1. /\ pool \in Nat /\ pool <= Pool!num_threads
      /\ counter = Cardinality(Started)
  <2>1. pool \in Nat
    BY PoolNumbers, PoolCounts DEF PoolInv, Pool!TypeOK
  <2> QED BY <2>1, PoolNumbers DEF PoolInv, Pinned, Handled, PoolTold
<1>2. Started \in SUBSET (1..pool)
  BY <1>1, PoolNumbers DEF PoolInv, WorkersServe, Started
<1>3. IsFiniteSet(1..pool) /\ Cardinality(1..pool) = pool
  <2>1. /\ IsFiniteSet(1..pool)
        /\ Cardinality(1..pool) = IF 1 > pool THEN 0 ELSE pool - 1 + 1
    BY <1>1, FS_Interval
  <2> QED BY <1>1, <2>1
<1>4. Cardinality(Started) <= pool
  BY <1>2, <1>3, FS_Subset
<1>5. ASSUME NEW w \in Pool!PoolWorkers, pc[w] = "off", w <= pool
      PROVE  counter < Pool!num_threads
  <2>1. Started \cup {w} \in SUBSET (1..pool) /\ w \notin Started
    BY <1>2, <1>5, PoolNumbers DEF Started
  <2>2. Cardinality(Started \cup {w}) = Cardinality(Started) + 1
    BY <2>1, StartedFinite, FS_AddElement
  <2>3. Cardinality(Started \cup {w}) <= pool
    BY <1>3, <2>1, FS_Subset
  <2> QED BY <1>1, <2>2, <2>3, StartedFinite, PoolNumbers
<1> QED BY <1>1, <1>4, <1>5, StartedFinite, PoolNumbers

(* A worker takes the core after those of the workers that have started    *)
(* before it, if it can be pinned: there is one for each of them.          *)
LEMMA StartWorkerStep ==
  ASSUME PoolInv, Pool!PoolAssumption, NEW w \in Pool!PoolWorkers, Pool!StartWorker(w)
  PROVE  PoolInv'
<1>0. /\ pc[w] = "off" /\ w <= pool /\ Pool!Goto(w, "idle")
      /\ UNCHANGED <<lock, info, registry, pool, injected, left, stack, jobs>>
  BY DEF Pool!StartWorker, Pool!once, Pool!spawned, Pool!work
<1>x. /\ w \in Pool!Actors /\ w \notin Callers
      /\ "idle" \in Labels /\ "idle" \notin ComputeLabels /\ "off" \notin ComputeLabels
  BY PoolNumbers DEF Pool!Actors, Labels, ComputeLabels
<1>s. Started' = Started \cup {w} /\ w \notin Started
  BY <1>0, <1>x, Moved DEF PoolInv, Started, Pool!Actors
<1>c. /\ Cardinality(Started') = Cardinality(Started) + 1
      /\ Cardinality(Started') <= Cardinality(Pool!PoolWorkers)
  <2>1. Cardinality(Started \cup {w}) = Cardinality(Started) + 1
    BY <1>s, StartedFinite, FS_AddElement
  <2>2. Started \cup {w} \in SUBSET Pool!PoolWorkers
    BY DEF Started
  <2>3. Cardinality(Started \cup {w}) <= Cardinality(Pool!PoolWorkers)
    BY <2>2, PoolNumbers, FS_Subset
  <2> QED BY <1>s, <2>1, <2>3
<1>r. registry \in {"tuned", "default", "failed"}
  BY <1>0, PoolNumbers DEF PoolInv, Pool!TypeOK, PoolTold
<1>p. ASSUME Handled
      PROVE  /\ counter' \in 0..Pool!Cardinality(Pool!PoolWorkers)
             /\ core' \in [Pool!PoolWorkers -> -1..(Physical - 1)]
             /\ Pinned'
  <2>1. counter \in Nat /\ counter < Physical
    BY <1>0, <1>p, CounterBelow, PoolNumbers DEF Handled
  <2>2. /\ core' \in {core, [core EXCEPT ![w] = counter]}
        /\ counter' = counter + 1
    <3>1. counter % Physical = counter
      BY <2>1, PoolNumbers, SmallRemainder
    <3>2. registry # "default" /\ Physical # 0
      BY <1>p DEF Handled
    <3> QED BY <3>1, <3>2 DEF Pool!StartWorker, Pool!pin_to_physical_core
  <2>3. \A v \in Pool!PoolWorkers :
          core'[v] = core[v] \/ (v = w /\ core'[v] = counter)
    BY <2>2 DEF PoolInv, Pool!TypeOK
  <2>4. counter' = Cardinality(Started')
    BY <1>p, <1>c, <2>2 DEF PoolInv, Pinned
  <2>5. counter' \in 0..Pool!Cardinality(Pool!PoolWorkers)
    BY <1>c, <2>1, <2>2, <2>4, PoolCounts, PoolNumbers
  <2>6. core' \in [Pool!PoolWorkers -> -1..(Physical - 1)]
    <3>1. counter \in -1..(Physical - 1)
      BY <2>1, PoolNumbers
    <3> QED BY <2>2, <3>1 DEF PoolInv, Pool!TypeOK
  <2>7. \A v \in Pool!PoolWorkers : core[v] \in -1..(counter - 1)
    BY DEF PoolInv, Pinned
  <2>8. \A v \in Pool!PoolWorkers : core'[v] \in -1..(counter' - 1)
    BY <2>1, <2>2, <2>3, <2>7
  <2>9. \A u, v \in Pool!PoolWorkers : u # v /\ core'[u] # -1 => core'[u] # core'[v]
    <3> SUFFICES ASSUME NEW u \in Pool!PoolWorkers, NEW v \in Pool!PoolWorkers,
                        u # v, core'[u] # -1
                 PROVE  core'[u] # core'[v]
      OBVIOUS
    <3>1. core[u] # counter /\ core[v] # counter
      BY <2>1, <2>7
    <3> QED BY <2>3, <3>1 DEF PoolInv, Pinned
  <2> QED BY <1>0, <1>p, <2>4, <2>5, <2>6, <2>8, <2>9 DEF Pinned, Handled
<1>q. ASSUME ~ Handled
      PROVE  /\ counter' \in 0..Pool!Cardinality(Pool!PoolWorkers)
             /\ core' \in [Pool!PoolWorkers -> -1..(Physical - 1)]
             /\ Pinned'
  <2>1. UNCHANGED <<counter, core>>
    BY <1>q, <1>r DEF Handled, Pool!StartWorker, Pool!pin_to_physical_core, Pool!pins
  <2> QED BY <1>0, <1>q, <2>1 DEF PoolInv, Pinned, Handled, Pool!TypeOK
<1>1. Pool!TypeOK'
  <2>1. /\ counter' \in 0..Pool!Cardinality(Pool!PoolWorkers)
        /\ core' \in [Pool!PoolWorkers -> -1..(Physical - 1)]
    BY <1>p, <1>q
  <2>2. pc' \in [Pool!Actors -> Labels]
    BY <1>0, <1>x, Moved DEF PoolInv
  <2> QED BY <1>0, <2>1, <2>2 DEF PoolInv, Pool!TypeOK, Labels, ComputeLabels
<1>2. Pool!Computing' = Pool!Computing
  BY <1>0, <1>x, ComputingStays
<1>3. OneComputes'
  BY <1>0, <1>2 DEF PoolInv, OneComputes
<1>4. PoolTold'
  BY <1>0, <1>x, Moved DEF PoolInv, PoolTold
<1>5. WorkersServe'
  BY <1>0, <1>x, Moved DEF PoolInv, WorkersServe, Pool!Actors
<1>6. Pinned'
  BY <1>p, <1>q
<1> QED BY <1>1, <1>3, <1>4, <1>5, <1>6 DEF PoolInv

-----------------------------------------------------------------------------
(* A worker that searches for work or waits in a part takes a part, begins *)
(* a task of it or leaves it: it is idle exactly if it has no frame then.  *)
LEMMA WorkerMoves ==
  ASSUME PoolInv, Pool!PoolAssumption, NEW w \in Pool!PoolWorkers,
         NEW l \in {"idle", "join", "init", "finish"}, Pool!Goto(w, l),
         pc[w] \in {"idle", "join"},
         stack' \in [Pool!PoolWorkers -> Seq(Pool!Frame)],
         \A v \in Pool!PoolWorkers \ {w} : stack'[v] = << >> <=> stack[v] = << >>,
         stack'[w] = << >> <=> l = "idle",
         injected' \subseteq Pool!Kinds, left' \in [Pool!Kinds -> SUBSET Nat],
         UNCHANGED <<lock, info, registry, pool, counter, core, jobs>>
  PROVE  PoolInv'
<1>x. /\ w \in Pool!Actors /\ w \notin Callers /\ l \in Labels
      /\ l \notin ComputeLabels /\ pc[w] \notin ComputeLabels
  BY PoolNumbers DEF Pool!Actors, Labels, ComputeLabels
<1>1. Pool!TypeOK'
  <2>1. pc' \in [Pool!Actors -> Labels]
    BY <1>x, Moved DEF PoolInv
  <2> QED BY <2>1 DEF PoolInv, Pool!TypeOK, Labels, ComputeLabels
<1>2. Pool!Computing' = Pool!Computing
  BY <1>x, ComputingStays
<1>3. OneComputes'
  BY <1>2 DEF PoolInv, OneComputes
<1>4. PoolTold'
  BY <1>x, Moved DEF PoolInv, PoolTold, ComputeLabels
<1>5. WorkersServe'
  BY <1>x, Moved DEF PoolInv, WorkersServe, Pool!Actors
<1>6. Pinned'
  BY <1>x, PinnedStays
<1> QED BY <1>1, <1>3, <1>4, <1>5, <1>6 DEF PoolInv

LEMMA BeginTask ==
  ASSUME NEW w, NEW k, Pool!Begin(w, k)
  PROVE  \E l \in {"init", "finish"} : Pool!Goto(w, l)
BY DEF Pool!Begin

(* The innermost frame of a worker that has one.                           *)
LEMMA TopFrame ==
  ASSUME PoolInv, NEW w \in Pool!PoolWorkers, stack[w] # << >>
  PROVE  /\ stack[w] \in Seq(Pool!Frame) /\ Tail(stack[w]) \in Seq(Pool!Frame)
         /\ Pool!Top(w) \in Pool!Frame
         /\ Pool!Top(w).job \in Pool!Kinds /\ Pool!Top(w).piece \in Nat
         /\ Pool!Top(w).rest \in SUBSET Nat /\ Pool!Top(w).stolen \in SUBSET Nat
<1>1. stack[w] \in Seq(Pool!Frame)
  BY DEF PoolInv, Pool!TypeOK
<1>2. Pool!Top(w) \in Pool!Frame /\ Tail(stack[w]) \in Seq(Pool!Frame)
  BY <1>1, Popped DEF Pool!Top
<1> QED BY <1>1, <1>2 DEF Pool!Frame

LEMMA Entered ==
  ASSUME PoolInv, NEW w \in Pool!PoolWorkers, NEW k \in Pool!Kinds,
         NEW i \in Nat, NEW rest \in SUBSET Nat
  PROVE  Pool!Enter(w, k, i, rest) \in Seq(Pool!Frame) /\ Pool!Enter(w, k, i, rest) # << >>
<1>1. [job |-> k, piece |-> i, rest |-> rest, stolen |-> {}] \in Pool!Frame
  BY DEF Pool!Frame
<1>2. stack[w] \in Seq(Pool!Frame)
  BY DEF PoolInv, Pool!TypeOK
<1> QED BY <1>1, <1>2, Pushed DEF Pool!Enter

LEMMA TakeStep ==
  ASSUME PoolInv, Pool!PoolAssumption, NEW w \in Pool!PoolWorkers,
         NEW k \in Pool!Kinds, Pool!Take(w, k)
  PROVE  PoolInv'
<1>1. PICK l \in {"init", "finish"} : Pool!Goto(w, l)
  BY BeginTask DEF Pool!Take
<1>2. Pool!TasksOf(k) \ {1} \in SUBSET Nat
  BY PoolNumbers DEF Pool!TasksOf, Pool!PoolAssumption
<1>3. /\ stack' \in [Pool!PoolWorkers -> Seq(Pool!Frame)] /\ stack'[w] # << >>
      /\ \A v \in Pool!PoolWorkers \ {w} : stack'[v] = stack[v]
  BY <1>2, Entered DEF Pool!Take, PoolInv, Pool!TypeOK
<1>4. /\ injected' \subseteq Pool!Kinds /\ left' \in [Pool!Kinds -> SUBSET Nat]
      /\ UNCHANGED <<lock, info, registry, pool, counter, core, jobs>>
  BY DEF Pool!Take, Pool!once, Pool!spawned, Pool!pins, PoolInv, Pool!TypeOK
<1>5. pc[w] \in {"idle", "join"}
  BY DEF Pool!Take, Pool!Searching
<1> QED BY <1>1, <1>3, <1>4, <1>5, WorkerMoves

LEMMA StealStep ==
  ASSUME PoolInv, Pool!PoolAssumption, NEW w \in Pool!PoolWorkers,
         NEW v \in Pool!PoolWorkers, Pool!Steal(w, v)
  PROVE  PoolInv'
<1>1. PICK l \in {"init", "finish"} : Pool!Goto(w, l)
  BY BeginTask DEF Pool!Steal
<1>2. v # w /\ stack[v] # << >>
  BY DEF Pool!Steal
<1>3. PICK i \in Pool!Top(v).rest :
        stack' = [stack EXCEPT
          ![v] = <<[Pool!Top(v) EXCEPT !.rest = {j \in Pool!Top(v).rest : j < i},
                                       !.stolen = @ \cup {i}]>> \o Tail(stack[v]),
          ![w] = Pool!Enter(w, Pool!Top(v).job, i, {j \in Pool!Top(v).rest : j > i})]
  BY DEF Pool!Steal
<1> DEFINE before == {j \in Pool!Top(v).rest : j < i}
           later == {j \in Pool!Top(v).rest : j > i}
           frame == [Pool!Top(v) EXCEPT !.rest = before, !.stolen = @ \cup {i}]
<1>4. i \in Nat /\ before \in SUBSET Nat /\ later \in SUBSET Nat
  BY <1>2, TopFrame
<1>5. frame \in Pool!Frame
  BY <1>2, <1>4, TopFrame DEF Pool!Frame
<1>6. /\ <<frame>> \o Tail(stack[v]) \in Seq(Pool!Frame)
      /\ <<frame>> \o Tail(stack[v]) # << >>
  BY <1>2, <1>5, TopFrame, Pushed
<1>7. /\ Pool!Enter(w, Pool!Top(v).job, i, later) \in Seq(Pool!Frame)
      /\ Pool!Enter(w, Pool!Top(v).job, i, later) # << >>
  BY <1>2, <1>4, TopFrame, Entered
<1>8. /\ stack' \in [Pool!PoolWorkers -> Seq(Pool!Frame)] /\ stack'[w] # << >>
      /\ \A u \in Pool!PoolWorkers \ {w} : stack'[u] = << >> <=> stack[u] = << >>
  BY <1>2, <1>3, <1>6, <1>7 DEF PoolInv, Pool!TypeOK
<1>9. /\ injected' \subseteq Pool!Kinds /\ left' \in [Pool!Kinds -> SUBSET Nat]
      /\ UNCHANGED <<lock, info, registry, pool, counter, core, jobs>>
      /\ pc[w] \in {"idle", "join"}
  BY DEF Pool!Steal, Pool!Searching, Pool!once, Pool!spawned, Pool!pins, PoolInv,
         Pool!TypeOK
<1> QED BY <1>1, <1>8, <1>9, WorkerMoves

LEMMA NextTaskStep ==
  ASSUME PoolInv, Pool!PoolAssumption, NEW w \in Pool!PoolWorkers, Pool!NextTask(w)
  PROVE  PoolInv'
<1>1. PICK l \in {"init", "finish"} : Pool!Goto(w, l)
  BY BeginTask DEF Pool!NextTask
<1>2. pc[w] = "join" /\ stack[w] # << >>
  BY DEF Pool!NextTask, PoolInv, WorkersServe
<1>3. PICK i \in Pool!Top(w).rest :
        stack' = [stack EXCEPT
          ![w] = <<[Pool!Top(w) EXCEPT !.rest = @ \ {i}]>> \o Tail(stack[w])]
  BY DEF Pool!NextTask
<1> DEFINE frame == [Pool!Top(w) EXCEPT !.rest = @ \ {i}]
<1>4. frame \in Pool!Frame
  BY <1>2, TopFrame DEF Pool!Frame
<1>5. /\ <<frame>> \o Tail(stack[w]) \in Seq(Pool!Frame)
      /\ <<frame>> \o Tail(stack[w]) # << >>
  BY <1>2, <1>4, TopFrame, Pushed
<1>6. /\ stack' \in [Pool!PoolWorkers -> Seq(Pool!Frame)] /\ stack'[w] # << >>
      /\ \A u \in Pool!PoolWorkers \ {w} : stack'[u] = stack[u]
  BY <1>3, <1>5 DEF PoolInv, Pool!TypeOK
<1>7. /\ injected' \subseteq Pool!Kinds /\ left' \in [Pool!Kinds -> SUBSET Nat]
      /\ UNCHANGED <<lock, info, registry, pool, counter, core, jobs>>
  BY DEF Pool!NextTask, Pool!once, Pool!spawned, Pool!pins, PoolInv, Pool!TypeOK
<1> QED BY <1>1, <1>2, <1>6, <1>7, WorkerMoves

LEMMA LeaveStep ==
  ASSUME PoolInv, Pool!PoolAssumption, NEW w \in Pool!PoolWorkers, Pool!Leave(w)
  PROVE  PoolInv'
<1>1. PICK l \in {"idle", "join"} :
        Pool!Goto(w, l) /\ (l = "idle" <=> Tail(stack[w]) = << >>)
  BY DEF Pool!Leave
<1>2. pc[w] = "join" /\ stack[w] # << >>
  BY DEF Pool!Leave, PoolInv, WorkersServe
<1>3. /\ stack' \in [Pool!PoolWorkers -> Seq(Pool!Frame)]
      /\ stack'[w] = Tail(stack[w])
      /\ \A u \in Pool!PoolWorkers \ {w} : stack'[u] = stack[u]
  BY <1>2, TopFrame DEF Pool!Leave, PoolInv, Pool!TypeOK
<1>4. left' \in [Pool!Kinds -> SUBSET Nat]
  BY <1>2, TopFrame DEF Pool!Leave, PoolInv, Pool!TypeOK
<1>5. /\ injected' \subseteq Pool!Kinds
      /\ UNCHANGED <<lock, info, registry, pool, counter, core, jobs>>
  BY DEF Pool!Leave, Pool!once, Pool!spawned, Pool!pins, PoolInv, Pool!TypeOK
<1> QED BY <1>1, <1>2, <1>3, <1>4, <1>5, WorkerMoves

LEMMA PoolStutters ==
  ASSUME PoolInv, UNCHANGED Pool!vars
  PROVE  PoolInv'
<1>0. UNCHANGED <<lock, info, registry, pool, counter, core, injected, left, stack,
                  pc, jobs>>
  BY DEF Pool!vars
<1>1. Pool!TypeOK'
  BY <1>0 DEF PoolInv, Pool!TypeOK
<1>2. OneComputes' /\ PoolTold' /\ WorkersServe'
  BY <1>0 DEF PoolInv, OneComputes, PoolTold, WorkersServe, Pool!Computing
<1>3. Pinned'
  BY <1>0 DEF PoolInv, Pinned, Handled, Started
<1> QED BY <1>1, <1>2, <1>3 DEF PoolInv

LEMMA StepPool ==
  ASSUME Pool!PoolAssumption, PoolInv, [Pool!Next]_(Pool!vars)
  PROVE  PoolInv'
<1>1. CASE \E c \in Callers :
             \/ Pool!Init_thread_pool(c) \/ Pool!Submit(c)
             \/ Pool!SubmitPanics(c) \/ Pool!Joined(c)
  BY <1>1, CallerMoves, SubmitStep, SubmitPanicsStep
<1>2. CASE \E x \in Pool!Actors : Pool!Continue(x)
  BY <1>2, KnownStep, ComputeStep, BuildStep, AlreadyBuiltStep, WarmedStep
     DEF Pool!Continue
<1>3. CASE \E w \in Pool!PoolWorkers : Pool!Serve(w)
  BY <1>3, StartWorkerStep, TakeStep, StealStep, NextTaskStep, FinishTaskStep,
     LeaveStep DEF Pool!Serve
<1>4. CASE Pool!Hang \/ UNCHANGED Pool!vars
  BY <1>4, PoolStutters DEF Pool!Hang
<1> QED BY <1>1, <1>2, <1>3, <1>4 DEF Pool!Next

-----------------------------------------------------------------------------
(* Every variable of the pool keeps its type: in particular a worker that  *)
(* goes on with a part of a job has one.                                   *)
THEOREM PoolTyped ==
  ASSUME Pool!PoolAssumption
  PROVE  Pool!Spec => []Pool!TypeOK
<1>1. Pool!Init => PoolInv
  BY InitPool
<1>2. PoolInv /\ [Pool!Next]_(Pool!vars) => PoolInv'
  BY StepPool
<1>3. PoolInv => Pool!TypeOK
  BY DEF PoolInv
<1> QED BY <1>1, <1>2, <1>3, PTL DEF Pool!Spec

(* However the first calls race, with each other and with the jobs of other*)
(* threads, and whether or not the workers can be spawned, one thread      *)
(* computes the pool info, never a worker of the tuned pool, and what it   *)
(* leaves tells whether that pool runs.                                    *)
THEOREM InfoTrue ==
  ASSUME Pool!PoolAssumption
  PROVE  Pool!Spec => []Pool!InfoHolds
<1>1. Pool!Init => PoolInv
  BY InitPool
<1>2. PoolInv /\ [Pool!Next]_(Pool!vars) => PoolInv'
  BY StepPool
<1>3. PoolInv => Pool!InfoHolds
  <2> SUFFICES ASSUME PoolInv PROVE Pool!InfoHolds
    OBVIOUS
  <2>1. Pool!Cardinality(Pool!Computing) = IF lock = "running" THEN 1 ELSE 0
    <3>1. CASE lock = "running"
      <4>1. PICK x : Pool!Computing = {x}
        BY <3>1 DEF PoolInv, OneComputes
      <4> QED BY <3>1, <4>1, FS_Singleton, PoolCounts
    <3>2. CASE lock # "running"
      <4>1. Pool!Computing = {}
        BY <3>2 DEF PoolInv, OneComputes
      <4> QED BY <3>2, <4>1, FS_EmptySet, PoolCounts
    <3> QED BY <3>1, <3>2
  <2>2. registry = "tuned" => Pool!Computing \subseteq Callers
    BY DEF PoolInv, OneComputes
  <2>3. lock = "ready" =>
          IF info.initialised THEN registry = "tuned" /\ pool = info.threads
          ELSE registry \in {"default", "failed"}
    BY DEF PoolInv, PoolTold, Pool!TypeOK
  <2> QED BY <2>1, <2>2, <2>3 DEF Pool!InfoHolds
<1> QED BY <1>1, <1>2, <1>3, PTL DEF Pool!Spec

(* "Leaves one core free": the workers that build_global spawns have a core*)
(* each, and one is left to the other threads, for any number of cores and *)
(* any size of the default pool.                                           *)
THEOREM CoresApart ==
  ASSUME Pool!PoolAssumption
  PROVE  Pool!Spec => []Pool!PinnedApart
<1>1. Pool!Init => PoolInv
  BY InitPool
<1>2. PoolInv /\ [Pool!Next]_(Pool!vars) => PoolInv'
  BY StepPool
<1>3. ASSUME PoolInv PROVE Pool!PinnedApart
  <2> SUFFICES ASSUME Physical > 1
               PROVE  \E i \in 0..(Physical - 1) : \A w \in Pool!PoolWorkers : core[w] # i
    BY <1>3 DEF PoolInv, Pinned, Pool!PinnedApart
  <2>1. counter \in Nat /\ counter < Physical
    <3>1. CASE Handled
      BY <1>3, <3>1, CounterBelow, PoolNumbers
    <3>2. CASE ~ Handled
      BY <1>3, <3>2, PoolNumbers DEF PoolInv, Pinned
    <3> QED BY <3>1, <3>2
  <2>2. Physical - 1 \in 0..(Physical - 1)
    BY PoolNumbers
  <2>3. \A w \in Pool!PoolWorkers : core[w] # Physical - 1
    <3> SUFFICES ASSUME NEW w \in Pool!PoolWorkers PROVE core[w] # Physical - 1
      OBVIOUS
    <3>1. core[w] \in -1..(counter - 1)
      BY <1>3 DEF PoolInv, Pinned
    <3> QED BY <2>1, <3>1, PoolNumbers
  <2> QED BY <2>2, <2>3
<1> QED BY <1>1, <1>2, <1>3, PTL DEF Pool!Spec

-----------------------------------------------------------------------------
(* The render graph, one call of it; names the components above have are   *)
(* prefixed.                                                               *)
(* The conditions a function checks, and none of them holding.             *)
Codes == {"TIMELINE_EMPTY_TRACKS", "TIMELINE_INVALID_TIMEBASE", "TIMELINE_INVALID_PLAN",
          "OVERLAY_INVALID_BOUNDS", "AUDIO_GRAPH_INVALID_CONFIG", "AUDIO_DRIFT_EXCEEDED",
          "DECODE_FAILED", "EFFECTS_FAILED", "ENCODE_FAILED"}
Checks == [bad : BOOLEAN, code : Codes]
AllGood(C) == \A c \in Range(C) : ~ c.bad

(* FirstError finds an error exactly if one of the conditions holds.       *)
LEMMA FirstErrorFinds ==
  ASSUME NEW C \in Seq(Checks)
  PROVE  Render!FirstError(C) = "ok" <=> AllGood(C)
<1> DEFINE bad == {k \in DOMAIN C : C[k].bad}
<1>1. DOMAIN C \subseteq Nat /\ \A k \in DOMAIN C : C[k] \in Checks
  BY ElementOfSeq, LenProperties
<1>2. Render!FirstError(C) = IF bad = {} THEN "ok" ELSE C[Render!Min(bad)].code
  BY DEF Render!FirstError
<1>3. AllGood(C) <=> bad = {}
  BY <1>1 DEF AllGood, Range
<1>4. ASSUME bad # {} PROVE C[Render!Min(bad)].code # "ok"
  <2>1. bad \in SUBSET Nat
    BY <1>1
  <2>2. \E m \in bad : \A k \in bad : m <= k
    <3> HIDE DEF bad
    <3> QED BY <1>4, <2>1, LeastNatural
  <2>3. Render!Min(bad) \in bad
    <3> HIDE DEF bad
    <3> QED BY <2>2 DEF Render!Min
  <2>4. C[Render!Min(bad)] \in Checks
    BY <1>1, <2>3
  <2> QED BY <2>4 DEF Checks, Codes
<1> HIDE DEF bad
<1> QED BY <1>2, <1>3, <1>4

(* Checks after checks.                                                    *)
LEMMA GoodJoined ==
  ASSUME NEW C \in Seq(Checks), NEW D \in Seq(Checks)
  PROVE  /\ C \o D \in Seq(Checks)
         /\ AllGood(C \o D) <=> AllGood(C) /\ AllGood(D)
<1>1. C \o D \in Seq(Checks) /\ Range(C \o D) = Range(C) \cup Range(D)
  BY ConcatProperties, RangeConcatenation
<1> QED BY <1>1 DEF AllGood

LEMMA CheckTyped ==
  ASSUME NEW b \in BOOLEAN, NEW c \in Codes
  PROVE  /\ Render!Check(b, c) \in Checks
         /\ Render!Check(b, c).bad = b
BY DEF Render!Check, Checks

(* The lists of checks as they are written, and one check per item.        *)
LEMMA ThreeChecks ==
  ASSUME NEW a \in Checks, NEW b \in Checks, NEW c \in Checks
  PROVE  <<a, b, c>> \in Seq(Checks) /\ Range(<<a, b, c>>) = {a, b, c}
<1>1. <<a, b, c>> \in Seq(Checks)
  OBVIOUS
<1> QED BY <1>1 DEF Range

LEMMA FourChecks ==
  ASSUME NEW a \in Checks, NEW b \in Checks, NEW c \in Checks, NEW d \in Checks
  PROVE  <<a, b, c, d>> \in Seq(Checks) /\ Range(<<a, b, c, d>>) = {a, b, c, d}
<1>1. <<a, b, c, d>> \in Seq(Checks)
  OBVIOUS
<1> QED BY <1>1 DEF Range

LEMMA FiveChecks ==
  ASSUME NEW a \in Checks, NEW b \in Checks, NEW c \in Checks, NEW d \in Checks, NEW e \in Checks
  PROVE  /\ <<a, b, c, d, e>> \in Seq(Checks)
         /\ Range(<<a, b, c, d, e>>) = {a, b, c, d, e}
<1>1. <<a, b, c, d, e>> \in Seq(Checks)
  OBVIOUS
<1> QED BY <1>1 DEF Range

LEMMA OneOrTwo ==
  ASSUME NEW n \in Nat
  PROVE  (n = 0 \/ n > 2) <=> n \notin 1..2
OBVIOUS

LEMMA OneCheck ==
  ASSUME NEW c \in Checks
  PROVE  <<c>> \in Seq(Checks) /\ (AllGood(<<c>>) <=> ~ c.bad)
<1>1. Range(<<c>>) = {c}
  BY DEF Range
<1> QED BY <1>1 DEF AllGood

LEMMA ChecksOf ==
  ASSUME NEW S, NEW s \in Seq(S), NEW C, DOMAIN C = DOMAIN s, C = [k \in DOMAIN s |-> C[k]],
         \A k \in DOMAIN s : C[k] \in Checks
  PROVE  C \in Seq(Checks) /\ (AllGood(C) <=> \A k \in DOMAIN s : ~ C[k].bad)
<1>1. Len(s) \in Nat /\ DOMAIN s = 1..Len(s)
  BY LenProperties
<1>2. C \in [1..Len(s) -> Checks]
  BY <1>1
<1>3. C \in Seq(Checks)
  BY <1>1, <1>2, IsASeq
<1> QED BY <1>3 DEF AllGood, Range

-----------------------------------------------------------------------------
(* The sequences of the graph, and one after the other.                    *)
SegmentOf == [path : Files \cup {""}, duration : Int]

FlatUpTo(f, s, n) ==
  f = [i \in 1..n |-> IF i = 1 THEN s[i] ELSE f[i - 1] \o s[i]]

LEMMA FlatExists ==
  ASSUME NEW S, NEW s \in Seq(Seq(S)), Len(s) # 0
  PROVE  \E f : FlatUpTo(f, s, Len(s))
<1>1. Len(s) \in Nat
  BY LenProperties
<1> DEFINE Bad == {n \in 1..Len(s) : ~ \E f : FlatUpTo(f, s, n)}
<1> SUFFICES ASSUME Bad # {} PROVE FALSE
  <2>1. Len(s) \in 1..Len(s)
    BY <1>1
  <2> QED BY <2>1
<1>2. PICK m \in Bad : \A k \in Bad : m <= k
  <2>1. Bad \in SUBSET Nat
    OBVIOUS
  <2> HIDE DEF Bad
  <2> QED BY <2>1, LeastNatural
<1>3. m \in 1..Len(s) /\ ~ \E f : FlatUpTo(f, s, m)
  OBVIOUS
<1>4. m # 1
  <2> SUFFICES ASSUME m = 1 PROVE FALSE
    OBVIOUS
  <2> DEFINE f == [i \in 1..1 |-> s[i]]
  <2>1. FlatUpTo(f, s, 1)
    BY DEF FlatUpTo
  <2> QED BY <1>3, <2>1
<1>5. m - 1 \in 1..Len(s) /\ m - 1 \notin Bad
  <2>1. m - 1 \in 1..Len(s) /\ ~ (m <= m - 1)
    BY <1>1, <1>3, <1>4
  <2> HIDE DEF Bad
  <2> QED BY <1>2, <2>1
<1>6. PICK g : FlatUpTo(g, s, m - 1)
  BY <1>5
<1> DEFINE f == [i \in 1..m |-> IF i = m THEN g[m - 1] \o s[m] ELSE g[i]]
<1>7. ASSUME NEW i \in 1..m PROVE f[i] = IF i = 1 THEN s[i] ELSE f[i - 1] \o s[i]
  <2>1. CASE i = m
    <3>1. i - 1 \in 1..m /\ i - 1 # m /\ i - 1 = m - 1
      BY <1>1, <1>3, <1>4, <2>1
    <3>2. f[i] = g[m - 1] \o s[m] /\ f[i - 1] = g[m - 1]
      BY <2>1, <3>1
    <3> QED BY <1>4, <2>1, <3>2
  <2>2. CASE i # m
    <3>1. i \in 1..(m - 1) /\ f[i] = g[i] /\ (i # 1 => f[i - 1] = g[i - 1])
      BY <1>3, <2>2
    <3> QED BY <1>6, <3>1 DEF FlatUpTo
  <2> QED BY <2>1, <2>2
<1>8. f = [i \in 1..m |-> f[i]]
  OBVIOUS
<1> HIDE DEF f
<1>9. FlatUpTo(f, s, m)
  BY <1>7, <1>8 DEF FlatUpTo
<1> QED BY <1>3, <1>9

(* What a sequence of sequences has when it is one.                        *)
LEMMA FlatHasAll ==
  ASSUME NEW S, NEW s \in Seq(Seq(S))
  PROVE  /\ Render!FlattenSeq(s) \in Seq(S)
         /\ Range(Render!FlattenSeq(s)) = UNION {Range(s[k]) : k \in DOMAIN s}
<1>1. Len(s) \in Nat /\ DOMAIN s = 1..Len(s)
  BY LenProperties
<1>2. CASE Len(s) = 0
  <2>1. s = << >>
    BY <1>2, EmptySeq
  <2>2. Render!FlattenSeq(s) = << >>
    BY <1>2, <2>1 DEF Render!FlattenSeq
  <2>3. << >> \in Seq(S) /\ Range(<< >>) = {}
    BY DEF Range
  <2>4. UNION {Range(s[k]) : k \in DOMAIN s} = {}
    BY <1>1, <1>2
  <2> QED BY <2>2, <2>3, <2>4
<1>3. CASE Len(s) # 0
  <2> DEFINE f == CHOOSE f : FlatUpTo(f, s, Len(s))
  <2>1. FlatUpTo(f, s, Len(s))
    BY <1>3, FlatExists
  <2>2. Render!FlattenSeq(s) = f[Len(s)]
    BY <1>3 DEF Render!FlattenSeq, FlatUpTo
  <2> HIDE DEF f
  <2> DEFINE Good(n) == f[n] \in Seq(S) /\ Range(f[n]) = UNION {Range(s[k]) : k \in 1..n}
             Bad == {n \in 1..Len(s) : ~ Good(n)}
  <2>3. Bad = {}
    <3> SUFFICES ASSUME Bad # {} PROVE FALSE
      OBVIOUS
    <3>1. PICK m \in Bad : \A k \in Bad : m <= k
      <4>1. Bad \in SUBSET Nat
        OBVIOUS
      <4> HIDE DEF Bad
      <4> QED BY <4>1, LeastNatural
    <3>2. m \in 1..Len(s) /\ ~ Good(m) /\ s[m] \in Seq(S)
      BY <1>1, ElementOfSeq
    <3>3. m # 1
      <4> SUFFICES ASSUME m = 1 PROVE FALSE
        OBVIOUS
      <4>1. f[1] = s[1]
        BY <1>1, <2>1, <3>2 DEF FlatUpTo
      <4>2. UNION {Range(s[k]) : k \in 1..1} = Range(s[1])
        OBVIOUS
      <4> QED BY <3>2, <4>1, <4>2
    <3>4. m - 1 \in 1..Len(s) /\ ~ (m <= m - 1)
      BY <1>1, <3>2, <3>3
    <3>5. Good(m - 1)
      <4>1. m - 1 \notin Bad
        <5> HIDE DEF Bad
        <5> QED BY <3>1, <3>4
      <4> QED BY <3>4, <4>1
    <3>6. f[m] = f[m - 1] \o s[m]
      BY <1>1, <2>1, <3>2, <3>3 DEF FlatUpTo
    <3>7. f[m] \in Seq(S) /\ Range(f[m]) = Range(f[m - 1]) \cup Range(s[m])
      BY <3>2, <3>5, <3>6, ConcatProperties, RangeConcatenation
    <3>8. UNION {Range(s[k]) : k \in 1..m}
            = (UNION {Range(s[k]) : k \in 1..(m - 1)}) \cup Range(s[m])
      <4>1. 1..m = 1..(m - 1) \cup {m}
        BY <3>2
      <4> QED BY <4>1
    <3> QED BY <3>2, <3>5, <3>7, <3>8
  <2>4. Good(Len(s))
    <3>1. Len(s) \in 1..Len(s)
      BY <1>1, <1>3
    <3>2. Len(s) \notin Bad
      BY <2>3, Zenon
    <3> HIDE DEF Good
    <3> QED BY <3>1, <3>2
  <2> QED BY <1>1, <2>2, <2>4
<1> QED BY <1>2, <1>3

-----------------------------------------------------------------------------
(* What the assumption says of a graph.                                    *)
OverlayOf == [path : Files \cup {""}, start : Int, duration : Int, opacity : Int]
EffectOf == [type : STRING, start : Int \cup {Unset}, end : Int \cup {Unset}]

LEMMA GraphFacts ==
  ASSUME Render!RenderAssumption, NEW g \in Graphs
  PROVE  /\ g.tracks \in Seq(Seq(SegmentOf))
         /\ g.effects \in Seq(EffectOf)
         /\ g.overlays \in Seq(OverlayOf)
         /\ g.audio # NoAudio =>
              /\ g.audio.inputs \in Seq(Files \cup {""})
              /\ g.audio.rate \in Nat /\ g.audio.channels \in Nat
              /\ g.audio.drift \in Int
         /\ g.output.width \in Nat /\ g.output.height \in Nat
         /\ g.output.fps \in Int /\ g.output.crf \in Int
BY DEF Render!RenderAssumption, Render!PathSet, Render!Time, SegmentOf, OverlayOf, EffectOf

LEMMA SegmentFacts ==
  ASSUME Render!RenderAssumption, NEW g \in Graphs
  PROVE  /\ Render!Segments(g) \in Seq(SegmentOf)
         /\ Range(Render!Segments(g)) = Render!Segment(g)
<1>1. g.tracks \in Seq(Seq(SegmentOf))
  BY GraphFacts
<1>2. \A k \in DOMAIN g.tracks : Range(g.tracks[k]) = Render!ToSet(g.tracks[k])
  BY DEF Range, Render!ToSet
<1> QED BY <1>1, <1>2, FlatHasAll DEF Render!Segments, Render!Segment

(* The checks of the plan, and of the audio graph.                         *)
LEMMA TimelineFlaws ==
  ASSUME Render!RenderAssumption, NEW g \in Graphs
  PROVE  /\ Render!TimelineChecks(g) \in Seq(Checks)
         /\ AllGood(Render!TimelineChecks(g)) <=>
              ~ (\/ g.tracks = << >> \/ 0 \in {g.timebase.num, g.timebase.den}
                 \/ g.output.path = "" \/ << >> \in Render!ToSet(g.tracks)
                 \/ \E o \in Render!ToSet(g.overlays) : o.start < 0 \/ o.duration <= 0)
<1> DEFINE c1 == Render!Check(g.tracks = << >>, "TIMELINE_EMPTY_TRACKS")
           c2 == Render!Check(g.timebase.den = 0, "TIMELINE_INVALID_TIMEBASE")
           c3 == Render!Check(g.timebase.num = 0, "TIMELINE_INVALID_TIMEBASE")
           c4 == Render!Check(g.output.path = "", "TIMELINE_INVALID_PLAN")
           A == <<c1, c2, c3, c4>>
           B == [k \in DOMAIN g.tracks |->
                   Render!Check(g.tracks[k] = << >>, "TIMELINE_EMPTY_TRACKS")]
           C == [k \in DOMAIN g.overlays |->
                   Render!Check(g.overlays[k].duration <= 0 \/ g.overlays[k].start < 0,
                                "OVERLAY_INVALID_BOUNDS")]
<1>1. Render!TimelineChecks(g) = (A \o B) \o C
  BY DEF Render!TimelineChecks
<1>2. /\ c1 \in Checks /\ c2 \in Checks /\ c3 \in Checks /\ c4 \in Checks
      /\ c1.bad = (g.tracks = << >>) /\ c2.bad = (g.timebase.den = 0)
      /\ c3.bad = (g.timebase.num = 0) /\ c4.bad = (g.output.path = "")
  BY DEF Render!Check, Checks, Codes
<1> HIDE DEF c1, c2, c3, c4
<1>3. A \in Seq(Checks) /\ (AllGood(A) <=> ~ c1.bad /\ ~ c2.bad /\ ~ c3.bad /\ ~ c4.bad)
  <2>1. A \in Seq(Checks) /\ Range(A) = {c1, c2, c3, c4}
    <3>1. c1 \in Checks /\ c2 \in Checks /\ c3 \in Checks /\ c4 \in Checks
      BY <1>2
    <3> QED BY ONLY <3>1, FourChecks
  <2> HIDE DEF A
  <2> QED BY <2>1 DEF AllGood
<1>4. B \in Seq(Checks) /\ (AllGood(B) <=> << >> \notin Render!ToSet(g.tracks))
  <2>1. g.tracks \in Seq(Seq(SegmentOf))
    BY GraphFacts
  <2>2. \A k \in DOMAIN g.tracks : B[k] \in Checks /\ B[k].bad = (g.tracks[k] = << >>)
    BY DEF Render!Check, Checks, Codes
  <2>3. DOMAIN B = DOMAIN g.tracks /\ B = [k \in DOMAIN g.tracks |-> B[k]]
    OBVIOUS
  <2> HIDE DEF B
  <2>4. B \in Seq(Checks) /\ (AllGood(B) <=> \A k \in DOMAIN g.tracks : ~ B[k].bad)
    BY <2>1, <2>2, <2>3, ChecksOf
  <2> QED BY <2>2, <2>4 DEF Render!ToSet
<1>5. C \in Seq(Checks) /\ (AllGood(C) <=>
         ~ \E o \in Render!ToSet(g.overlays) : o.start < 0 \/ o.duration <= 0)
  <2>1. g.overlays \in Seq(OverlayOf)
    BY GraphFacts
  <2>2. \A k \in DOMAIN g.overlays :
          C[k] \in Checks
          /\ C[k].bad = (g.overlays[k].duration <= 0 \/ g.overlays[k].start < 0)
    BY DEF Render!Check, Checks, Codes
  <2>3. DOMAIN C = DOMAIN g.overlays /\ C = [k \in DOMAIN g.overlays |-> C[k]]
    OBVIOUS
  <2> HIDE DEF C
  <2>4. C \in Seq(Checks) /\ (AllGood(C) <=> \A k \in DOMAIN g.overlays : ~ C[k].bad)
    BY <2>1, <2>2, <2>3, ChecksOf
  <2> QED BY <2>2, <2>4 DEF Render!ToSet
<1> HIDE DEF A, B, C
<1>6. /\ (A \o B) \o C \in Seq(Checks)
      /\ AllGood((A \o B) \o C) <=> AllGood(A) /\ AllGood(B) /\ AllGood(C)
  BY <1>3, <1>4, <1>5, GoodJoined
<1>7. AllGood(A) <=> ~ (\/ g.tracks = << >> \/ 0 \in {g.timebase.num, g.timebase.den}
                        \/ g.output.path = "")
  BY <1>2, <1>3
<1> QED BY <1>1, <1>4, <1>5, <1>6, <1>7

AudioFlawed(a) ==
  \/ a.id = "" \/ a.rate = 0 \/ a.channels \notin 1..2
  \/ Render!ToSet(a.inputs) = {} \/ "" \in Render!ToSet(a.inputs)

LEMMA OneOfMany ==
  ASSUME NEW n \in Nat, n # 0
  PROVE  1 \in 1..n
OBVIOUS

LEMMA Truth ==
  ASSUME NEW x, NEW S
  PROVE  (x \in S) \in BOOLEAN
OBVIOUS

LEMMA AudioFlaws ==
  ASSUME NEW a, a.inputs \in Seq(Files \cup {""}), a.channels \in Nat
  PROVE  /\ Render!AudioChecks(a) \in Seq(Checks)
         /\ AllGood(Render!AudioChecks(a)) <=> ~ AudioFlawed(a)
<1> DEFINE code == "AUDIO_GRAPH_INVALID_CONFIG"
           c1 == Render!Check(a.id = "", code)
           c2 == Render!Check(a.inputs = << >>, code)
           c3 == Render!Check(a.rate = 0, code)
           c4 == Render!Check(a.channels = 0 \/ a.channels > 2, code)
           c5 == Render!Check("" \in Render!ToSet(a.inputs), code)
           A == <<c1, c2, c3, c4, c5>>
<1>1. Render!AudioChecks(a) = A
  BY DEF Render!AudioChecks
<1>2. /\ c1 \in Checks /\ c2 \in Checks /\ c3 \in Checks /\ c4 \in Checks /\ c5 \in Checks
      /\ c1.bad = (a.id = "") /\ c2.bad = (a.inputs = << >>) /\ c3.bad = (a.rate = 0)
      /\ c4.bad = (a.channels = 0 \/ a.channels > 2)
      /\ c5.bad = ("" \in Render!ToSet(a.inputs))
  <2>1. code \in Codes
    BY DEF Codes
  <2> HIDE DEF code
  <2>2. c1 \in Checks /\ c1.bad = (a.id = "")
    BY <2>1, CheckTyped
  <2>3. c2 \in Checks /\ c2.bad = (a.inputs = << >>)
    BY <2>1, CheckTyped
  <2>4. c3 \in Checks /\ c3.bad = (a.rate = 0)
    BY <2>1, CheckTyped
  <2>5. c4 \in Checks /\ c4.bad = (a.channels = 0 \/ a.channels > 2)
    BY <2>1, CheckTyped
  <2>6. c5 \in Checks /\ c5.bad = ("" \in Render!ToSet(a.inputs))
    <3>1. c5 = [bad |-> ("" \in Render!ToSet(a.inputs)), code |-> code]
      BY DEF Render!Check
    <3> HIDE DEF c5
    <3>2. ("" \in Render!ToSet(a.inputs)) \in BOOLEAN
      BY Truth
    <3> QED BY <2>1, <3>1, <3>2 DEF Checks
  <2> QED BY <2>2, <2>3, <2>4, <2>5, <2>6
<1> HIDE DEF c1, c2, c3, c4, c5
<1>3. A \in Seq(Checks) /\ Range(A) = {c1, c2, c3, c4, c5}
  <2>1. c1 \in Checks /\ c2 \in Checks /\ c3 \in Checks /\ c4 \in Checks /\ c5 \in Checks
    BY <1>2
  <2> QED BY ONLY <2>1, FiveChecks
<1> HIDE DEF A
<1>5. a.inputs = << >> <=> Render!ToSet(a.inputs) = {}
  <2>1. DOMAIN a.inputs = 1..Len(a.inputs) /\ Len(a.inputs) \in Nat
    BY LenProperties
  <2>2. a.inputs = << >> <=> DOMAIN a.inputs = {}
    <3>1. a.inputs = << >> => DOMAIN a.inputs = {}
      OBVIOUS
    <3>2. DOMAIN a.inputs = {} => Len(a.inputs) = 0
      <4>2. Len(a.inputs) # 0 => 1 \in DOMAIN a.inputs
        BY <2>1, OneOfMany
      <4> QED BY <4>2
    <3>3. Len(a.inputs) = 0 => a.inputs = << >>
      BY EmptySeq
    <3> QED BY <3>1, <3>2, <3>3
  <2> QED BY <2>2 DEF Render!ToSet
<1>6. (a.channels = 0 \/ a.channels > 2) <=> a.channels \notin 1..2
  BY OneOrTwo
<1> QED BY <1>1, <1>2, <1>3, <1>5, <1>6 DEF AllGood, AudioFlawed

LEMMA NoneFlawed ==
  ASSUME NEW g
  PROVE  Render!Flawed("none", g) <=>
           \/ "" \in {g.id, g.output.path} \/ 0 \in {g.timebase.num, g.timebase.den}
           \/ g.tracks = << >> \/ << >> \in Render!ToSet(g.tracks)
           \/ \E o \in Render!ToSet(g.overlays) : o.start < 0 \/ o.duration <= 0
           \/ g.audio # NoAudio /\ AudioFlawed(g.audio)
<1>1. g.audio # NoAudio => Render!Inputs(g.audio) = Render!ToSet(g.audio.inputs)
  BY DEF Render!Inputs
<1> QED BY <1>1 DEF Render!Flawed, AudioFlawed

(* The validation fails exactly for what is called a flaw of its.          *)
LEMMA ValidationFinds ==
  ASSUME Render!RenderAssumption, NEW g \in Graphs
  PROVE  Render!ValidateError(g) = "ok" <=> ~ Render!Flawed("none", g)
<1> DEFINE c == Render!Check(g.id = "", "TIMELINE_INVALID_PLAN")
           T == Render!TimelineChecks(g)
           A == IF g.audio = NoAudio THEN << >> ELSE Render!AudioChecks(g.audio)
<1>1. Render!ValidateError(g) = Render!FirstError((<<c>> \o T) \o A)
  BY DEF Render!ValidateError
<1>2. c \in Checks /\ c.bad = (g.id = "")
  BY DEF Render!Check, Checks, Codes
<1>3. T \in Seq(Checks) /\ (AllGood(T) <=>
              ~ (\/ g.tracks = << >> \/ 0 \in {g.timebase.num, g.timebase.den}
                 \/ g.output.path = "" \/ << >> \in Render!ToSet(g.tracks)
                 \/ \E o \in Render!ToSet(g.overlays) : o.start < 0 \/ o.duration <= 0))
  BY TimelineFlaws
<1>4. A \in Seq(Checks) /\ (AllGood(A) <=> (g.audio = NoAudio \/ ~ AudioFlawed(g.audio)))
  <2>1. CASE g.audio = NoAudio
    <3>1. A = << >> /\ << >> \in Seq(Checks) /\ Range(<< >>) = {}
      BY <2>1 DEF Range
    <3> QED BY <2>1, <3>1 DEF AllGood
  <2>2. CASE g.audio # NoAudio
    <3>1. g.audio.inputs \in Seq(Files \cup {""}) /\ g.audio.channels \in Nat
      BY <2>2, GraphFacts
    <3> QED BY <2>2, <3>1, AudioFlaws
  <2> QED BY <2>1, <2>2
<1> HIDE DEF c, T, A
<1>5. <<c>> \in Seq(Checks) /\ (AllGood(<<c>>) <=> ~ c.bad)
  BY <1>2, OneCheck
<1>6. /\ (<<c>> \o T) \o A \in Seq(Checks)
      /\ AllGood((<<c>> \o T) \o A) <=> ~ c.bad /\ AllGood(T) /\ AllGood(A)
  <2>1. <<c>> \o T \in Seq(Checks) /\ (AllGood(<<c>> \o T) <=> ~ c.bad /\ AllGood(T))
    BY <1>3, <1>5, GoodJoined
  <2> QED BY <1>4, <2>1, GoodJoined
<1>7. Render!ValidateError(g) = "ok" <=> ~ c.bad /\ AllGood(T) /\ AllGood(A)
  BY <1>1, <1>6, FirstErrorFinds
<1> QED BY <1>2, <1>3, <1>4, <1>7, NoneFlawed

-----------------------------------------------------------------------------
(* The errors of the stages.                                               *)
LEMMA DecodeFinds ==
  ASSUME Render!RenderAssumption, NEW g \in Graphs
  PROVE  Render!DecodeError(g) = "ok" <=> ~ Render!Flawed("decode", g)
<1> DEFINE s == Render!Segments(g)
           C == [k \in DOMAIN s |-> Render!Check(s[k].duration < 0, "DECODE_FAILED")]
<1>1. s \in Seq(SegmentOf) /\ Range(s) = Render!Segment(g)
  BY SegmentFacts
<1>2. Render!DecodeError(g) = Render!FirstError(C)
  BY DEF Render!DecodeError
<1> HIDE DEF s
<1>3. \A k \in DOMAIN s : C[k] \in Checks /\ C[k].bad = (s[k].duration < 0)
  BY DEF Render!Check, Checks, Codes
<1>4. DOMAIN C = DOMAIN s /\ C = [k \in DOMAIN s |-> C[k]]
  OBVIOUS
<1> HIDE DEF C
<1>5. C \in Seq(Checks) /\ (AllGood(C) <=> \A k \in DOMAIN s : ~ C[k].bad)
  BY <1>1, <1>3, <1>4, ChecksOf
<1>6. AllGood(C) <=> ~ \E x \in Range(s) : x.duration < 0
  BY <1>3, <1>5 DEF Range
<1>7. Render!Flawed("decode", g) <=> \E x \in Range(s) : x.duration < 0
  BY <1>1 DEF Render!Flawed
<1> QED BY <1>2, <1>5, <1>6, <1>7, FirstErrorFinds

LEMMA EffectsFind ==
  ASSUME Render!RenderAssumption, NEW g \in Graphs
  PROVE  Render!EffectsError(g) = "ok" <=> ~ Render!Flawed("effects", g)
<1> DEFINE s == g.effects
           Bad(e) == \/ e.type = ""
                     \/ Unset \notin {e.start, e.end} /\ e.end <= e.start
           C == [k \in DOMAIN s |-> Render!Check(Bad(s[k]), "EFFECTS_FAILED")]
<1>1. s \in Seq(EffectOf)
  BY GraphFacts
<1>2. Render!EffectsError(g) = Render!FirstError(C)
  BY Zenon DEF Render!EffectsError
<1>3. \A k \in DOMAIN s : C[k] \in Checks /\ C[k].bad = Bad(s[k])
  BY DEF Render!Check, Checks, Codes
<1>4. DOMAIN C = DOMAIN s /\ C = [k \in DOMAIN s |-> C[k]]
  OBVIOUS
<1>5. C \in Seq(Checks) /\ (AllGood(C) <=> \A k \in DOMAIN s : ~ C[k].bad)
  <2> HIDE DEF C
  <2> QED BY <1>1, <1>3, <1>4, ChecksOf
<1> HIDE DEF C
<1>6. AllGood(C) <=> ~ \E e \in Render!ToSet(s) : Bad(e)
  <2> HIDE DEF Bad
  <2> QED BY <1>3, <1>5 DEF Render!ToSet
<1>7. \A e \in EffectOf :
        Bad(e) <=> e.type = "" \/ (Unset \notin {e.start, e.end} /\ ~ (e.start < e.end))
  <2> TAKE e \in EffectOf
  <2>1. Unset \notin {e.start, e.end} => e.start \in Int /\ e.end \in Int
    BY DEF EffectOf
  <2>2. CASE Unset \in {e.start, e.end}
    BY <2>2
  <2>3. CASE Unset \notin {e.start, e.end}
    <3>1. e.end <= e.start <=> ~ (e.start < e.end)
      BY <2>1, <2>3
    <3> QED BY <2>3, <3>1
  <2> QED BY <2>2, <2>3
<1>8. Render!ToSet(s) \subseteq EffectOf
  BY <1>1, ElementOfSeq, LenProperties DEF Render!ToSet
<1>9. Render!Flawed("effects", g) <=> \E e \in Render!ToSet(s) : Bad(e)
  BY <1>7, <1>8 DEF Render!Flawed
<1> QED BY <1>2, <1>5, <1>6, <1>9, FirstErrorFinds

LEMMA TenthsRange ==
  ASSUME NEW n \in Int
  PROVE  n \notin 0..10 <=> (n < 0 \/ n > 10)
OBVIOUS

LEMMA OverlaysFind ==
  ASSUME Render!RenderAssumption, NEW g \in Graphs
  PROVE  Render!OverlayError(g) = "ok" <=> ~ Render!Flawed("overlay", g)
<1> DEFINE s == g.overlays
           C == [k \in DOMAIN s |->
                   Render!Check(s[k].opacity \notin 0..10, "OVERLAY_INVALID_BOUNDS")]
<1>1. s \in Seq(OverlayOf)
  BY GraphFacts
<1>2. Render!OverlayError(g) = Render!FirstError(C)
  BY DEF Render!OverlayError
<1>3. \A k \in DOMAIN s : C[k] \in Checks /\ C[k].bad = (s[k].opacity \notin 0..10)
  BY DEF Render!Check, Checks, Codes
<1>4. DOMAIN C = DOMAIN s /\ C = [k \in DOMAIN s |-> C[k]]
  OBVIOUS
<1>5. C \in Seq(Checks) /\ (AllGood(C) <=> \A k \in DOMAIN s : ~ C[k].bad)
  <2> HIDE DEF C
  <2> QED BY <1>1, <1>3, <1>4, ChecksOf
<1> HIDE DEF C
<1>6. AllGood(C) <=> ~ \E o \in Render!ToSet(s) : o.opacity \notin 0..10
  BY <1>3, <1>5 DEF Render!ToSet
<1>7. \A o \in OverlayOf : o.opacity \notin 0..10 <=> (o.opacity < 0 \/ o.opacity > 10)
  <2> TAKE o \in OverlayOf
  <2>1. o.opacity \in Int
    BY DEF OverlayOf
  <2> QED BY <2>1, TenthsRange
<1>8. Render!ToSet(s) \subseteq OverlayOf
  BY <1>1, ElementOfSeq, LenProperties DEF Render!ToSet
<1>9. Render!Flawed("overlay", g) <=> \E o \in Render!ToSet(s) : o.opacity \notin 0..10
  BY <1>7, <1>8 DEF Render!Flawed
<1> QED BY <1>2, <1>5, <1>6, <1>9, FirstErrorFinds

(* The audio stage repeats the checks of the validation.                   *)
LEMMA AudioFinds ==
  ASSUME Render!RenderAssumption, NEW g \in Graphs, g.audio # NoAudio,
         ~ Render!Flawed("none", g)
  PROVE  Render!AudioError(g.audio) = "ok" <=> ~ Render!Flawed("audio", g)
<1> DEFINE A == Render!AudioChecks(g.audio)
           c == Render!Check(g.audio.drift > 10, "AUDIO_DRIFT_EXCEEDED")
<1>1. g.audio.inputs \in Seq(Files \cup {""}) /\ g.audio.channels \in Nat
  BY GraphFacts
<1>2. A \in Seq(Checks) /\ AllGood(A)
  BY <1>1, AudioFlaws, NoneFlawed
<1>3. c \in Checks /\ c.bad = (g.audio.drift > 10)
  BY DEF Render!Check, Checks, Codes
<1>4. Render!AudioError(g.audio) = Render!FirstError(Append(A, c))
  BY DEF Render!AudioError
<1> HIDE DEF A, c
<1>5. Append(A, c) = A \o <<c>>
  BY <1>2, <1>3, AppendIsConcat
<1>6. <<c>> \in Seq(Checks) /\ (AllGood(<<c>>) <=> ~ c.bad)
  BY <1>3, OneCheck
<1>7. A \o <<c>> \in Seq(Checks) /\ (AllGood(A \o <<c>>) <=> ~ c.bad)
  BY <1>2, <1>6, GoodJoined
<1>8. Render!FirstError(A \o <<c>>) = "ok" <=> ~ c.bad
  BY <1>7, FirstErrorFinds
<1>9. Render!Flawed("audio", g) <=> g.audio.drift > 10
  BY DEF Render!Flawed
<1> QED BY <1>3, <1>4, <1>5, <1>8, <1>9

LEMMA NoArea ==
  ASSUME NEW w \in Nat, NEW h \in Nat
  PROVE  w * h = 0 <=> w = 0 \/ h = 0
OBVIOUS

LEMMA EncodeFinds ==
  ASSUME Render!RenderAssumption, NEW g \in Graphs
  PROVE  Render!EncodeError(g) = "ok" <=> ~ Render!Flawed("encode", g)
<1> DEFINE code == "ENCODE_FAILED"
           b1 == g.output.width = 0 \/ g.output.height = 0
           c1 == Render!Check(b1, code)
           c2 == Render!Check(g.output.fps <= 0, code)
           c3 == Render!Check(g.output.crf > 51, code)
           A == <<c1, c2, c3>>
<1>1. Render!EncodeError(g) = Render!FirstError(A)
  BY DEF Render!EncodeError
<1>2. /\ c1 \in Checks /\ c1.bad = b1
      /\ c2 \in Checks /\ c2.bad = (g.output.fps <= 0)
      /\ c3 \in Checks /\ c3.bad = (g.output.crf > 51)
  <2>1. code \in Codes
    BY DEF Codes
  <2> HIDE DEF code
  <2>2. c1 \in Checks /\ c1.bad = b1
    BY <2>1, CheckTyped
  <2>3. c2 \in Checks /\ c2.bad = (g.output.fps <= 0)
    BY <2>1 DEF Render!Check, Checks
  <2>4. c3 \in Checks /\ c3.bad = (g.output.crf > 51)
    BY <2>1 DEF Render!Check, Checks
  <2> QED BY <2>2, <2>3, <2>4
<1> HIDE DEF c1, c2, c3
<1>3. A \in Seq(Checks) /\ Range(A) = {c1, c2, c3}
  <2>1. c1 \in Checks /\ c2 \in Checks /\ c3 \in Checks
    BY <1>2
  <2> QED BY ONLY <2>1, ThreeChecks
<1> HIDE DEF A
<1>4. g.output.width * g.output.height = 0 <=> b1
  BY GraphFacts, NoArea
<1>5. Render!Flawed("encode", g) <=> b1 \/ g.output.fps <= 0 \/ g.output.crf > 51
  <2> HIDE DEF b1
  <2> QED BY <1>4 DEF Render!Flawed
<1>6. AllGood(A) <=> ~ c1.bad /\ ~ c2.bad /\ ~ c3.bad
  BY <1>3 DEF AllGood
<1> HIDE DEF b1
<1> QED BY <1>1, <1>2, <1>3, <1>5, <1>6, FirstErrorFinds

(* A stage fails exactly if its flaw is there.                             *)
LEMMA StagesFind ==
  ASSUME Render!RenderAssumption, NEW g \in Graphs, ~ Render!Flawed("none", g),
         NEW s \in {"decode", "effects", "overlay", "audio", "encode"}
  PROVE  Render!StageError(s, g) = "ok" <=> ~ Render!Flawed(s, g)
<1>1. CASE s = "decode"
  BY <1>1, DecodeFinds DEF Render!StageError
<1>2. CASE s = "effects"
  BY <1>2, EffectsFind DEF Render!StageError
<1>3. CASE s = "overlay"
  BY <1>3, OverlaysFind DEF Render!StageError
<1>4. CASE s = "encode"
  BY <1>4, EncodeFinds DEF Render!StageError
<1>5. CASE s = "audio" /\ g.audio # NoAudio
  BY <1>5, AudioFinds DEF Render!StageError
<1>6. CASE s = "audio" /\ g.audio = NoAudio
  BY <1>6 DEF Render!StageError, Render!Flawed
<1> QED BY <1>1, <1>2, <1>3, <1>4, <1>5, <1>6

-----------------------------------------------------------------------------
(* The sources name the paths of the graph.                                *)
PathSet == Files \cup {""}
Missing == {"IO_FILE_NOT_FOUND", "OVERLAY_MISSING_ASSET"}
Firsts(q) == {p[1] : p \in Range(q)}

LEMMA SourcesName ==
  ASSUME Render!RenderAssumption, NEW g \in Graphs
  PROVE  /\ Render!Sources(g) \in Seq(PathSet \X Missing)
         /\ Firsts(Render!Sources(g)) = Render!Paths(g)
<1> DEFINE s == Render!Segments(g)
           A == [k \in DOMAIN s |-> <<s[k].path, "IO_FILE_NOT_FOUND">>]
           B == [k \in DOMAIN g.overlays |-> <<g.overlays[k].path, "OVERLAY_MISSING_ASSET">>]
           C == IF g.audio = NoAudio THEN << >>
                ELSE [k \in DOMAIN g.audio.inputs |->
                        <<g.audio.inputs[k], "IO_FILE_NOT_FOUND">>]
           T == PathSet \X Missing
<1>1. Render!Sources(g) = (A \o B) \o C
  BY DEF Render!Sources
<1>2. s \in Seq(SegmentOf) /\ Range(s) = Render!Segment(g) /\ g.overlays \in Seq(OverlayOf)
  BY SegmentFacts, GraphFacts
<1> HIDE DEF s
<1>3. A \in Seq(T) /\ Firsts(A) = {x.path : x \in Render!Segment(g)}
  <2>1. Len(s) \in Nat /\ DOMAIN s = 1..Len(s) /\ \A k \in DOMAIN s : s[k] \in SegmentOf
    BY <1>2, LenProperties, ElementOfSeq
  <2>2. \A k \in DOMAIN s : A[k] \in T /\ A[k][1] = s[k].path
    BY <2>1 DEF SegmentOf, PathSet, Missing
  <2>3. A \in [1..Len(s) -> T]
    BY <2>1, <2>2
  <2>4. DOMAIN A = DOMAIN s
    OBVIOUS
  <2> HIDE DEF A
  <2>5. A \in Seq(T)
    BY <2>1, <2>3, IsASeq
  <2>6. Firsts(A) = {x.path : x \in Range(s)}
    BY <2>2, <2>4 DEF Firsts, Range
  <2> QED BY <1>2, <2>5, <2>6
<1>4. B \in Seq(T) /\ Firsts(B) = {o.path : o \in Render!ToSet(g.overlays)}
  <2> DEFINE o == g.overlays
  <2>1. Len(o) \in Nat /\ DOMAIN o = 1..Len(o) /\ \A k \in DOMAIN o : o[k] \in OverlayOf
    BY <1>2, LenProperties, ElementOfSeq
  <2>2. \A k \in DOMAIN o : B[k] \in T /\ B[k][1] = o[k].path
    BY <2>1 DEF OverlayOf, PathSet, Missing
  <2>3. B \in [1..Len(o) -> T]
    BY <2>1, <2>2
  <2>4. DOMAIN B = DOMAIN o
    OBVIOUS
  <2> HIDE DEF B
  <2>5. B \in Seq(T)
    BY <2>1, <2>3, IsASeq
  <2>6. Firsts(B) = {x.path : x \in Render!ToSet(o)}
    <3> HIDE DEF o
    <3> QED BY <2>2, <2>4 DEF Firsts, Range, Render!ToSet
  <2> QED BY <2>5, <2>6
<1>5. C \in Seq(T) /\ Firsts(C) = Render!Inputs(g.audio)
  <2>1. CASE g.audio = NoAudio
    <3>1. C = << >> /\ << >> \in Seq(T) /\ Range(<< >>) = {}
      BY <2>1 DEF Range
    <3> HIDE DEF C, T
    <3> QED BY <2>1, <3>1 DEF Firsts, Render!Inputs
  <2>2. CASE g.audio # NoAudio
    <3> DEFINE q == g.audio.inputs
    <3>1. q \in Seq(PathSet)
      BY <2>2, GraphFacts DEF PathSet
    <3>2. Len(q) \in Nat /\ DOMAIN q = 1..Len(q) /\ \A k \in DOMAIN q : q[k] \in PathSet
      BY <3>1, LenProperties, ElementOfSeq
    <3>3. C = [k \in DOMAIN q |-> <<q[k], "IO_FILE_NOT_FOUND">>]
      BY <2>2
    <3> HIDE DEF C, q
    <3>4. \A k \in DOMAIN q : C[k] \in T /\ C[k][1] = q[k]
      BY <3>2, <3>3 DEF Missing
    <3>5. C \in [1..Len(q) -> T] /\ DOMAIN C = DOMAIN q
      BY <3>2, <3>3, <3>4
    <3>6. C \in Seq(T)
      BY <3>2, <3>5, IsASeq
    <3>7. Firsts(C) = Render!ToSet(q)
      BY <3>4, <3>5 DEF Firsts, Range, Render!ToSet
    <3> QED BY <2>2, <3>6, <3>7 DEF Render!Inputs, q
  <2> QED BY <2>1, <2>2
<1> HIDE DEF A, B, C, T
<1>6. A \o B \in Seq(T) /\ Range(A \o B) = Range(A) \cup Range(B)
  BY <1>3, <1>4, ConcatProperties, RangeConcatenation
<1>7. (A \o B) \o C \in Seq(T) /\ Range((A \o B) \o C) = (Range(A) \cup Range(B)) \cup Range(C)
  <2> DEFINE AB == A \o B
  <2>1. AB \in Seq(T) /\ Range(AB) = Range(A) \cup Range(B)
    BY <1>6
  <2> HIDE DEF AB
  <2>2. AB \o C \in Seq(T) /\ Range(AB \o C) = Range(AB) \cup Range(C)
    BY <1>5, <2>1, ConcatProperties, RangeConcatenation
  <2> QED BY <2>1, <2>2 DEF AB
<1>8. Firsts((A \o B) \o C) = (Firsts(A) \cup Firsts(B)) \cup Firsts(C)
  BY <1>7 DEF Firsts
<1> QED BY <1>1, <1>3, <1>4, <1>5, <1>7, <1>8 DEF T, Render!Paths

-----------------------------------------------------------------------------
(* The stages in order.                                                    *)
Components == {"probe", "decode", "effects", "overlay", "audio", "encode"}
(* The stages before one, of which none has a flaw when it is reached;     *)
(* validation, called none, is the first.                                  *)
Earlier(s) ==
  CASE s = "none" -> {}
    [] s = "probe" -> {"none"}
    [] s = "decode" -> {"none", "probe"}
    [] s = "effects" -> {"none", "probe", "decode"}
    [] s = "overlay" -> {"none", "probe", "decode", "effects"}
    [] s = "audio" -> {"none", "probe", "decode", "effects", "overlay"}
    [] s = "encode" -> {"none", "probe", "decode", "effects", "overlay", "audio"}
Order == <<"none">> \o Render!Stages

LEMMA StagesAre ==
  /\ Render!Components = Components
  /\ DOMAIN Render!Stages = 1..6
  /\ Render!Stages[1] = "probe" /\ Render!Stages[2] = "decode" /\ Render!Stages[3] = "effects"
  /\ Render!Stages[4] = "overlay" /\ Render!Stages[5] = "audio" /\ Render!Stages[6] = "encode"
<1>0. DOMAIN Render!Stages = 1..6
  BY DEF Render!Stages
<1>1. /\ Render!Stages[1] = "probe" /\ Render!Stages[2] = "decode"
      /\ Render!Stages[3] = "effects" /\ Render!Stages[4] = "overlay"
      /\ Render!Stages[5] = "audio" /\ Render!Stages[6] = "encode"
  BY DEF Render!Stages
<1>2. 1..6 = {1, 2, 3, 4, 5, 6}
  OBVIOUS
<1>3. Render!Components = {Render!Stages[k] : k \in {1, 2, 3, 4, 5, 6}}
  BY <1>0, <1>2 DEF Render!Components, Render!ToSet
<1>4. Render!Components = Components
  BY <1>1, <1>3 DEF Components
<1> QED BY <1>0, <1>1, <1>4

LEMMA OrderIs ==
  /\ DOMAIN Order = 1..7
  /\ Order[1] = "none" /\ Order[2] = "probe" /\ Order[3] = "decode" /\ Order[4] = "effects"
  /\ Order[5] = "overlay" /\ Order[6] = "audio" /\ Order[7] = "encode"
BY DEF Order, Render!Stages

LEMMA EarlierInOrder ==
  ASSUME NEW a \in 1..7, NEW k \in 1..(a - 1)
  PROVE  Order[k] \in Earlier(Order[a])
<1>1. a \in {1, 2, 3, 4, 5, 6, 7}
  OBVIOUS
<1>2. k \in {1, 2, 3, 4, 5, 6} /\ k < a
  OBVIOUS
<1>3. CASE a = 1
  BY <1>2, <1>3
<1>4. CASE a = 2
  <2>1. k = 1
    BY <1>2, <1>4
  <2> QED BY <1>4, <2>1, OrderIs DEF Earlier
<1>5. CASE a = 3
  <2>1. k \in {1, 2}
    BY <1>2, <1>5
  <2> QED BY <1>5, <2>1, OrderIs DEF Earlier
<1>6. CASE a = 4
  <2>1. k \in {1, 2, 3}
    BY <1>2, <1>6
  <2> QED BY <1>6, <2>1, OrderIs DEF Earlier
<1>7. CASE a = 5
  <2>1. k \in {1, 2, 3, 4}
    BY <1>2, <1>7
  <2> QED BY <1>7, <2>1, OrderIs DEF Earlier
<1>8. CASE a = 6
  <2>1. k \in {1, 2, 3, 4, 5}
    BY <1>2, <1>8
  <2> QED BY <1>8, <2>1, OrderIs DEF Earlier
<1>9. CASE a = 7
  <2>1. k \in {1, 2, 3, 4, 5, 6}
    BY <1>2, <1>9
  <2> QED BY <1>9, <2>1, OrderIs DEF Earlier
<1> QED BY <1>1, <1>3, <1>4, <1>5, <1>6, <1>7, <1>8, <1>9

LEMMA OrderOfStages ==
  ASSUME NEW s \in Components \cup {"none"}
  PROVE  LET rank == CHOOSE k \in DOMAIN Order : Order[k] = s
         IN \A k \in 1..(rank - 1) : Order[k] \in Earlier(s)
<1> DEFINE rank == CHOOSE k \in DOMAIN Order : Order[k] = s
<1>1. \E k \in DOMAIN Order : Order[k] = s
  <2>1. 1 \in 1..7 /\ 2 \in 1..7 /\ 3 \in 1..7 /\ 4 \in 1..7 /\ 5 \in 1..7 /\ 6 \in 1..7 /\ 7 \in 1..7
    OBVIOUS
  <2> QED BY <2>1, OrderIs DEF Components
<1>2. rank \in DOMAIN Order /\ Order[rank] = s
  BY <1>1
<1> HIDE DEF rank
<1>3. rank \in 1..7
  BY <1>2, OrderIs
<1>4. \A k \in 1..(rank - 1) : Order[k] \in Earlier(s)
  BY <1>2, <1>3, EarlierInOrder
<1> QED BY <1>4 DEF rank

(* The stage after another one: only the audio stage may be left out.      *)
LEMMA NextStage ==
  ASSUME NEW s \in Components \ {"encode"}, NEW g
  PROVE  LET n == Render!After(s, g)
         IN /\ n \in Components \ {"probe"} /\ n # s /\ s \notin Earlier(s)
            /\ \A q \in Earlier(n) :
                 q \in Earlier(s) \/ q = s \/ (q = "audio" /\ g.audio = NoAudio)
            /\ \A q \in Earlier(s) \cup {s} : q \in Earlier(n)
            /\ n \notin Earlier(s)
<1> DEFINE k(t) == CHOOSE j \in DOMAIN Render!Stages : Render!Stages[j] = t
           n == Render!After(s, g)
<1>1. k("probe") = 1 /\ k("decode") = 2 /\ k("effects") = 3 /\ k("overlay") = 4 /\ k("audio") = 5
  <2>1. DOMAIN Render!Stages = {1, 2, 3, 4, 5, 6}
    BY StagesAre
  <2>2. k("probe") = 1
    BY <2>1, StagesAre
  <2>3. k("decode") = 2
    BY <2>1, StagesAre
  <2>4. k("effects") = 3
    BY <2>1, StagesAre
  <2>5. k("overlay") = 4
    BY <2>1, StagesAre
  <2>6. k("audio") = 5
    BY <2>1, StagesAre
  <2> QED BY <2>2, <2>3, <2>4, <2>5, <2>6
<1>2. n = IF Render!Stages[k(s) + 1] = "audio" /\ g.audio = NoAudio THEN "encode"
          ELSE Render!Stages[k(s) + 1]
  BY DEF Render!After
<1> HIDE DEF k, n
<1>3. CASE s = "probe"
  <2>1. n = "decode"
    BY <1>1, <1>2, <1>3, StagesAre
  <2> QED BY <1>3, <2>1 DEF Earlier, Components, n
<1>4. CASE s = "decode"
  <2>1. n = "effects"
    BY <1>1, <1>2, <1>4, StagesAre
  <2> QED BY <1>4, <2>1 DEF Earlier, Components, n
<1>5. CASE s = "effects"
  <2>1. n = "overlay"
    BY <1>1, <1>2, <1>5, StagesAre
  <2> QED BY <1>5, <2>1 DEF Earlier, Components, n
<1>6. CASE s = "overlay" /\ g.audio = NoAudio
  <2>1. n = "encode"
    BY <1>1, <1>2, <1>6, StagesAre
  <2> QED BY <1>6, <2>1 DEF Earlier, Components, n
<1>7. CASE s = "overlay" /\ g.audio # NoAudio
  <2>1. n = "audio"
    BY <1>1, <1>2, <1>7, StagesAre
  <2> QED BY <1>7, <2>1 DEF Earlier, Components, n
<1>8. CASE s = "audio"
  <2>1. n = "encode"
    BY <1>1, <1>2, <1>8, StagesAre
  <2> QED BY <1>8, <2>1 DEF Earlier, Components, n
<1> QED BY <1>3, <1>4, <1>5, <1>6, <1>7, <1>8 DEF Components

-----------------------------------------------------------------------------
(* The counters.                                                           *)
MetricsOf(L) ==
  [Components -> [attempts : Nat, successes : Nat, fallbacks : Nat, last_error : L]]

LEMMA NewTyped ==
  /\ Render!NewMetrics \in MetricsOf({"none"})
  /\ \A d \in Components : /\ Render!NewMetrics[d].attempts = 0
                           /\ Render!NewMetrics[d].successes = 0
                           /\ Render!NewMetrics[d].fallbacks = 0
BY StagesAre DEF Render!NewMetrics, MetricsOf

LEMMA AttemptCounts ==
  ASSUME NEW L, NEW m \in MetricsOf(L), NEW c \in Components
  PROVE  LET n == Render!RecordAttempt(m, c)
         IN /\ n \in MetricsOf(L)
            /\ \A d \in Components :
                 /\ n[d].attempts = m[d].attempts + (IF d = c THEN 1 ELSE 0)
                 /\ n[d].successes = m[d].successes /\ n[d].fallbacks = m[d].fallbacks
BY DEF Render!RecordAttempt, MetricsOf

LEMMA SuccessCounts ==
  ASSUME NEW L, NEW m \in MetricsOf(L), NEW c \in Components
  PROVE  LET n == Render!RecordSuccess(m, c)
         IN /\ n \in MetricsOf(L)
            /\ \A d \in Components :
                 /\ n[d].successes = m[d].successes + (IF d = c THEN 1 ELSE 0)
                 /\ n[d].attempts = m[d].attempts /\ n[d].fallbacks = m[d].fallbacks
BY DEF Render!RecordSuccess, MetricsOf

LEMMA FallbackCounts ==
  ASSUME NEW L, NEW m \in MetricsOf(L), NEW c \in Components, NEW code
  PROVE  LET n == Render!RecordFallback(m, c, code)
         IN /\ n \in MetricsOf(L \cup {code})
            /\ \A d \in Components :
                 /\ n[d].fallbacks = m[d].fallbacks + (IF d = c THEN 1 ELSE 0)
                 /\ n[d].attempts = m[d].attempts /\ n[d].successes = m[d].successes
<1> DEFINE n == Render!RecordFallback(m, c, code)
           M == L \cup {code}
<1>1. m \in MetricsOf(M)
  BY DEF MetricsOf
<1>2. n = [m EXCEPT ![c].fallbacks = @ + 1, ![c].last_error = code]
  BY DEF Render!RecordFallback
<1>3. code \in M
  OBVIOUS
<1> HIDE DEF n, M
<1>4. n \in MetricsOf(M)
  <2> DEFINE e == [m EXCEPT ![c].fallbacks = @ + 1]
  <2>1. e \in MetricsOf(M)
    BY <1>1 DEF MetricsOf
  <2>2. n = [e EXCEPT ![c].last_error = code]
    BY <1>1, <1>2 DEF MetricsOf
  <2> HIDE DEF e
  <2> QED BY <1>3, <2>1, <2>2 DEF MetricsOf
<1>5. \A d \in Components :
        /\ n[d].fallbacks = m[d].fallbacks + (IF d = c THEN 1 ELSE 0)
        /\ n[d].attempts = m[d].attempts /\ n[d].successes = m[d].successes
  BY <1>1, <1>2 DEF MetricsOf
<1> QED BY <1>4, <1>5 DEF n, M

-----------------------------------------------------------------------------
(* The times.                                                              *)
SumOfStages(f) ==
  f["probe"] + f["decode"] + f["effects"] + f["overlay"] + f["audio"] + f["encode"]

LEMMA SumGrows ==
  ASSUME NEW f \in [Components -> Nat], NEW s \in Components, f[s] = 0, NEW n \in Nat
  PROVE  SumOfStages([f EXCEPT ![s] = n]) = SumOfStages(f) + n
<1>1. /\ f["probe"] \in Nat /\ f["decode"] \in Nat /\ f["effects"] \in Nat
      /\ f["overlay"] \in Nat /\ f["audio"] \in Nat /\ f["encode"] \in Nat
  BY DEF Components
<1>2. s \in {"probe", "decode", "effects", "overlay", "audio", "encode"}
  BY DEF Components
<1> QED BY <1>1, <1>2 DEF SumOfStages, Components

LEMMA DivBounds ==
  ASSUME NEW T \in Nat \ {0}, NEW a \in Nat
  PROVE  /\ a \div T \in Nat /\ a \div T <= a
         /\ T * (a \div T) <= a
         /\ \A q \in Nat : T * q <= a => q <= a \div T
OBVIOUS

(* Rounded down, two stretches of time are no more than the whole.         *)
LEMMA RoundedDown ==
  ASSUME NEW T \in Nat \ {0}, NEW a \in Nat, NEW b \in Nat
  PROVE  (a \div T) + (b \div T) <= (a + b) \div T
<1> DEFINE x == a \div T
           y == b \div T
<1>1. x \in Nat /\ y \in Nat /\ T * x <= a /\ T * y <= b
  BY DivBounds
<1>2. T * (x + y) <= a + b
  <2> HIDE DEF x, y
  <2> QED BY <1>1
<1> HIDE DEF x, y
<1>3. x + y \in Nat /\ a + b \in Nat
  BY <1>1
<1>4. x + y <= (a + b) \div T
  BY <1>2, <1>3, DivBounds
<1> QED BY <1>4 DEF x, y

-----------------------------------------------------------------------------
(* While the probe runs, each path of the graph was seen during the call or*)
(* is still to be looked at.                                               *)
Probing ==
  render_pc = "probe" =>
    /\ present \subseteq sightings /\ PathSet \ present \subseteq absences
    /\ Firsts(todo) \subseteq Render!Paths(graph)
    /\ Render!Paths(graph) \subseteq sightings \cup Firsts(todo)

(* Every attempt so far ended well, except the validation's, which nobody  *)
(* closes, and the one of the stage that runs.                             *)
AttemptsCounted ==
  \A d \in Components :
    /\ metrics[d].fallbacks = 0
    /\ metrics[d].attempts = metrics[d].successes + (IF d = render_pc THEN 1 ELSE 0)
                             + (IF d = "decode" THEN 1 ELSE 0)

(* The stages that have not run have no time, and those that have took, in *)
(* milliseconds rounded down, no more than the time until the current one  *)
(* started, rounded down once.                                             *)
Timed ==
  /\ \A d \in Components \ Earlier(render_pc) : stageMs[d] = 0
  /\ SumOfStages(stageMs) <= (began.stage - began.total) \div TicksPerMs
  /\ began.total <= began.stage

(* A stage runs only after the earlier ones found no flaw.                 *)
Running ==
  render_pc \in Components =>
    /\ entered = "render" /\ AttemptsCounted /\ Timed
    /\ \A q \in Earlier(render_pc) : ~ Render!Flawed(q, graph)

Unstarted ==
  render_pc = "idle" => entered = "none" /\ \A d \in Components : stageMs[d] = 0

Typed ==
  /\ Render!TypeOK
  /\ \E L : metrics \in MetricsOf(L)
  /\ DOMAIN began = {"total", "stage"}

RenderInv ==
  /\ Typed /\ Unstarted /\ Probing /\ Running
  /\ Render!OutcomeIsFirstFlaw /\ Render!MetricsAddUp

LEMMA TypedFacts ==
  ASSUME Render!RenderAssumption, RenderInv
  PROVE  /\ graph \in Graphs /\ clock \in Nat /\ clock <= MaxClock
         /\ MaxClock \in Nat /\ TicksPerMs \in Nat \ {0}
         /\ began.stage \in Nat /\ began.stage <= clock
         /\ began.total \in Nat /\ began.total <= clock
         /\ stageMs \in [Components -> Nat]
         /\ stageMs \in [Components -> 0..MaxClock]
         /\ todo \in Seq(PathSet \X Missing)
         /\ present \subseteq Files /\ sightings \subseteq Files
         /\ absences \subseteq PathSet
         /\ render_pc \in Components \cup {"idle", "returned"}
         /\ DOMAIN began = {"total", "stage"}
<1>1. Render!TypeOK /\ Render!Components = Components /\ DOMAIN began = {"total", "stage"}
  BY StagesAre DEF RenderInv, Typed
<1>2. MaxClock \in Nat /\ TicksPerMs \in Nat \ {0}
  BY DEF Render!RenderAssumption
<1>3. clock \in 0..MaxClock /\ began.stage \in 0..clock /\ began.total \in 0..clock
  BY <1>1 DEF Render!TypeOK
<1>4. clock \in Nat /\ clock <= MaxClock
  BY <1>2, <1>3
<1>5. began.stage \in Nat /\ began.stage <= clock /\ began.total \in Nat /\ began.total <= clock
  BY <1>3, <1>4
<1>6. stageMs \in [Components -> 0..MaxClock]
  BY <1>1 DEF Render!TypeOK
<1>7. stageMs \in [Components -> Nat]
  <2>1. 0..MaxClock \subseteq Nat
    BY <1>2
  <2> QED BY <1>6, <2>1
<1>8. /\ graph \in Graphs /\ todo \in Seq(PathSet \X Missing)
      /\ present \subseteq Files /\ sightings \subseteq Files /\ absences \subseteq PathSet
      /\ render_pc \in Components \cup {"idle", "returned"}
  BY <1>1 DEF Render!TypeOK, PathSet, Missing
<1> QED BY <1>1, <1>2, <1>4, <1>5, <1>6, <1>7, <1>8

(* The time of a stage, and of the stages so far.                          *)
LEMMA StageTime ==
  ASSUME Render!RenderAssumption, RenderInv, render_pc \in Components
  PROVE  LET e == Render!Elapsed(began.stage)
             f == [stageMs EXCEPT ![render_pc] = e]
         IN /\ e \in 0..MaxClock /\ f \in [Components -> 0..MaxClock]
            /\ SumOfStages(f) <= (clock - began.total) \div TicksPerMs
            /\ SumOfStages(f) <= Render!Elapsed(began.total)
<1> DEFINE e == Render!Elapsed(began.stage)
           f == [stageMs EXCEPT ![render_pc] = e]
           a == began.stage - began.total
           b == clock - began.stage
<1>1. /\ clock \in Nat /\ clock <= MaxClock /\ MaxClock \in Nat /\ TicksPerMs \in Nat \ {0}
      /\ began.stage \in Nat /\ began.stage <= clock
      /\ began.total \in Nat /\ began.total <= began.stage
      /\ stageMs \in [Components -> Nat] /\ stageMs \in [Components -> 0..MaxClock]
      /\ SumOfStages(stageMs) <= a \div TicksPerMs
      /\ \A d \in Components \ Earlier(render_pc) : stageMs[d] = 0
  BY TypedFacts DEF RenderInv, Running, Timed
<1>2. a \in Nat /\ b \in Nat /\ a + b = clock - began.total /\ b <= MaxClock
  BY <1>1
<1>3. e = b \div TicksPerMs
  BY DEF Render!Elapsed
<1> HIDE DEF a, b, e
<1>4. e \in Nat /\ e <= b
  BY <1>1, <1>2, <1>3, DivBounds
<1>5. e \in 0..MaxClock
  BY <1>1, <1>2, <1>4
<1>6. f \in [Components -> 0..MaxClock]
  BY <1>1, <1>5
<1>7. stageMs[render_pc] = 0
  <2>1. render_pc \notin Earlier(render_pc)
    BY DEF Earlier, Components
  <2> QED BY <1>1, <2>1
<1>8. SumOfStages(f) = SumOfStages(stageMs) + e
  BY <1>1, <1>4, <1>7, SumGrows
<1>9. (a \div TicksPerMs) + (b \div TicksPerMs) <= (a + b) \div TicksPerMs
  BY <1>1, <1>2, RoundedDown
<1>10. SumOfStages(stageMs) \in Int /\ a \div TicksPerMs \in Nat /\ (a + b) \div TicksPerMs \in Nat
  <2>1. SumOfStages(stageMs) \in Int
    <3>1. /\ stageMs["probe"] \in Nat /\ stageMs["decode"] \in Nat
          /\ stageMs["effects"] \in Nat /\ stageMs["overlay"] \in Nat
          /\ stageMs["audio"] \in Nat /\ stageMs["encode"] \in Nat
      BY <1>1 DEF Components
    <3> QED BY <3>1 DEF SumOfStages
  <2>2. a + b \in Nat
    BY <1>2
  <2> QED BY <1>1, <1>2, <2>1, <2>2, DivBounds
<1>11. SumOfStages(f) <= (a + b) \div TicksPerMs
  <2> HIDE DEF f
  <2> QED BY <1>1, <1>3, <1>4, <1>8, <1>9, <1>10
<1>12. Render!Elapsed(began.total) = (clock - began.total) \div TicksPerMs
  BY DEF Render!Elapsed
<1> HIDE DEF f
<1> QED BY <1>2, <1>5, <1>6, <1>11, <1>12 DEF e, f

(* Only the flaw of the probe looks at a variable.                         *)
LEMMA FlawsStay ==
  ASSUME NEW q \in Components \cup {"none"}, graph' = graph,
         q # "probe" \/ sightings' = sightings
  PROVE  Render!Flawed(q, graph)' <=> Render!Flawed(q, graph)
<1>1. CASE q = "probe"
  BY <1>1 DEF Render!Flawed, Render!Paths
<1>2. CASE q = "none"
  BY <1>2, NoneFlawed DEF Render!Flawed
<1>3. CASE q \in {"decode", "effects", "overlay", "audio", "encode"}
  BY <1>3 DEF Render!Flawed
<1> QED BY <1>1, <1>2, <1>3 DEF Components

LEMMA OrderRange ==
  ASSUME NEW k \in DOMAIN Order
  PROVE  Order[k] \in Components \cup {"none"}
<1>1. k \in {1, 2, 3, 4, 5, 6, 7}
  <2>1. 1..7 = {1, 2, 3, 4, 5, 6, 7}
    OBVIOUS
  <2> QED BY <2>1, OrderIs
<1> QED BY <1>1, OrderIs DEF Components

(* What a result has to be like, after a step.                             *)
LEMMA OutcomeOfFailure ==
  ASSUME NEW s \in Components \cup {"none"}, render_result'.stage = s,
         render_result'.success = FALSE,
         s = "probe" => Render!Paths(graph)' \cap absences' # {},
         s # "probe" => Render!Flawed(s, graph)',
         \A q \in Earlier(s) : ~ Render!Flawed(q, graph)'
  PROVE  Render!OutcomeIsFirstFlaw'
<1> DEFINE rank == CHOOSE k \in DOMAIN Order : Order[k] = s
<1>1. \A k \in 1..(rank - 1) : Order[k] \in Earlier(s)
  BY OrderOfStages
<1>2. \A k \in 1..(rank - 1) : ~ Render!Flawed(Order[k], graph)'
  BY <1>1
<1> QED BY <1>2 DEF Render!OutcomeIsFirstFlaw, Order

LEMMA OutcomeOfSuccess ==
  ASSUME render_result'.success = TRUE, render_result'.artifact = graph'.output.path,
         \A q \in Components \cup {"none"} : ~ Render!Flawed(q, graph)'
  PROVE  Render!OutcomeIsFirstFlaw'
<1>1. \A k \in DOMAIN Order : ~ Render!Flawed(Order[k], graph)'
  BY OrderRange
<1> QED BY <1>1 DEF Render!OutcomeIsFirstFlaw, Order

LEMMA FailStep ==
  ASSUME Render!RenderAssumption, RenderInv, NEW s \in Components, render_pc = s,
         NEW code, NEW reasons, Render!Fail(s, code, reasons),
         s = "probe" => Render!Paths(graph) \cap absences # {},
         s # "probe" => Render!Flawed(s, graph),
         UNCHANGED <<graph, entered, todo, present, clock, sightings, absences>>
  PROVE  RenderInv'
<1>1. /\ metrics' = Render!RecordFallback(metrics, s, code)
      /\ stageMs' = [stageMs EXCEPT ![s] = Render!Elapsed(began.stage)]
      /\ render_pc' = "returned" /\ render_result' = Render!Failure(code, s, reasons)
      /\ began' = began
      /\ UNCHANGED <<graph, entered, todo, present, clock, sightings, absences>>
  BY DEF Render!Fail, Render!Return
<1>2. /\ render_result'.success = FALSE /\ render_result'.stage = s
      /\ DOMAIN render_result' = DOMAIN Render!NoResult
  BY <1>1 DEF Render!Failure, Render!NoResult
<1>3. stageMs' \in [Components -> 0..MaxClock]
  BY <1>1, StageTime
<1>4. PICK L : metrics \in MetricsOf(L)
  BY DEF RenderInv, Typed
<1>5. /\ metrics' \in MetricsOf(L \cup {code})
      /\ \A d \in Components :
           /\ metrics'[d].fallbacks = metrics[d].fallbacks + (IF d = s THEN 1 ELSE 0)
           /\ metrics'[d].attempts = metrics[d].attempts
           /\ metrics'[d].successes = metrics[d].successes
  BY <1>1, <1>4, FallbackCounts
<1>6. AttemptsCounted /\ entered = "render" /\ \A q \in Earlier(s) : ~ Render!Flawed(q, graph)
  BY DEF RenderInv, Running
<1>7. Typed'
  <2>1. DOMAIN metrics' = Components
    BY <1>5 DEF MetricsOf
  <2>2. Render!TypeOK /\ DOMAIN began = {"total", "stage"}
    BY DEF RenderInv, Typed
  <2>3. Render!TypeOK'
    BY <1>1, <1>2, <1>3, <2>1, <2>2, StagesAre DEF Render!TypeOK
  <2> QED BY <1>1, <1>5, <2>2, <2>3 DEF Typed
<1>8. Unstarted' /\ Probing' /\ Running'
  BY <1>1 DEF Unstarted, Probing, Running, Components
<1>9. Render!OutcomeIsFirstFlaw'
  <2>1. \A q \in Earlier(s) : q \in Components \cup {"none"}
    BY DEF Earlier, Components
  <2>2. \A q \in Earlier(s) : ~ Render!Flawed(q, graph)'
    BY <1>1, <1>6, <2>1, FlawsStay
  <2>3. s # "probe" => Render!Flawed(s, graph)'
    BY <1>1, FlawsStay
  <2>4. Render!Paths(graph)' = Render!Paths(graph)
    BY <1>1 DEF Render!Paths
  <2> QED BY <1>1, <1>2, <2>2, <2>3, <2>4, OutcomeOfFailure
<1>10. Render!MetricsAddUp'
  <2>1. s # "none"
    BY DEF Components
  <2>2. \A d \in Components :
          /\ metrics[d].attempts \in Nat /\ metrics[d].successes \in Nat
          /\ metrics[d].fallbacks = 0
          /\ metrics[d].attempts = metrics[d].successes + (IF d = s THEN 1 ELSE 0)
                                   + (IF d = "decode" THEN 1 ELSE 0)
    BY <1>4, <1>6 DEF MetricsOf, AttemptsCounted
  <2>3. \A d \in Components :
          /\ metrics'[d].attempts = metrics'[d].successes + metrics'[d].fallbacks
               + (IF d = "decode" THEN 1 ELSE 0)
          /\ metrics'[d].fallbacks = IF d = s THEN 1 ELSE 0
    <3> TAKE d \in Components
    <3> QED BY <1>5, <2>2
  <2> QED BY <1>2, <2>1, <2>3, StagesAre DEF Render!MetricsAddUp
<1> QED BY <1>7, <1>8, <1>9, <1>10 DEF RenderInv

LEMMA AdvanceStep ==
  ASSUME Render!RenderAssumption, RenderInv, NEW s \in Components, render_pc = s,
         s # "encode", Render!Advance(s), ~ Render!Flawed(s, graph),
         UNCHANGED <<graph, entered, todo, present, clock, sightings, absences>>
  PROVE  RenderInv'
<1> DEFINE n == Render!After(s, graph)
           done == Render!RecordSuccess(metrics, s)
<1>1. /\ metrics' = Render!RecordAttempt(done, n)
      /\ stageMs' = [stageMs EXCEPT ![s] = Render!Elapsed(began.stage)]
      /\ render_pc' = n /\ render_result' = render_result
      /\ began' = [began EXCEPT !.stage = clock]
      /\ UNCHANGED <<graph, entered, todo, present, clock, sightings, absences>>
  BY DEF Render!Advance, Render!Enter
<1>2. /\ n \in Components \ {"probe"} /\ n # s /\ s \notin Earlier(s)
      /\ \A q \in Earlier(n) :
           q \in Earlier(s) \/ q = s \/ (q = "audio" /\ graph.audio = NoAudio)
      /\ \A q \in Earlier(s) \cup {s} : q \in Earlier(n)
      /\ n \notin Earlier(s)
  BY NextStage
<1>3. PICK L : metrics \in MetricsOf(L)
  BY DEF RenderInv, Typed
<1>4. /\ done \in MetricsOf(L)
      /\ \A d \in Components :
           /\ done[d].successes = metrics[d].successes + (IF d = s THEN 1 ELSE 0)
           /\ done[d].attempts = metrics[d].attempts
           /\ done[d].fallbacks = metrics[d].fallbacks
  BY <1>3, SuccessCounts
<1> HIDE DEF n, done
<1>5. /\ metrics' \in MetricsOf(L)
      /\ \A d \in Components :
           /\ metrics'[d].attempts = done[d].attempts + (IF d = n THEN 1 ELSE 0)
           /\ metrics'[d].successes = done[d].successes
           /\ metrics'[d].fallbacks = done[d].fallbacks
  BY <1>1, <1>2, <1>4, AttemptCounts
<1>6. /\ AttemptsCounted /\ Timed /\ entered = "render"
      /\ \A q \in Earlier(s) : ~ Render!Flawed(q, graph)
  BY DEF RenderInv, Running
<1>7. /\ graph \in Graphs /\ clock \in Nat /\ clock <= MaxClock
      /\ began.total \in Nat /\ began.total <= clock /\ DOMAIN began = {"total", "stage"}
      /\ stageMs \in [Components -> Nat]
  BY TypedFacts
<1>8. /\ began'.total = began.total /\ began'.stage = clock
      /\ DOMAIN began' = {"total", "stage"}
  BY <1>1, <1>7
<1>9. /\ stageMs' \in [Components -> 0..MaxClock]
      /\ SumOfStages(stageMs') <= (clock - began.total) \div TicksPerMs
  BY <1>1, StageTime
<1>10. Typed'
  <2>1. DOMAIN metrics' = Components
    BY <1>5 DEF MetricsOf
  <2>2. Render!TypeOK
    BY DEF RenderInv, Typed
  <2>3. began'.stage \in 0..clock /\ began'.total \in 0..clock
    BY <1>7, <1>8
  <2>4. n \in Render!Components \cup {"idle", "returned"}
    BY <1>2, StagesAre
  <2>5. Render!TypeOK'
    BY <1>1, <1>9, <2>1, <2>2, <2>3, <2>4, StagesAre DEF Render!TypeOK
  <2> QED BY <1>5, <1>8, <2>5 DEF Typed
<1>11. AttemptsCounted'
  <2>1. \A d \in Components :
          /\ metrics[d].attempts \in Nat /\ metrics[d].successes \in Nat
          /\ metrics[d].fallbacks = 0
          /\ metrics[d].attempts = metrics[d].successes + (IF d = s THEN 1 ELSE 0)
                                   + (IF d = "decode" THEN 1 ELSE 0)
    BY <1>3, <1>6 DEF MetricsOf, AttemptsCounted
  <2>2. ASSUME NEW d \in Components
        PROVE  /\ metrics'[d].fallbacks = 0
               /\ metrics'[d].attempts = metrics'[d].successes + (IF d = n THEN 1 ELSE 0)
                                         + (IF d = "decode" THEN 1 ELSE 0)
    BY <1>4, <1>5, <2>1
  <2> QED BY <1>1, <2>2 DEF AttemptsCounted
<1>12. Timed'
  <2>1. ASSUME NEW d \in Components \ Earlier(n) PROVE stageMs'[d] = 0
    <3>1. d # s /\ d \in Components \ Earlier(s)
      BY <1>2
    <3>2. stageMs[d] = 0
      BY <1>6, <3>1 DEF Timed
    <3> QED BY <1>1, <1>7, <3>1, <3>2
  <2> QED BY <1>1, <1>7, <1>8, <1>9, <2>1 DEF Timed
<1>13. ASSUME NEW q \in Earlier(n) PROVE ~ Render!Flawed(q, graph)'
  <2>1. q \in Components \cup {"none"}
    BY <1>2 DEF Earlier, Components
  <2>2. ~ Render!Flawed(q, graph)
    <3>1. CASE q \in Earlier(s) \/ q = s
      BY <1>6, <3>1
    <3>2. CASE q = "audio" /\ graph.audio = NoAudio
      BY <3>2 DEF Render!Flawed
    <3> QED BY <1>2, <3>1, <3>2
  <2> QED BY <1>1, <2>1, <2>2, FlawsStay
<1>14. Running'
  BY <1>1, <1>6, <1>11, <1>12, <1>13 DEF Running
<1>15. /\ Unstarted' /\ Probing' /\ Render!OutcomeIsFirstFlaw' /\ Render!MetricsAddUp'
  <2>1. render_pc' \notin {"idle", "probe", "returned"}
    BY <1>1, <1>2 DEF Components
  <2> QED BY <2>1 DEF Unstarted, Probing, Render!OutcomeIsFirstFlaw, Render!MetricsAddUp
<1> QED BY <1>10, <1>14, <1>15 DEF RenderInv

LEMMA EncodedStep ==
  ASSUME Render!RenderAssumption, RenderInv, render_pc = "encode",
         Render!Advance("encode"), ~ Render!Flawed("encode", graph),
         UNCHANGED <<graph, entered, todo, present, clock, sightings, absences>>
  PROVE  RenderInv'
<1> DEFINE done == Render!RecordSuccess(metrics, "encode")
<1>0. "encode" \in Components
  BY DEF Components
<1>1. /\ metrics' = done
      /\ stageMs' = [stageMs EXCEPT !["encode"] = Render!Elapsed(began.stage)]
      /\ render_pc' = "returned" /\ render_result' = Render!Success(graph, done)
      /\ began' = began
      /\ UNCHANGED <<graph, entered, todo, present, clock, sightings, absences>>
  BY DEF Render!Advance, Render!Return
<1>3. PICK L : metrics \in MetricsOf(L)
  BY DEF RenderInv, Typed
<1>4. /\ done \in MetricsOf(L)
      /\ \A d \in Components :
           /\ done[d].successes = metrics[d].successes + (IF d = "encode" THEN 1 ELSE 0)
           /\ done[d].attempts = metrics[d].attempts
           /\ done[d].fallbacks = metrics[d].fallbacks
  BY <1>0, <1>3, SuccessCounts
<1> HIDE DEF done
<1>6. /\ AttemptsCounted /\ Timed /\ entered = "render"
      /\ \A q \in Earlier("encode") : ~ Render!Flawed(q, graph)
  BY <1>0 DEF RenderInv, Running
<1>7. \A d \in Components : done[d].fallbacks = 0
  BY <1>4, <1>6 DEF AttemptsCounted
<1>8. Render!FallbackComponents(done) = {}
  BY <1>7, StagesAre DEF Render!FallbackComponents
<1>9. /\ render_result'.success = TRUE /\ render_result'.artifact = graph.output.path
      /\ render_result'.fallback_used = FALSE
      /\ render_result'.total_ms = Render!Elapsed(began.total)
      /\ DOMAIN render_result' = DOMAIN Render!NoResult
  BY <1>1, <1>8 DEF Render!Success, Render!NoResult
<1>10. /\ stageMs' \in [Components -> 0..MaxClock]
       /\ SumOfStages(stageMs') <= Render!Elapsed(began.total)
  BY <1>0, <1>1, StageTime
<1>11. Typed'
  <2>1. DOMAIN metrics' = Components
    BY <1>1, <1>4 DEF MetricsOf
  <2>2. Render!TypeOK /\ DOMAIN began = {"total", "stage"}
    BY DEF RenderInv, Typed
  <2>3. Render!TypeOK'
    BY <1>1, <1>9, <1>10, <2>1, <2>2, StagesAre DEF Render!TypeOK
  <2> QED BY <1>1, <1>4, <2>2, <2>3 DEF Typed
<1>12. Unstarted' /\ Probing' /\ Running'
  BY <1>1 DEF Unstarted, Probing, Running, Components
<1>13. Render!OutcomeIsFirstFlaw'
  <2>1. ASSUME NEW q \in Components \cup {"none"} PROVE ~ Render!Flawed(q, graph)'
    <3>1. q = "encode" \/ q \in Earlier("encode")
      BY DEF Earlier, Components
    <3> QED BY <1>1, <1>6, <3>1, FlawsStay
  <2> QED BY <1>1, <1>9, <2>1, OutcomeOfSuccess
<1>14. Render!MetricsAddUp'
  <2>1. \A d \in Components :
          /\ metrics[d].attempts \in Nat /\ metrics[d].successes \in Nat
          /\ metrics[d].attempts = metrics[d].successes + (IF d = "encode" THEN 1 ELSE 0)
                                   + (IF d = "decode" THEN 1 ELSE 0)
    BY <1>3, <1>6 DEF MetricsOf, AttemptsCounted
  <2>2. \A d \in Components :
          /\ metrics'[d].attempts = metrics'[d].successes + metrics'[d].fallbacks
               + (IF d = "decode" THEN 1 ELSE 0)
          /\ metrics'[d].fallbacks = 0
    <3> TAKE d \in Components
    <3> QED BY <1>1, <1>4, <1>7, <2>1
  <2>3. Render!TotalStageMs' <= render_result'.total_ms
    BY <1>9, <1>10 DEF Render!TotalStageMs, SumOfStages
  <2> QED BY <1>9, <2>2, <2>3, StagesAre DEF Render!MetricsAddUp
<1> QED BY <1>11, <1>12, <1>13, <1>14 DEF RenderInv

(* One lemma for each action.                                              *)
LEMMA InitRender ==
  ASSUME Render!RenderAssumption, Render!Init PROVE RenderInv
<1>1. /\ render_pc = "idle" /\ graph \in Graphs /\ entered = "none" /\ todo = << >>
      /\ present \subseteq Files /\ clock = 0 /\ began = [total |-> 0, stage |-> 0]
      /\ metrics = Render!NewMetrics /\ stageMs = [c \in Components |-> 0]
      /\ render_result = Render!NoResult /\ sightings = {} /\ absences = {}
  BY StagesAre DEF Render!Init
<1>2. MaxClock \in Nat
  BY DEF Render!RenderAssumption
<1>3. metrics \in MetricsOf({"none"})
  BY <1>1, NewTyped
<1>4. Typed
  <2>1. DOMAIN metrics = Components
    BY <1>3 DEF MetricsOf
  <2>2. stageMs \in [Components -> 0..MaxClock] /\ clock \in 0..MaxClock
    BY <1>1, <1>2
  <2>3. began.stage \in 0..clock /\ began.total \in 0..clock
    BY <1>1
  <2>4. todo \in Seq((Files \cup {""}) \X {"IO_FILE_NOT_FOUND", "OVERLAY_MISSING_ASSET"})
    BY <1>1
  <2>5. Render!TypeOK
    BY <1>1, <2>1, <2>2, <2>3, <2>4, StagesAre DEF Render!TypeOK
  <2> QED BY <1>1, <1>3, <2>5 DEF Typed
<1> QED BY <1>1, <1>4 DEF RenderInv, Unstarted, Probing, Running, Components,
        Render!OutcomeIsFirstFlaw, Render!MetricsAddUp

LEMMA StartStep ==
  ASSUME Render!RenderAssumption, RenderInv, Render!ProcessRenderGraph PROVE RenderInv'
<1> DEFINE validating == Render!RecordAttempt(Render!NewMetrics, "decode")
           code == Render!ValidateError(graph)
<1>1. /\ render_pc = "idle" /\ entered' = "render" /\ todo' = Render!Sources(graph)
      /\ began' = [total |-> clock, stage |-> clock]
      /\ sightings' = present /\ absences' = PathSet \ present
      /\ UNCHANGED <<graph, present, clock, stageMs>>
  BY DEF Render!ProcessRenderGraph, PathSet
<1>2. /\ code = "ok" => /\ metrics' = Render!RecordAttempt(validating, "probe")
                        /\ render_pc' = "probe" /\ render_result' = render_result
      /\ code # "ok" => /\ metrics' = Render!RecordFallback(validating, "decode", code)
                        /\ render_pc' = "returned"
                        /\ render_result' = Render!Failure(code, "none", <<"VALIDATION_FAILED">>)
  BY DEF Render!ProcessRenderGraph, Render!Return
<1>3. /\ graph \in Graphs /\ clock \in Nat /\ clock <= MaxClock /\ MaxClock \in Nat
      /\ TicksPerMs \in Nat \ {0} /\ present \subseteq Files
      /\ stageMs \in [Components -> 0..MaxClock] /\ Render!TypeOK
  BY TypedFacts DEF RenderInv, Typed
<1>4. \A d \in Components : stageMs[d] = 0
  BY <1>1 DEF RenderInv, Unstarted
<1>5. code = "ok" <=> ~ Render!Flawed("none", graph)
  BY <1>3, ValidationFinds
<1>6. /\ Render!Sources(graph) \in Seq(PathSet \X Missing)
      /\ Firsts(Render!Sources(graph)) = Render!Paths(graph)
  BY <1>3, SourcesName
<1>7. "probe" \in Components /\ "decode" \in Components
  BY DEF Components
<1>8. /\ validating \in MetricsOf({"none"})
      /\ \A d \in Components :
           /\ validating[d].attempts = IF d = "decode" THEN 1 ELSE 0
           /\ validating[d].successes = 0 /\ validating[d].fallbacks = 0
  <2> DEFINE new == Render!NewMetrics
  <2>1. /\ new \in MetricsOf({"none"})
        /\ \A d \in Components : new[d].attempts = 0 /\ new[d].successes = 0 /\ new[d].fallbacks = 0
    BY NewTyped
  <2> HIDE DEF new
  <2>2. /\ Render!RecordAttempt(new, "decode") \in MetricsOf({"none"})
        /\ \A d \in Components :
             LET n == Render!RecordAttempt(new, "decode")
             IN /\ n[d].attempts = new[d].attempts + (IF d = "decode" THEN 1 ELSE 0)
                /\ n[d].successes = new[d].successes /\ n[d].fallbacks = new[d].fallbacks
    BY <1>7, <2>1, AttemptCounts
  <2>3. validating = Render!RecordAttempt(new, "decode")
    BY DEF new
  <2> HIDE DEF validating
  <2> QED BY <2>1, <2>2, <2>3
<1> HIDE DEF validating, code
<1>9. began'.total = clock /\ began'.stage = clock /\ DOMAIN began' = {"total", "stage"}
  BY <1>1
<1>10. ASSUME metrics' \in [Components -> [attempts : Nat, successes : Nat, fallbacks : Nat,
                                         last_error : {"none", code}]],
              render_pc' \in {"probe", "returned"},
              DOMAIN render_result' = DOMAIN Render!NoResult
       PROVE  Typed'
  <2>1. metrics' \in MetricsOf({"none", code}) /\ DOMAIN metrics' = Components
    BY <1>10 DEF MetricsOf
  <2>2. began'.stage \in 0..clock /\ began'.total \in 0..clock /\ clock \in 0..MaxClock
    BY <1>3, <1>9
  <2>3. todo' \in Seq((Files \cup {""}) \X {"IO_FILE_NOT_FOUND", "OVERLAY_MISSING_ASSET"})
    BY <1>1, <1>6 DEF PathSet, Missing
  <2>4. render_pc' \in Render!Components \cup {"idle", "returned"}
    BY <1>7, <1>10, StagesAre
  <2>5. Render!TypeOK'
    BY <1>1, <1>3, <1>10, <2>1, <2>2, <2>3, <2>4, StagesAre DEF Render!TypeOK, PathSet
  <2> QED BY <1>9, <2>1, <2>5 DEF Typed
<1>11. CASE code = "ok"
  <2>1. /\ metrics' \in MetricsOf({"none"})
        /\ \A d \in Components :
             /\ metrics'[d].attempts = validating[d].attempts + (IF d = "probe" THEN 1 ELSE 0)
             /\ metrics'[d].successes = validating[d].successes
             /\ metrics'[d].fallbacks = validating[d].fallbacks
    BY <1>2, <1>7, <1>8, <1>11, AttemptCounts
  <2>2. Typed'
    <3>1. metrics' \in [Components -> [attempts : Nat, successes : Nat, fallbacks : Nat,
                                         last_error : {"none", code}]]
      BY <2>1 DEF MetricsOf
    <3>2. DOMAIN render_result' = DOMAIN Render!NoResult
      BY <1>2, <1>3, <1>11 DEF Render!TypeOK
    <3> QED BY <1>2, <1>10, <1>11, <3>1, <3>2
  <2>3. AttemptsCounted'
    <3>1. \A d \in Components :
            /\ metrics'[d].fallbacks = 0
            /\ metrics'[d].attempts = metrics'[d].successes
                 + (IF d = "probe" THEN 1 ELSE 0) + (IF d = "decode" THEN 1 ELSE 0)
      <4> TAKE d \in Components
      <4> QED BY <1>8, <2>1
    <3> QED BY <1>2, <1>11, <3>1 DEF AttemptsCounted
  <2>4. Timed'
    <3>1. SumOfStages(stageMs) = 0
      BY <1>4 DEF SumOfStages, Components
    <3>2. clock - clock = 0 /\ 0 \div TicksPerMs \in Nat
      BY <1>3, DivBounds
    <3> QED BY <1>1, <1>3, <1>4, <1>9, <3>1, <3>2 DEF Timed
  <2>5. \A q \in Earlier("probe") : ~ Render!Flawed(q, graph)'
    <3>1. Render!Flawed("none", graph)' <=> Render!Flawed("none", graph)
      BY <1>1, FlawsStay
    <3> QED BY <1>5, <1>11, <3>1 DEF Earlier
  <2>6. Running'
    BY <1>1, <1>2, <1>11, <2>3, <2>4, <2>5 DEF Running
  <2>7. Probing'
    <3>1. Render!Paths(graph)' = Render!Paths(graph) /\ Firsts(todo') = Render!Paths(graph)
      BY <1>1, <1>6 DEF Render!Paths
    <3> QED BY <1>1, <3>1 DEF Probing
  <2> QED BY <1>2, <1>11, <2>2, <2>6, <2>7
          DEF RenderInv, Unstarted, Render!OutcomeIsFirstFlaw, Render!MetricsAddUp
<1>12. CASE code # "ok"
  <2>1. /\ metrics' \in MetricsOf({"none"} \cup {code})
        /\ \A d \in Components :
             /\ metrics'[d].fallbacks = validating[d].fallbacks + (IF d = "decode" THEN 1 ELSE 0)
             /\ metrics'[d].attempts = validating[d].attempts
             /\ metrics'[d].successes = validating[d].successes
    BY <1>2, <1>7, <1>8, <1>12, FallbackCounts
  <2>2. /\ render_result'.success = FALSE /\ render_result'.stage = "none"
        /\ DOMAIN render_result' = DOMAIN Render!NoResult
    BY <1>2, <1>12 DEF Render!Failure, Render!NoResult
  <2>3. Typed'
    <3>1. metrics' \in [Components -> [attempts : Nat, successes : Nat, fallbacks : Nat,
                                         last_error : {"none", code}]]
      <4>1. {"none"} \cup {code} = {"none", code}
        OBVIOUS
      <4> QED BY <2>1, <4>1 DEF MetricsOf
    <3> QED BY <1>2, <1>10, <1>12, <2>2, <3>1
  <2>4. Render!OutcomeIsFirstFlaw'
    <3>1. Render!Flawed("none", graph)'
      BY <1>1, <1>5, <1>12, FlawsStay
    <3> QED BY <2>2, <3>1, OutcomeOfFailure DEF Earlier
  <2>5. Render!MetricsAddUp'
    <3>1. \A d \in Components :
            /\ metrics'[d].attempts = metrics'[d].successes + metrics'[d].fallbacks
            /\ metrics'[d].fallbacks = IF d = "decode" THEN 1 ELSE 0
      <4> TAKE d \in Components
      <4> QED BY <1>8, <2>1
    <3>2. \A d \in Components : metrics'[d].successes = 0 /\ metrics'[d].fallbacks \in Nat
      BY <1>8, <2>1 DEF MetricsOf
    <3> QED BY <2>2, <3>1, <3>2, StagesAre DEF Render!MetricsAddUp
  <2> QED BY <1>2, <1>12, <2>3, <2>4, <2>5 DEF RenderInv, Unstarted, Probing, Running, Components
<1> QED BY <1>11, <1>12

LEMMA AudioGraphStep ==
  ASSUME Render!RenderAssumption, RenderInv, Render!RunAudioGraph PROVE RenderInv'
<1>1. /\ render_pc' = "returned" /\ entered' = "audio"
      /\ DOMAIN render_result' = DOMAIN Render!NoResult
      /\ UNCHANGED <<graph, todo, present, clock, began, metrics, stageMs, sightings, absences>>
  BY DEF Render!RunAudioGraph, Render!Return, Render!NoResult
<1>2. Typed'
  <2>1. Render!TypeOK'
    BY <1>1, StagesAre DEF RenderInv, Typed, Render!TypeOK
  <2> QED BY <1>1, <2>1 DEF RenderInv, Typed
<1> QED BY <1>1, <1>2 DEF RenderInv, Unstarted, Probing, Running, Components,
        Render!OutcomeIsFirstFlaw, Render!MetricsAddUp

LEMMA ProbeOneStep ==
  ASSUME Render!RenderAssumption, RenderInv, Render!ProbeOne PROVE RenderInv'
<1>1. /\ render_pc = "probe" /\ todo # << >>
      /\ UNCHANGED <<graph, entered, present, clock, sightings, absences>>
  BY DEF Render!ProbeOne
<1>2. /\ todo \in Seq(PathSet \X Missing) /\ present \subseteq Files
  BY TypedFacts
<1>3. /\ present \subseteq sightings /\ PathSet \ present \subseteq absences
      /\ Firsts(todo) \subseteq Render!Paths(graph)
      /\ Render!Paths(graph) \subseteq sightings \cup Firsts(todo)
  BY <1>1 DEF RenderInv, Probing
<1>4. /\ Len(todo) \in Nat /\ Len(todo) # 0 /\ DOMAIN todo = 1..Len(todo)
      /\ todo[1] \in PathSet \X Missing /\ 1 \in DOMAIN todo
  <2>1. Len(todo) \in Nat /\ Len(todo) # 0 /\ DOMAIN todo = 1..Len(todo)
    BY <1>1, <1>2, EmptySeq, LenProperties
  <2>2. 1 \in 1..Len(todo)
    BY <2>1, OneOfMany
  <2> QED BY <1>2, <2>1, <2>2, ElementOfSeq
<1>5. todo[1][1] \in Firsts(todo) /\ todo[1][1] \in PathSet
  BY <1>4 DEF Firsts, Range
<1>6. CASE todo[1][1] \in present
  <2>1. todo' = Tail(todo) /\ UNCHANGED <<render_pc, render_result, metrics, stageMs, began>>
    BY <1>6 DEF Render!ProbeOne
  <2>2. /\ Tail(todo) \in Seq(PathSet \X Missing)
        /\ Len(Tail(todo)) = Len(todo) - 1
        /\ \A k \in 1..(Len(todo) - 1) : Tail(todo)[k] = todo[k + 1]
    BY <1>1, <1>2, HeadTailProperties
  <2>3. Firsts(todo) \subseteq {todo[1][1]} \cup Firsts(Tail(todo))
    <3>1. ASSUME NEW k \in DOMAIN todo, k # 1
          PROVE  todo[k] \in Range(Tail(todo))
      <4>1. k - 1 \in 1..(Len(todo) - 1) /\ (k - 1) + 1 = k
        BY <1>4, <3>1
      <4>2. DOMAIN Tail(todo) = 1..(Len(todo) - 1)
        BY <2>2, LenProperties
      <4> QED BY <2>2, <4>1, <4>2 DEF Range
    <3> QED BY <3>1 DEF Firsts, Range
  <2>4. Firsts(Tail(todo)) \subseteq Firsts(todo)
    <3>1. ASSUME NEW k \in DOMAIN Tail(todo) PROVE Tail(todo)[k] \in Range(todo)
      <4>1. k \in 1..(Len(todo) - 1)
        BY <2>2, <3>1, LenProperties
      <4>2. k + 1 \in DOMAIN todo /\ Tail(todo)[k] = todo[k + 1]
        BY <1>4, <2>2, <4>1
      <4> QED BY <4>2 DEF Range
    <3>2. Range(Tail(todo)) \subseteq Range(todo)
      BY <3>1 DEF Range
    <3> QED BY <3>2 DEF Firsts
  <2>5. Typed'
    <3>1. Render!TypeOK'
      BY <1>1, <2>1, <2>2 DEF RenderInv, Typed, Render!TypeOK, PathSet, Missing
    <3> QED BY <2>1, <3>1 DEF RenderInv, Typed
  <2>6. Probing'
    <3>1. Render!Paths(graph)' = Render!Paths(graph)
      BY <1>1 DEF Render!Paths
    <3>2. Firsts(todo') = Firsts(Tail(todo))
      BY <2>1
    <3>3. Firsts(Tail(todo)) \subseteq Render!Paths(graph)
      BY <1>3, <2>4
    <3>4. Render!Paths(graph) \subseteq sightings \cup Firsts(Tail(todo))
      BY <1>3, <1>6, <2>3
    <3> QED BY <1>1, <1>3, <3>1, <3>2, <3>3, <3>4 DEF Probing
  <2>7. Running'
    <3>1. AttemptsCounted /\ Timed /\ entered = "render" /\ ~ Render!Flawed("none", graph)
      BY <1>1 DEF RenderInv, Running, Components, Earlier
    <3>2. AttemptsCounted' /\ Timed'
      BY <1>1, <2>1, <3>1 DEF AttemptsCounted, Timed
    <3>3. ~ Render!Flawed("none", graph)'
      BY <1>1, <3>1, FlawsStay
    <3> QED BY <1>1, <2>1, <3>1, <3>2, <3>3 DEF Running, Earlier
  <2> QED BY <1>1, <2>1, <2>5, <2>6, <2>7
          DEF RenderInv, Unstarted, Render!OutcomeIsFirstFlaw, Render!MetricsAddUp
<1>7. CASE todo[1][1] \notin present
  <2>1. Render!Fail("probe", todo[1][2], <<"PROBE_FAILED">>) /\ UNCHANGED todo
    BY <1>7 DEF Render!ProbeOne
  <2>2. Render!Paths(graph) \cap absences # {}
    BY <1>3, <1>5, <1>7
  <2>3. "probe" \in Components
    BY DEF Components
  <2> QED BY <1>1, <2>1, <2>2, <2>3, FailStep
<1> QED BY <1>6, <1>7

LEMMA ProbeDoneStep ==
  ASSUME Render!RenderAssumption, RenderInv, Render!ProbeDone PROVE RenderInv'
<1>1. /\ render_pc = "probe" /\ todo = << >> /\ Render!Advance("probe")
      /\ UNCHANGED <<graph, entered, todo, present, clock, sightings, absences>>
  BY DEF Render!ProbeDone
<1>2. Firsts(todo) = {}
  BY <1>1 DEF Firsts, Range
<1>3. ~ Render!Flawed("probe", graph)
  BY <1>1, <1>2 DEF RenderInv, Probing, Render!Flawed
<1>4. "probe" \in Components
  BY DEF Components
<1> QED BY <1>1, <1>3, <1>4, AdvanceStep

LEMMA StageStep ==
  ASSUME Render!RenderAssumption, RenderInv, NEW s \in Components \ {"probe"},
         Render!RunStage(s)
  PROVE  RenderInv'
<1>1. /\ render_pc = s
      /\ UNCHANGED <<graph, entered, todo, present, clock, sightings, absences>>
      /\ Render!StageError(s, graph) = "ok" => Render!Advance(s)
      /\ Render!StageError(s, graph) # "ok" =>
           Render!Fail(s, Render!StageError(s, graph), << >>)
  BY DEF Render!RunStage
<1>2. s \in {"decode", "effects", "overlay", "audio", "encode"} /\ s \in Components
  BY DEF Components
<1>3. graph \in Graphs
  BY TypedFacts
<1>4. ~ Render!Flawed("none", graph)
  <2>1. "none" \in Earlier(s)
    BY <1>2 DEF Earlier
  <2> QED BY <1>1, <1>2, <2>1 DEF RenderInv, Running
<1>5. Render!StageError(s, graph) = "ok" <=> ~ Render!Flawed(s, graph)
  BY <1>2, <1>3, <1>4, StagesFind
<1>6. CASE Render!StageError(s, graph) = "ok" /\ s = "encode"
  BY <1>1, <1>5, <1>6, EncodedStep
<1>7. CASE Render!StageError(s, graph) = "ok" /\ s # "encode"
  BY <1>1, <1>2, <1>5, <1>7, AdvanceStep
<1>8. CASE Render!StageError(s, graph) # "ok"
  <2>1. s # "probe"
    OBVIOUS
  <2> QED BY <1>1, <1>2, <1>5, <1>8, <2>1, FailStep
<1> QED BY <1>6, <1>7, <1>8

LEMMA FilesStep ==
  ASSUME Render!RenderAssumption, RenderInv, Render!FileChanges PROVE RenderInv'
<1>1. /\ render_pc = "probe" /\ render_pc' = "probe"
      /\ UNCHANGED <<graph, entered, todo, clock, began, metrics, stageMs, render_result>>
      /\ sightings' = sightings \cup present' /\ absences' = absences \cup (Files \ present')
  BY DEF Render!FileChanges
<1>2. PICK f \in Files : present' = IF f \in present THEN present \ {f} ELSE present \cup {f}
  BY DEF Render!FileChanges
<1>3. present \subseteq Files /\ sightings \subseteq Files /\ absences \subseteq PathSet
  BY TypedFacts
<1>4. present' \subseteq Files /\ sightings' \subseteq Files /\ absences' \subseteq PathSet
  BY <1>1, <1>2, <1>3 DEF PathSet
<1>5. Typed'
  <2>1. Render!TypeOK'
    BY <1>1, <1>4 DEF RenderInv, Typed, Render!TypeOK, PathSet
  <2> QED BY <1>1, <2>1 DEF RenderInv, Typed
<1>6. Probing'
  <2>1. /\ present \subseteq sightings /\ PathSet \ present \subseteq absences
        /\ Firsts(todo) \subseteq Render!Paths(graph)
        /\ Render!Paths(graph) \subseteq sightings \cup Firsts(todo)
    BY <1>1 DEF RenderInv, Probing
  <2>2. Render!Paths(graph)' = Render!Paths(graph)
    BY <1>1 DEF Render!Paths
  <2>3. PathSet \ present' \subseteq absences'
    <3>1. ASSUME NEW p \in PathSet, p \notin present', p \notin Files PROVE p \in absences'
      BY <1>1, <1>3, <2>1, <3>1
    <3> QED BY <1>1, <3>1
  <2> QED BY <1>1, <2>1, <2>2, <2>3 DEF Probing
<1>7. Running'
  <2>1. AttemptsCounted /\ Timed /\ entered = "render" /\ ~ Render!Flawed("none", graph)
    BY <1>1 DEF RenderInv, Running, Components, Earlier
  <2>2. AttemptsCounted' /\ Timed'
    BY <1>1, <2>1 DEF AttemptsCounted, Timed
  <2>3. ~ Render!Flawed("none", graph)'
    BY <1>1, <2>1, FlawsStay
  <2> QED BY <1>1, <2>1, <2>2, <2>3 DEF Running, Earlier
<1> QED BY <1>1, <1>5, <1>6, <1>7
        DEF RenderInv, Unstarted, Render!OutcomeIsFirstFlaw, Render!MetricsAddUp

LEMMA TickStep ==
  ASSUME Render!RenderAssumption, RenderInv, Render!Tick PROVE RenderInv'
<1>1. /\ render_pc \in Components /\ clock < MaxClock /\ clock' = clock + 1
      /\ UNCHANGED <<render_pc, graph, entered, todo, present, began, metrics, stageMs,
                     render_result, sightings, absences>>
  BY StagesAre DEF Render!Tick
<1>2. /\ clock \in Nat /\ MaxClock \in Nat /\ began.stage \in Nat /\ began.stage <= clock
      /\ began.total \in Nat /\ began.total <= clock
  BY TypedFacts
<1>3. clock' \in 0..MaxClock /\ began.stage \in 0..clock' /\ began.total \in 0..clock'
  BY <1>1, <1>2
<1>4. Typed'
  <2>1. Render!TypeOK'
    BY <1>1, <1>3 DEF RenderInv, Typed, Render!TypeOK
  <2> QED BY <1>1, <2>1 DEF RenderInv, Typed
<1>5. Probing'
  <2>1. Render!Paths(graph)' = Render!Paths(graph)
    BY <1>1 DEF Render!Paths
  <2> QED BY <1>1, <2>1 DEF RenderInv, Probing
<1>6. Running'
  <2>1. AttemptsCounted /\ Timed /\ entered = "render"
        /\ \A q \in Earlier(render_pc) : ~ Render!Flawed(q, graph)
    BY <1>1 DEF RenderInv, Running
  <2>2. AttemptsCounted' /\ Timed'
    BY <1>1, <2>1 DEF AttemptsCounted, Timed
  <2>3. \A q \in Earlier(render_pc) : q \in Components \cup {"none"}
    BY <1>1 DEF Earlier, Components
  <2>4. \A q \in Earlier(render_pc) : ~ Render!Flawed(q, graph)'
    BY <1>1, <2>1, <2>3, FlawsStay
  <2> QED BY <1>1, <2>1, <2>2, <2>4 DEF Running
<1> QED BY <1>1, <1>4, <1>5, <1>6
        DEF RenderInv, Unstarted, Components, Render!OutcomeIsFirstFlaw, Render!MetricsAddUp

LEMMA QuietRender ==
  ASSUME RenderInv, UNCHANGED Render!renderVars PROVE RenderInv'
<1>1. UNCHANGED <<render_pc, graph, entered, todo, present, clock, began, metrics,
                  stageMs, render_result, sightings, absences>>
  BY DEF Render!renderVars
<1>2. Typed'
  <2>1. Render!TypeOK'
    BY <1>1 DEF RenderInv, Typed, Render!TypeOK
  <2> QED BY <1>1, <2>1 DEF RenderInv, Typed
<1>3. Render!Paths(graph)' = Render!Paths(graph)
  BY <1>1 DEF Render!Paths
<1>4. \A q \in Components \cup {"none"} :
        Render!Flawed(q, graph)' <=> Render!Flawed(q, graph)
  BY <1>1, FlawsStay
<1>5. Probing' /\ Unstarted'
  BY <1>1, <1>3 DEF RenderInv, Probing, Unstarted
<1>6. Running'
  <2> SUFFICES ASSUME render_pc \in Components PROVE Running'
    BY <1>1 DEF Running
  <2>1. \A q \in Earlier(render_pc) : q \in Components \cup {"none"}
    BY DEF Earlier, Components
  <2>2. AttemptsCounted' /\ Timed'
    BY <1>1 DEF RenderInv, Running, AttemptsCounted, Timed
  <2> QED BY <1>1, <1>4, <2>1, <2>2 DEF RenderInv, Running
<1>7. Render!OutcomeIsFirstFlaw'
  BY <1>1 DEF RenderInv, Render!OutcomeIsFirstFlaw, Render!Flawed, Render!Paths
<1>8. Render!MetricsAddUp'
  BY <1>1 DEF RenderInv, Render!MetricsAddUp, Render!TotalStageMs
<1> QED BY <1>2, <1>5, <1>6, <1>7, <1>8 DEF RenderInv

(* The invariant holds in every reachable state.                           *)
LEMMA RenderHolds ==
  ASSUME Render!RenderAssumption
  PROVE  Render!Spec => []RenderInv
<1>1. Render!Init => RenderInv
  BY InitRender
<1>2. RenderInv /\ [Render!Next]_(Render!renderVars) => RenderInv'
  <2> SUFFICES ASSUME RenderInv, [Render!Next]_(Render!renderVars) PROVE RenderInv'
    OBVIOUS
  <2>1. CASE Render!ProcessRenderGraph
    BY <2>1, StartStep
  <2>2. CASE Render!RunAudioGraph
    BY <2>2, AudioGraphStep
  <2>3. CASE Render!ProbeOne
    BY <2>3, ProbeOneStep
  <2>4. CASE Render!ProbeDone
    BY <2>4, ProbeDoneStep
  <2>5. CASE \E s \in Render!Components \ {"probe"} : Render!RunStage(s)
    BY <2>5, StageStep, StagesAre
  <2>6. CASE Render!FileChanges
    BY <2>6, FilesStep
  <2>7. CASE Render!Tick
    BY <2>7, TickStep
  <2>8. CASE Render!Returned \/ UNCHANGED Render!renderVars
    BY <2>8, QuietRender DEF Render!Returned
  <2> QED BY <2>1, <2>2, <2>3, <2>4, <2>5, <2>6, <2>7, <2>8 DEF Render!Next
<1> QED BY <1>1, <1>2, PTL DEF Render!Spec

(* Every variable of the renderer has its type, whatever graph comes,      *)
(* whatever other programs do to its files and however the clock runs.     *)
THEOREM RenderTyped ==
  ASSUME Render!RenderAssumption
  PROVE  Render!Spec => []Render!TypeOK
<1>1. RenderInv => Render!TypeOK
  BY DEF RenderInv, Typed
<1> QED BY <1>1, RenderHolds, PTL

(* A render succeeds only for a graph in which no stage finds a flaw and   *)
(* whose files were all seen during the call; a failure names the first    *)
(* stage with a flaw, or the probe and a file that was missing at some     *)
(* moment of the call.                                                     *)
THEOREM FirstFlawNamed ==
  ASSUME Render!RenderAssumption
  PROVE  Render!Spec => []Render!OutcomeIsFirstFlaw
<1>1. RenderInv => Render!OutcomeIsFirstFlaw
  BY DEF RenderInv
<1> QED BY <1>1, RenderHolds, PTL

(* The metrics of a finished render add up: an attempt is a success or the *)
(* one failure of the call, but for the one validation leaves open; no     *)
(* success is called a fallback; and the stages, each rounded down, never  *)
(* take longer than the whole.                                             *)
THEOREM CountsAddUp ==
  ASSUME Render!RenderAssumption
  PROVE  Render!Spec => []Render!MetricsAddUp
<1>1. RenderInv => Render!MetricsAddUp
  BY DEF RenderInv
<1> QED BY <1>1, RenderHolds, PTL
=============================================================================
