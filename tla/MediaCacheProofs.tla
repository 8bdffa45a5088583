-------------------------- MODULE MediaCacheProofs --------------------------
(***************************************************************************)
(* Theorems about MediaCache for any threads, any finite set of keys, any  *)
(* sizes and limit, any batch of victims and any number of puts and        *)
(* restarts.                                                               *)
(***************************************************************************)
EXTENDS CacheParts, FiniteSetTheorems, SequenceTheorems,
        WellFoundedInduction, TLAPS

-----------------------------------------------------------------------------
(* Induction.  The library states it for operators; a set of naturals does *)
(* as well here, and its least element is what the provers can use.        *)

LEMMA LeastNatural ==
  ASSUME NEW T \in SUBSET Nat, T # {}
  PROVE  \E m \in T : \A k \in T : m <= k
<1> DEFINE R == OpToRel(<, Nat)
<1>1. IsWellFoundedOn(R, Nat)
  BY NatLessThanWellFounded
<1>2. \A a, b \in Nat : a < b => <<a, b>> \in R
  BY DEF OpToRel
<1> HIDE DEF R
<1>3. PICK m \in T : \A k \in T : ~ (<<k, m>> \in R)
  BY <1>1, WFMin
<1>4. \A k \in T : ~ (k < m)
  BY <1>2, <1>3
<1>5. \A k \in T : m <= k
  BY <1>4
<1> QED BY <1>5

LEMMA NaturalsFrom ==
  ASSUME NEW T \in SUBSET Nat, 0 \in T, \A n \in T : n + 1 \in T
  PROVE  T = Nat
<1> SUFFICES ASSUME T # Nat PROVE FALSE
  OBVIOUS
<1>1. PICK m \in Nat \ T : \A k \in Nat \ T : m <= k
  BY LeastNatural
<1>2. m # 0 /\ m - 1 \in Nat
  BY <1>1
<1>3. m - 1 \in T
  BY <1>1, <1>2
<1> QED BY <1>1, <1>2, <1>3

(* A set of finite sets that has the empty one, and every finite set with  *)
(* one element more than one of its own, has all subsets of S.             *)
LEMMA SubsetsFrom ==
  ASSUME NEW S, IsFiniteSet(S), NEW T \in SUBSET SUBSET S,
         {} \in T, \A A \in T : \A x \in S \ A : A \cup {x} \in T
  PROVE  S \in T
<1> DEFINE Ns == {n \in Nat : \A A \in SUBSET S : Cardinality(A) = n => A \in T}
<1>1. \A A \in SUBSET S : IsFiniteSet(A) /\ Cardinality(A) \in Nat
  BY FS_Subset, FS_CardinalityType
<1>2. 0 \in Ns
  BY <1>1, FS_EmptySet
<1>3. ASSUME NEW n \in Ns PROVE n + 1 \in Ns
  <2> SUFFICES ASSUME NEW A \in SUBSET S, Cardinality(A) = n + 1 PROVE A \in T
    OBVIOUS
  <2>1. A # {}
    BY <1>1, FS_EmptySet
  <2>2. PICK x \in A : TRUE
    BY <2>1
  <2>3. Cardinality(A \ {x}) = n
    BY <1>1, <2>2, FS_RemoveElement
  <2>4. A \ {x} \in T
    BY <2>3
  <2>5. (A \ {x}) \cup {x} = A /\ x \in S \ (A \ {x})
    BY <2>2
  <2> QED BY <2>4, <2>5
<1>4. Ns = Nat
  <2> HIDE DEF Ns
  <2>1. Ns \in SUBSET Nat
    BY DEF Ns
  <2> QED BY <1>2, <1>3, <2>1, NaturalsFrom
<1> QED BY <1>1, <1>4

-----------------------------------------------------------------------------
(* Sums.  SumFunctionOnSet takes the elements in an order of its own; what *)
(* it yields does not depend on it.                                        *)

Pick(s) == CHOOSE x \in s : TRUE

SumStep(f, g, s) == IF s = {} THEN 0 ELSE f[Pick(s)] + g[s \ {Pick(s)}]

(* g[s] is the sum of f over s, for all s \subseteq S. *)
Sums(g, f, S) ==
  \A s \in SUBSET S : g[s] \in Nat /\ g[s] = SumStep(f, g, s)

LEMMA PickIn == ASSUME NEW s, s # {} PROVE Pick(s) \in s
BY DEF Pick

LEMMA SumsExist ==
  ASSUME NEW S, IsFiniteSet(S), NEW f, \A x \in S : f[x] \in Nat
  PROVE  \E g : g = [s \in SUBSET S |-> SumStep(f, g, s)] /\ Sums(g, f, S)
<1> DEFINE Upto(n, g) == \A s \in SUBSET S :
             Cardinality(s) <= n => g[s] \in Nat /\ g[s] = SumStep(f, g, s)
           Ns == {n \in Nat : \E g : Upto(n, g)}
<1>1. \A s \in SUBSET S : IsFiniteSet(s) /\ Cardinality(s) \in Nat
  BY FS_Subset, FS_CardinalityType
<1>2. \A s \in SUBSET S : s # {} =>
        /\ Pick(s) \in s /\ Cardinality(s) # 0
        /\ Cardinality(s \ {Pick(s)}) = Cardinality(s) - 1
  BY <1>1, PickIn, FS_EmptySet, FS_RemoveElement
<1>3. 0 \in Ns
  <2>1. \A s \in SUBSET S : Cardinality(s) <= 0 => s = {}
    <3> SUFFICES ASSUME NEW s \in SUBSET S, Cardinality(s) <= 0, s # {} PROVE FALSE
      OBVIOUS
    <3>1. Cardinality(s) # 0 /\ Cardinality(s) \in Nat
      BY <1>1, <1>2
    <3> QED BY <3>1
  <2>2. Upto(0, [s \in SUBSET S |-> 0])
    BY <2>1 DEF SumStep
  <2> QED BY <2>2
<1>4. ASSUME NEW n \in Ns PROVE n + 1 \in Ns
  <2>1. PICK g : Upto(n, g)
    BY <1>4
  <2> DEFINE h == [s \in SUBSET S |->
                     IF Cardinality(s) <= n THEN g[s] ELSE SumStep(f, g, s)]
  <2>2. ASSUME NEW s \in SUBSET S, Cardinality(s) <= n + 1
        PROVE  h[s] \in Nat /\ h[s] = SumStep(f, h, s)
    <3>1. CASE s = {}
      <4>1. Cardinality(s) <= n
        BY <1>1, <3>1, FS_EmptySet
      <4> QED BY <2>1, <3>1, <4>1 DEF SumStep
    <3>2. CASE s # {}
      <4>1. /\ s \ {Pick(s)} \in SUBSET S /\ Cardinality(s \ {Pick(s)}) <= n
            /\ f[Pick(s)] \in Nat
        BY <1>1, <1>2, <2>2, <3>2
      <4>2. h[s \ {Pick(s)}] = g[s \ {Pick(s)}] /\ g[s \ {Pick(s)}] \in Nat
        BY <2>1, <4>1
      <4>3. h[s] = SumStep(f, g, s)
        BY <2>1
      <4> QED BY <3>2, <4>1, <4>2, <4>3 DEF SumStep
    <3> QED BY <3>1, <3>2
  <2>3. Upto(n + 1, h)
    BY <2>2
  <2>4. \E gg : Upto(n + 1, gg)
    <3> HIDE DEF Upto, h
    <3> QED BY <2>3
  <2> QED BY <2>4
<1>5. Ns = Nat
  <2> HIDE DEF Ns
  <2>1. Ns \in SUBSET Nat
    BY DEF Ns
  <2> QED BY <1>3, <1>4, <2>1, NaturalsFrom
<1>6. PICK g : Upto(Cardinality(S), g)
  BY <1>1, <1>5
<1>7. Sums(g, f, S)
  BY <1>1, <1>6, FS_Subset DEF Sums
<1> DEFINE h == [s \in SUBSET S |-> g[s]]
<1>8. \A s \in SUBSET S : SumStep(f, h, s) = SumStep(f, g, s) /\ h[s] = g[s]
  BY PickIn DEF SumStep
<1>9. h = [s \in SUBSET S |-> SumStep(f, h, s)] /\ Sums(h, f, S)
  BY <1>7, <1>8 DEF Sums
<1> QED BY <1>9

LEMMA SumsUnique ==
  ASSUME NEW S, IsFiniteSet(S), NEW f, NEW g, NEW h,
         Sums(g, f, S), \A s \in SUBSET S : h[s] = SumStep(f, h, s)
  PROVE  \A s \in SUBSET S : h[s] = g[s]
<1> DEFINE Ns == {n \in Nat : \A s \in SUBSET S : Cardinality(s) = n => h[s] = g[s]}
<1>1. \A s \in SUBSET S : IsFiniteSet(s) /\ Cardinality(s) \in Nat
  BY FS_Subset, FS_CardinalityType
<1>2. 0 \in Ns
  BY <1>1, FS_EmptySet DEF Sums, SumStep
<1>3. ASSUME NEW n \in Ns PROVE n + 1 \in Ns
  <2> SUFFICES ASSUME NEW s \in SUBSET S, Cardinality(s) = n + 1 PROVE h[s] = g[s]
    OBVIOUS
  <2>1. s # {}
    BY <1>1, FS_EmptySet
  <2>2. Cardinality(s \ {Pick(s)}) = n /\ s \ {Pick(s)} \in SUBSET S
    <3>1. IsFiniteSet(s) /\ Pick(s) \in s
      BY <1>1, <2>1, PickIn
    <3>2. Cardinality(s \ {Pick(s)}) = Cardinality(s) - 1
      BY <3>1, FS_RemoveElement
    <3> QED BY <3>2
  <2>3. h[s \ {Pick(s)}] = g[s \ {Pick(s)}]
    BY <2>2
  <2> QED BY <2>1, <2>3 DEF Sums, SumStep
<1>4. Ns = Nat
  <2> HIDE DEF Ns
  <2>1. Ns \in SUBSET Nat
    BY DEF Ns
  <2> QED BY <1>2, <1>3, <2>1, NaturalsFrom
<1> QED BY <1>1, <1>4

LEMMA SumIsSums ==
  ASSUME NEW S, IsFiniteSet(S), NEW f, \A x \in S : f[x] \in Nat
  PROVE  \E g : Sums(g, f, S) /\ SumFunctionOnSet(f, S) = g[S]
<1> DEFINE Is(g) == g = [s \in SUBSET S |-> SumStep(f, g, s)]
           G == CHOOSE g : Is(g)
<1>1. PICK g : Is(g) /\ Sums(g, f, S)
  BY SumsExist
<1>2. Is(G)
  <2> HIDE DEF Is
  <2> QED BY <1>1
<1>3. SumFunctionOnSet(f, S) = G[S]
  BY DEF SumFunctionOnSet, FoldFunctionOnSet, MapThenFoldSet, SumStep, Pick
<1>4. \A s \in SUBSET S : G[s] = SumStep(f, G, s)
  <2> SUFFICES ASSUME NEW h, Is(h) PROVE \A s \in SUBSET S : h[s] = SumStep(f, h, s)
    <3> HIDE DEF Is
    <3> QED BY <1>2
  <2> DEFINE F == [s \in SUBSET S |-> SumStep(f, h, s)]
  <2>1. h = F
    OBVIOUS
  <2>2. \A s \in SUBSET S : F[s] = SumStep(f, h, s)
    OBVIOUS
  <2> HIDE DEF F
  <2> QED BY <2>1, <2>2
<1> HIDE DEF G
<1>5. G[S] = g[S]
  <2>1. \A s \in SUBSET S : G[s] = g[s]
    BY <1>1, <1>4, SumsUnique
  <2> QED BY <2>1
<1> QED BY <1>1, <1>3, <1>5

LEMMA SumsAre ==
  ASSUME NEW S, IsFiniteSet(S), NEW f, \A x \in S : f[x] \in Nat,
         NEW g, Sums(g, f, S)
  PROVE  \A T \in SUBSET S : SumFunctionOnSet(f, T) = g[T]
<1> SUFFICES ASSUME NEW T \in SUBSET S PROVE SumFunctionOnSet(f, T) = g[T]
  OBVIOUS
<1>1. IsFiniteSet(T) /\ \A x \in T : f[x] \in Nat
  BY FS_Subset
<1>2. PICK h : Sums(h, f, T) /\ SumFunctionOnSet(f, T) = h[T]
  BY <1>1, SumIsSums
<1>3. Sums(g, f, T) /\ \A s \in SUBSET T : h[s] = SumStep(f, h, s)
  BY <1>2 DEF Sums
<1>4. \A s \in SUBSET T : h[s] = g[s]
  BY <1>1, <1>3, SumsUnique
<1> QED BY <1>2, <1>4

(* Any element may be taken out first. *)
LEMMA SumsAny ==
  ASSUME NEW S, IsFiniteSet(S), NEW f, \A x \in S : f[x] \in Nat,
         NEW g, Sums(g, f, S)
  PROVE  \A s \in SUBSET S : \A y \in s : g[s] = f[y] + g[s \ {y}]
<1> DEFINE AnyFirst(s) == \A y \in s : g[s] = f[y] + g[s \ {y}]
           Ns == {n \in Nat : \A s \in SUBSET S : Cardinality(s) = n => AnyFirst(s)}
<1>1. \A s \in SUBSET S : IsFiniteSet(s) /\ Cardinality(s) \in Nat
  BY FS_Subset, FS_CardinalityType
<1>2. 0 \in Ns
  BY <1>1, FS_EmptySet
<1>3. ASSUME NEW n \in Ns PROVE n + 1 \in Ns
  <2> SUFFICES ASSUME NEW s \in SUBSET S, Cardinality(s) = n + 1, NEW y \in s
               PROVE  g[s] = f[y] + g[s \ {y}]
    OBVIOUS
  <2> DEFINE x == Pick(s)
  <2>1. x \in s
    BY PickIn
  <2>2. g[s] = f[x] + g[s \ {x}]
    BY DEF Sums, SumStep
  <2>3. SUFFICES ASSUME x # y PROVE g[s] = f[y] + g[s \ {y}]
    BY <2>2
  <2>4. \A z \in s : Cardinality(s \ {z}) = n /\ s \ {z} \in SUBSET S
    <3> SUFFICES ASSUME NEW z \in s PROVE Cardinality(s \ {z}) = n
      OBVIOUS
    <3>1. IsFiniteSet(s)
      BY <1>1
    <3>2. Cardinality(s \ {z}) = Cardinality(s) - 1
      BY <3>1, FS_RemoveElement
    <3> QED BY <3>2
  <2> HIDE DEF x
  <2>5. g[s \ {x}] = f[y] + g[(s \ {x}) \ {y}]
    BY <2>1, <2>3, <2>4
  <2>6. g[s \ {y}] = f[x] + g[(s \ {y}) \ {x}]
    BY <2>1, <2>3, <2>4
  <2>7. (s \ {x}) \ {y} = (s \ {y}) \ {x} /\ (s \ {x}) \ {y} \in SUBSET S
    OBVIOUS
  <2>8. g[(s \ {x}) \ {y}] \in Nat /\ f[x] \in Nat /\ f[y] \in Nat
    BY <2>1, <2>7 DEF Sums
  <2>9. g[s \ {y}] = f[x] + g[(s \ {x}) \ {y}]
    BY <2>6, <2>7, Zenon
  <2>10. ASSUME NEW a, NEW b, NEW c, NEW d \in Nat, NEW v \in Nat, NEW w \in Nat,
                a = v + b, b = w + d, c = v + d
         PROVE  a = w + c
    BY <2>10
  <2> QED BY <2>2, <2>5, <2>8, <2>9, <2>10
<1>4. Ns = Nat
  <2> HIDE DEF Ns
  <2>1. Ns \in SUBSET Nat
    BY DEF Ns
  <2> QED BY <1>2, <1>3, <2>1, NaturalsFrom
<1> QED BY <1>1, <1>4

-----------------------------------------------------------------------------
(* What the rest of the module knows of a sum.                             *)

LEMMA SumRules ==
  ASSUME NEW S, IsFiniteSet(S), NEW f, \A x \in S : f[x] \in Nat
  PROVE  /\ SumFunctionOnSet(f, S) \in Nat
         /\ SumFunctionOnSet(f, {}) = 0
         /\ \A y \in S : SumFunctionOnSet(f, S)
                           = f[y] + SumFunctionOnSet(f, S \ {y})
<1>1. PICK g : Sums(g, f, S)
  BY SumIsSums
<1>2. \A T \in SUBSET S : SumFunctionOnSet(f, T) = g[T]
  BY <1>1, SumsAre
<1>3. \A y \in S : g[S] = f[y] + g[S \ {y}]
  BY <1>1, SumsAny
<1>4. g[S] \in Nat /\ g[{}] = 0
  BY <1>1 DEF Sums, SumStep
<1>5. SumFunctionOnSet(f, S) = g[S] /\ SumFunctionOnSet(f, {}) = g[{}]
  BY <1>2
<1>6. \A y \in S : SumFunctionOnSet(f, S \ {y}) = g[S \ {y}]
  BY <1>2
<1> QED BY <1>3, <1>4, <1>5, <1>6

LEMMA SumSame ==
  ASSUME NEW S, IsFiniteSet(S), NEW f, NEW g,
         \A x \in S : f[x] \in Nat /\ f[x] = g[x]
  PROVE  SumFunctionOnSet(f, S) = SumFunctionOnSet(g, S)
<1>1. PICK h : Sums(h, f, S) /\ SumFunctionOnSet(f, S) = h[S]
  BY SumIsSums
<1>2. ASSUME NEW s \in SUBSET S PROVE SumStep(g, h, s) = SumStep(f, h, s)
  BY PickIn DEF SumStep
<1>3. Sums(h, g, S)
  BY <1>1, <1>2 DEF Sums
<1>4. \A T \in SUBSET S : SumFunctionOnSet(g, T) = h[T]
  BY <1>3, SumsAre
<1> QED BY <1>1, <1>4

LEMMA SumZero ==
  ASSUME NEW S, IsFiniteSet(S), NEW f, \A x \in S : f[x] = 0
  PROVE  SumFunctionOnSet(f, S) = 0
<1> DEFINE h == [s \in SUBSET S |-> 0]
<1>1. Sums(h, f, S)
  BY PickIn DEF Sums, SumStep
<1>2. \A T \in SUBSET S : SumFunctionOnSet(f, T) = h[T]
  <2> HIDE DEF h
  <2> QED BY <1>1, SumsAre
<1> QED BY <1>2

(* A sum splits over a subset and the rest. *)
LEMMA SumSplit ==
  ASSUME NEW S, IsFiniteSet(S), NEW f, \A x \in S : f[x] \in Nat,
         NEW A \in SUBSET S
  PROVE  SumFunctionOnSet(f, S)
           = SumFunctionOnSet(f, A) + SumFunctionOnSet(f, S \ A)
<1> DEFINE Sum(B) == SumFunctionOnSet(f, B)
           T == {B \in SUBSET A : Sum(S) = Sum(B) + Sum(S \ B)}
<1>1. \A B \in SUBSET S : IsFiniteSet(B) /\ \A x \in B : f[x] \in Nat
  BY FS_Subset
<1>2. \A B \in SUBSET S : Sum(B) \in Nat /\ \A y \in B : Sum(B) = f[y] + Sum(B \ {y})
  BY <1>1, SumRules
<1>3. Sum({}) = 0
  BY SumRules
<1> HIDE DEF Sum
<1>4. {} \in T
  <2>1. Sum(S) \in Nat /\ S \ {} = S
    BY <1>2
  <2> QED BY <1>3, <2>1
<1>5. ASSUME NEW B \in T, NEW x \in A \ B PROVE B \cup {x} \in T
  <2>1. (B \cup {x}) \ {x} = B /\ (S \ B) \ {x} = S \ (B \cup {x})
    OBVIOUS
  <2>2. B \in SUBSET S /\ B \cup {x} \in SUBSET S /\ S \ B \in SUBSET S
    OBVIOUS
  <2>3. S \ (B \cup {x}) \in SUBSET S /\ x \in B \cup {x} /\ x \in S \ B
    OBVIOUS
  <2>4. Sum(B \cup {x}) = f[x] + Sum(B)
    BY <1>2, <2>1, <2>2, <2>3
  <2>5. Sum(S \ B) = f[x] + Sum(S \ (B \cup {x}))
    BY <1>2, <2>1, <2>2, <2>3
  <2>6. Sum(B) \in Nat /\ Sum(S \ (B \cup {x})) \in Nat /\ f[x] \in Nat
    BY <1>2, <2>2, <2>3
  <2>7. Sum(S) = Sum(B) + Sum(S \ B)
    OBVIOUS
  <2>8. Sum(S) = Sum(B \cup {x}) + Sum(S \ (B \cup {x}))
    BY <2>4, <2>5, <2>6, <2>7
  <2> QED BY <2>8
<1>6. A \in T
  <2> HIDE DEF T
  <2>1. IsFiniteSet(A) /\ T \in SUBSET SUBSET A
    BY <1>1 DEF T
  <2> QED BY <1>4, <1>5, <2>1, SubsetsFrom
<1> QED BY <1>6 DEF Sum

(* Elements of which E make up s each: their sum is at least their number  *)
(* times s, divided by E.                                                  *)
LEMMA SumAtLeast ==
  ASSUME NEW S, IsFiniteSet(S), NEW f, NEW E \in Nat, NEW s \in Nat,
         \A x \in S : f[x] \in Nat /\ s <= E * f[x]
  PROVE  Cardinality(S) * s <= E * SumFunctionOnSet(f, S)
<1> DEFINE Sum(B) == SumFunctionOnSet(f, B)
           T == {B \in SUBSET S : Cardinality(B) * s <= E * Sum(B)}
<1>1. \A B \in SUBSET S : IsFiniteSet(B) /\ \A x \in B : f[x] \in Nat
  BY FS_Subset
<1>2. \A B \in SUBSET S : Sum(B) \in Nat /\ \A y \in B : Sum(B) = f[y] + Sum(B \ {y})
  BY <1>1, SumRules
<1>3. Sum({}) = 0
  BY SumRules
<1> HIDE DEF Sum
<1>4. {} \in T
  <2>1. Cardinality({}) = 0
    BY FS_EmptySet
  <2> QED BY <1>3, <2>1
<1>5. ASSUME NEW B \in T, NEW x \in S \ B PROVE B \cup {x} \in T
  <2>1. (B \cup {x}) \ {x} = B /\ B \cup {x} \in SUBSET S
    OBVIOUS
  <2>2. Sum(B \cup {x}) = f[x] + Sum(B)
    BY <1>2, <2>1
  <2>3. Cardinality(B \cup {x}) = Cardinality(B) + 1 /\ Cardinality(B) \in Nat
    <3>1. IsFiniteSet(B)
      BY <1>1
    <3> QED BY <3>1, FS_AddElement, FS_CardinalityType
  <2>4. ASSUME NEW c \in Nat, NEW v \in Nat, NEW w \in Nat,
               c * s <= E * v, s <= E * w
        PROVE  (c + 1) * s <= E * (w + v)
    <3>1. (c + 1) * s = c * s + s /\ E * (w + v) = E * w + E * v
      OBVIOUS
    <3>2. c * s \in Nat /\ E * w \in Nat /\ E * v \in Nat
      OBVIOUS
    <3> QED BY <2>4, <3>1, <3>2
  <2>5. Sum(B) \in Nat /\ f[x] \in Nat /\ s <= E * f[x]
    BY <1>2
  <2>6. Cardinality(B) * s <= E * Sum(B)
    OBVIOUS
  <2>7. (Cardinality(B) + 1) * s <= E * (f[x] + Sum(B))
    BY <2>3, <2>4, <2>5, <2>6
  <2> QED BY <2>1, <2>2, <2>3, <2>7
<1>6. S \in T
  <2> HIDE DEF T
  <2>1. T \in SUBSET SUBSET S
    BY DEF T
  <2> QED BY <1>4, <1>5, <2>1, SubsetsFrom
<1> QED BY <1>6 DEF Sum

(* The sum of a function when one value is replaced, or some are zeroed. *)
LEMMA SumReplaced ==
  ASSUME IsFiniteSet(MediaKeys), NEW f \in [MediaKeys -> Nat],
         NEW k \in MediaKeys, NEW s \in Nat
  PROVE  /\ SumFunction(f) \in Nat /\ f[k] <= SumFunction(f)
         /\ SumFunction([f EXCEPT ![k] = s]) = SumFunction(f) - f[k] + s
<1> DEFINE g == [f EXCEPT ![k] = s]
           rest == MediaKeys \ {k}
<1>1. g \in [MediaKeys -> Nat] /\ g[k] = s /\ \A x \in rest : g[x] = f[x]
  OBVIOUS
<1>2. SumFunction(f) = SumFunctionOnSet(f, MediaKeys)
  BY DEF SumFunction
<1>3. SumFunction(g) = SumFunctionOnSet(g, MediaKeys)
  BY DEF SumFunction
<1>4. IsFiniteSet(rest) /\ \A x \in rest : f[x] \in Nat
  BY FS_Subset
<1> HIDE DEF g
<1>5. SumFunctionOnSet(f, MediaKeys) = f[k] + SumFunctionOnSet(f, rest)
  BY SumRules
<1>6. SumFunctionOnSet(g, MediaKeys) = g[k] + SumFunctionOnSet(g, rest)
  BY <1>1, SumRules
<1>7. SumFunctionOnSet(g, rest) = SumFunctionOnSet(f, rest)
  BY <1>1, <1>4, SumSame
<1>8. SumFunctionOnSet(f, rest) \in Nat /\ f[k] \in Nat
  BY <1>4, SumRules
<1>9. SumFunction(g) = SumFunction(f) - f[k] + s
  BY <1>1, <1>2, <1>3, <1>5, <1>6, <1>7, <1>8
<1> QED BY <1>2, <1>5, <1>8, <1>9 DEF g

LEMMA SumZeroed ==
  ASSUME IsFiniteSet(MediaKeys), NEW f \in [MediaKeys -> Nat],
         NEW gone \in SUBSET MediaKeys
  PROVE  /\ SumFunctionOnSet(f, gone) \in Nat
         /\ SumFunctionOnSet(f, gone) <= SumFunction(f)
         /\ SumFunction([k \in MediaKeys |-> IF k \in gone THEN 0 ELSE f[k]])
              = SumFunction(f) - SumFunctionOnSet(f, gone)
<1> DEFINE g == [k \in MediaKeys |-> IF k \in gone THEN 0 ELSE f[k]]
           rest == MediaKeys \ gone
<1>1. /\ g \in [MediaKeys -> Nat]
      /\ \A x \in rest : g[x] = f[x]
      /\ \A x \in gone : g[x] = 0
  OBVIOUS
<1>2. SumFunction(f) = SumFunctionOnSet(f, MediaKeys)
  BY DEF SumFunction
<1>3. SumFunction(g) = SumFunctionOnSet(g, MediaKeys)
  BY DEF SumFunction
<1>4. /\ IsFiniteSet(rest) /\ \A x \in rest : f[x] \in Nat
      /\ IsFiniteSet(gone) /\ \A x \in gone : f[x] \in Nat
  BY FS_Subset
<1> HIDE DEF g
<1>5. SumFunctionOnSet(f, MediaKeys)
        = SumFunctionOnSet(f, gone) + SumFunctionOnSet(f, rest)
  BY SumSplit
<1>6. SumFunctionOnSet(g, MediaKeys)
        = SumFunctionOnSet(g, gone) + SumFunctionOnSet(g, rest)
  BY <1>1, SumSplit
<1>7. SumFunctionOnSet(g, rest) = SumFunctionOnSet(f, rest)
  BY <1>1, <1>4, SumSame
<1>8. SumFunctionOnSet(g, gone) = 0
  BY <1>1, <1>4, SumZero
<1>9. SumFunctionOnSet(f, rest) \in Nat /\ SumFunctionOnSet(f, gone) \in Nat
  BY <1>4, SumRules
<1>10. SumFunction(g) = SumFunction(f) - SumFunctionOnSet(f, gone)
  BY <1>2, <1>3, <1>5, <1>6, <1>7, <1>8, <1>9
<1> QED BY <1>2, <1>5, <1>9, <1>10 DEF g

-----------------------------------------------------------------------------
(* Lists of keys.                                                          *)

NoTwice(s) == \A i, j \in 1..Len(s) : s[i] = s[j] => i = j

KeepStep(g, s, K, i) ==
  IF i = 0 THEN << >>
  ELSE IF s[i] \in K THEN g[i - 1] ELSE Append(g[i - 1], s[i])

Kept(g, s, K, m) == \A i \in 0..m : g[i] = KeepStep(g, s, K, i)

IsKept(g, s, K, m) == g = [i \in 0..m |-> KeepStep(g, s, K, i)]

LEMMA KeptExists ==
  ASSUME NEW s, NEW K, NEW m \in Nat
  PROVE  \E g : IsKept(g, s, K, m)
<1> DEFINE Ns == {l \in Nat : \E g : Kept(g, s, K, l)}
<1>1. 0 \in Ns
  <2>1. Kept([i \in {0} |-> << >>], s, K, 0)
    BY DEF Kept, KeepStep
  <2> QED BY <2>1
<1>2. ASSUME NEW l \in Ns PROVE l + 1 \in Ns
  <2>1. PICK g : Kept(g, s, K, l)
    BY <1>2
  <2> DEFINE h == [i \in 0..(l + 1) |-> IF i <= l THEN g[i] ELSE KeepStep(g, s, K, i)]
  <2>2. ASSUME NEW i \in 0..(l + 1) PROVE h[i] = KeepStep(h, s, K, i)
    <3>1. i # 0 => i - 1 \in 0..l /\ h[i - 1] = g[i - 1]
      OBVIOUS
    <3>2. KeepStep(h, s, K, i) = KeepStep(g, s, K, i)
      BY <3>1 DEF KeepStep
    <3>3. h[i] = KeepStep(g, s, K, i)
      BY <2>1 DEF Kept
    <3> QED BY <3>2, <3>3
  <2>3. Kept(h, s, K, l + 1)
    BY <2>2 DEF Kept
  <2>4. \E gg : Kept(gg, s, K, l + 1)
    <3> HIDE DEF h
    <3> QED BY <2>3
  <2> QED BY <2>4
<1>3. Ns = Nat
  <2> HIDE DEF Ns
  <2>1. Ns \in SUBSET Nat
    BY DEF Ns
  <2> QED BY <1>1, <1>2, <2>1, NaturalsFrom
<1>4. PICK g : Kept(g, s, K, m)
  BY <1>3
<1> DEFINE h == [i \in 0..m |-> g[i]]
<1>5. \A i \in 0..m : KeepStep(h, s, K, i) = KeepStep(g, s, K, i)
  BY DEF KeepStep
<1>6. IsKept(h, s, K, m)
  BY <1>4, <1>5 DEF Kept, IsKept
<1> QED BY <1>6

LEMMA RetainIsKept ==
  ASSUME NEW S, NEW s \in Seq(S), NEW K
  PROVE  \E g : Kept(g, s, K, Len(s)) /\ retain(s, K) = g[Len(s)]
<1> DEFINE G == CHOOSE g : IsKept(g, s, K, Len(s))
<1>1. Len(s) \in Nat
  BY LenProperties
<1>2. IsKept(G, s, K, Len(s))
  BY <1>1, KeptExists
<1>3. retain(s, K) = G[Len(s)]
  BY DEF retain, KeepStep, IsKept
<1>4. ASSUME NEW h, IsKept(h, s, K, Len(s)) PROVE Kept(h, s, K, Len(s))
  <2> DEFINE F == [i \in 0..Len(s) |-> KeepStep(h, s, K, i)]
  <2>1. h = F /\ \A i \in 0..Len(s) : F[i] = KeepStep(h, s, K, i)
    BY <1>4 DEF IsKept
  <2> HIDE DEF F
  <2> QED BY <2>1 DEF Kept
<1> HIDE DEF G
<1> QED BY <1>2, <1>3, <1>4

LEMMA AppendRules ==
  ASSUME NEW S, NEW s \in Seq(S), NEW x \in S
  PROVE  /\ Append(s, x) \in Seq(S)
         /\ ToSet(Append(s, x)) = ToSet(s) \cup {x}
         /\ NoTwice(s) /\ x \notin ToSet(s) => NoTwice(Append(s, x))
<1> DEFINE a == Append(s, x)
<1>1. /\ Len(s) \in Nat /\ a \in Seq(S) /\ Len(a) = Len(s) + 1
      /\ \A i \in 1..Len(s) : a[i] = s[i]
      /\ a[Len(s) + 1] = x
  BY AppendProperties, LenProperties
<1>2. DOMAIN s = 1..Len(s) /\ DOMAIN a = 1..(Len(s) + 1)
  BY <1>1, LenProperties
<1> HIDE DEF a
<1>3. ToSet(a) = ToSet(s) \cup {x}
  <2>1. \A i \in 1..(Len(s) + 1) : i \in 1..Len(s) \/ i = Len(s) + 1
    BY <1>1
  <2>2. Len(s) + 1 \in 1..(Len(s) + 1) /\ 1..Len(s) \subseteq 1..(Len(s) + 1)
    BY <1>1
  <2> QED BY <1>1, <1>2, <2>1, <2>2 DEF ToSet
<1>4. ASSUME NoTwice(s), x \notin ToSet(s) PROVE NoTwice(a)
  <2>1. \A i \in 1..Len(s) : s[i] # x
    BY <1>2, <1>4 DEF ToSet
  <2>2. \A i \in 1..(Len(s) + 1) : i \in 1..Len(s) \/ i = Len(s) + 1
    BY <1>1
  <2> QED BY <1>1, <1>4, <2>1, <2>2 DEF NoTwice
<1> QED BY <1>1, <1>3, <1>4 DEF a

LEMMA FrontRules ==
  ASSUME NEW S, NEW s \in Seq(S), NEW x \in S
  PROVE  /\ <<x>> \o s \in Seq(S)
         /\ ToSet(<<x>> \o s) = {x} \cup ToSet(s)
         /\ NoTwice(s) /\ x \notin ToSet(s) => NoTwice(<<x>> \o s)
<1> DEFINE a == <<x>> \o s
<1>1. /\ Len(s) \in Nat /\ a \in Seq(S) /\ Len(a) = Len(s) + 1
      /\ a[1] = x
      /\ \A i \in 1..Len(s) : a[i + 1] = s[i]
  <2>1. Len(s) \in Nat /\ <<x>> \in Seq(S) /\ Len(<<x>>) = 1 /\ <<x>>[1] = x
    BY LenProperties
  <2>2. /\ a \in Seq(S) /\ Len(a) = 1 + Len(s)
        /\ \A i \in 1..(1 + Len(s)) : a[i] = IF i <= 1 THEN <<x>>[i] ELSE s[i - 1]
    BY <2>1, ConcatProperties
  <2> HIDE DEF a
  <2>3. ASSUME NEW i \in 1..Len(s) PROVE a[i + 1] = s[i]
    <3>1. i + 1 \in 1..(1 + Len(s)) /\ ~ (i + 1 <= 1) /\ (i + 1) - 1 = i
      BY <2>1
    <3> QED BY <2>2, <3>1
  <2>4. a[1] = x
    BY <2>1, <2>2
  <2> QED BY <2>1, <2>2, <2>3, <2>4
<1>2. DOMAIN s = 1..Len(s) /\ DOMAIN a = 1..(Len(s) + 1)
  BY <1>1, LenProperties
<1> HIDE DEF a
<1>3. /\ \A i \in 1..(Len(s) + 1) : i = 1 \/ (i - 1 \in 1..Len(s) /\ (i - 1) + 1 = i)
      /\ 1 \in 1..(Len(s) + 1) /\ \A i \in 1..Len(s) : i + 1 \in 1..(Len(s) + 1)
  BY <1>1
<1>4. \A i \in 1..(Len(s) + 1) : i = 1 \/ (i - 1 \in 1..Len(s) /\ a[i] = s[i - 1])
  BY <1>1, <1>3
<1>5. ToSet(a) = {x} \cup ToSet(s)
  <2>1. \A i \in DOMAIN a : a[i] = x \/ \E j \in DOMAIN s : a[i] = s[j]
    BY <1>1, <1>2, <1>4
  <2>2. \A j \in DOMAIN s : \E i \in DOMAIN a : a[i] = s[j]
    BY <1>1, <1>2, <1>3
  <2>3. \E i \in DOMAIN a : a[i] = x
    BY <1>1, <1>2, <1>3
  <2> QED BY <2>1, <2>2, <2>3 DEF ToSet
<1>6. ASSUME NoTwice(s), x \notin ToSet(s) PROVE NoTwice(a)
  <2>1. \A i \in 1..Len(s) : s[i] # x
    BY <1>2, <1>6 DEF ToSet
  <2> SUFFICES ASSUME NEW i \in 1..(Len(s) + 1), NEW j \in 1..(Len(s) + 1),
                      a[i] = a[j]
               PROVE  i = j
    BY <1>1 DEF NoTwice
  <2>2. CASE i = 1 \/ j = 1
    BY <1>1, <1>4, <2>1, <2>2
  <2>3. CASE i # 1 /\ j # 1
    <3>1. i - 1 \in 1..Len(s) /\ j - 1 \in 1..Len(s) /\ s[i - 1] = s[j - 1]
      BY <1>4, <2>3
    <3>2. i - 1 = j - 1
      BY <1>6, <3>1 DEF NoTwice
    <3> QED BY <1>1, <3>2
  <2> QED BY <2>2, <2>3
<1> QED BY <1>1, <1>5, <1>6 DEF a

(* retain takes out the keys in K and nothing else, and repeats none. *)
LEMMA RetainRules ==
  ASSUME NEW S, NEW s \in Seq(S), NEW K
  PROVE  /\ retain(s, K) \in Seq(S)
         /\ ToSet(retain(s, K)) = ToSet(s) \ K
         /\ NoTwice(s) => NoTwice(retain(s, K))
<1>1. PICK g : Kept(g, s, K, Len(s)) /\ retain(s, K) = g[Len(s)]
  BY RetainIsKept
<1>2. Len(s) \in Nat /\ DOMAIN s = 1..Len(s) /\ \A i \in 1..Len(s) : s[i] \in S
  BY LenProperties, ElementOfSeq
<1> DEFINE First(i) == {s[j] : j \in 1..i}
           Good(i) == /\ g[i] \in Seq(S)
                      /\ ToSet(g[i]) = First(i) \ K
                      /\ NoTwice(s) => NoTwice(g[i])
           Ns == {i \in Nat : i <= Len(s) => Good(i)}
<1>3. 0 \in Ns
  <2>1. g[0] = << >>
    BY <1>1, <1>2 DEF Kept, KeepStep
  <2>2. ToSet(<< >>) = {} /\ First(0) = {} /\ NoTwice(<< >>) /\ << >> \in Seq(S)
    BY DEF ToSet, NoTwice
  <2> QED BY <2>1, <2>2
<1>4. ASSUME NEW i \in Ns PROVE i + 1 \in Ns
  <2> SUFFICES ASSUME i + 1 <= Len(s) PROVE Good(i + 1)
    OBVIOUS
  <2> DEFINE x == s[i + 1]
  <2>1. i \in Nat /\ i + 1 \in 1..Len(s) /\ Good(i) /\ x \in S
    BY <1>2
  <2>2. First(i + 1) = First(i) \cup {x}
    <3>1. \A j \in 1..(i + 1) : j \in 1..i \/ j = i + 1
      BY <2>1
    <3>2. 1..i \subseteq 1..(i + 1) /\ i + 1 \in 1..(i + 1)
      BY <2>1
    <3> QED BY <3>1, <3>2
  <2>3. g[i + 1] = IF x \in K THEN g[i] ELSE Append(g[i], x)
    <3>1. i + 1 \in 0..Len(s) /\ i + 1 # 0 /\ (i + 1) - 1 = i
      BY <2>1
    <3> QED BY <1>1, <3>1 DEF Kept, KeepStep
  <2>4. NoTwice(s) => x \notin First(i)
    <3>1. \A j \in 1..i : j \in 1..Len(s) /\ j # i + 1
      BY <1>2, <2>1
    <3> QED BY <2>1, <3>1 DEF NoTwice
  <2> HIDE DEF First, x
  <2>5. CASE x \in K
    BY <2>1, <2>2, <2>3, <2>5
  <2>6. CASE x \notin K
    <3>1. /\ Append(g[i], x) \in Seq(S)
          /\ ToSet(Append(g[i], x)) = ToSet(g[i]) \cup {x}
          /\ NoTwice(g[i]) /\ x \notin ToSet(g[i]) => NoTwice(Append(g[i], x))
      BY <2>1, AppendRules
    <3> QED BY <2>1, <2>2, <2>3, <2>4, <2>6, <3>1
  <2> QED BY <2>5, <2>6
<1>5. Ns = Nat
  <2> HIDE DEF Ns
  <2>1. Ns \in SUBSET Nat
    BY DEF Ns
  <2> QED BY <1>3, <1>4, <2>1, NaturalsFrom
<1>6. Good(Len(s)) /\ First(Len(s)) = ToSet(s)
  BY <1>2, <1>5 DEF ToSet
<1> QED BY <1>1, <1>6

(* As many places of a list that repeats no key, as many keys. *)
LEMMA ImageSize ==
  ASSUME NEW S, IsFiniteSet(S), NEW s,
         \A i, j \in S : s[i] = s[j] => i = j
  PROVE  /\ IsFiniteSet({s[i] : i \in S})
         /\ Cardinality({s[i] : i \in S}) = Cardinality(S)
<1> DEFINE f == [i \in S |-> s[i]]
           T == {s[i] : i \in S}
<1>1. f \in [S -> T] /\ DOMAIN f = S /\ \A i \in S : f[i] = s[i]
  OBVIOUS
<1>2. \A t \in T : \E i \in S : f[i] = t
  OBVIOUS
<1> HIDE DEF f, T
<1>3. f \in Injection(S, T) /\ f \in Surjection(S, T)
  BY <1>1, <1>2 DEF Injection, Surjection, IsInjective
<1> QED BY <1>3, FS_Surjection DEF T

LEMMA ListSize ==
  ASSUME NEW S, NEW s \in Seq(S), NoTwice(s)
  PROVE  IsFiniteSet(ToSet(s)) /\ Cardinality(ToSet(s)) = Len(s)
<1>1. Len(s) \in Nat /\ DOMAIN s = 1..Len(s)
  BY LenProperties
<1>2. IsFiniteSet(1..Len(s)) /\ Cardinality(1..Len(s)) = Len(s)
  BY <1>1, FS_Interval
<1> QED BY <1>1, <1>2, ImageSize DEF NoTwice, ToSet

(* The victims are listed; they are all the keys, or EvictBatch of them. *)
LEMMA VictimsRules ==
  ASSUME MediaAssumption, order \in Seq(MediaKeys)
  PROVE  /\ KeysToEvict \subseteq ToSet(order) /\ ToSet(order) \subseteq MediaKeys
         /\ \/ KeysToEvict = ToSet(order)
            \/ NoTwice(order) => Cardinality(KeysToEvict) = EvictBatch
<1> DEFINE Places == {j \in 1..Len(order) : j > Len(order) - EvictBatch}
<1>1. /\ Len(order) \in Nat /\ EvictBatch \in Nat \ {0}
      /\ DOMAIN order = 1..Len(order)
      /\ \A i \in 1..Len(order) : order[i] \in MediaKeys
  BY LenProperties, ElementOfSeq DEF MediaAssumption
<1>2. KeysToEvict = {order[i] : i \in Places}
  BY DEF KeysToEvict
<1>3. KeysToEvict \subseteq ToSet(order) /\ ToSet(order) \subseteq MediaKeys
  BY <1>1, <1>2 DEF ToSet
<1>4. CASE Len(order) <= EvictBatch
  <2>1. Places = 1..Len(order)
    BY <1>1, <1>4
  <2> QED BY <1>1, <1>2, <1>3, <2>1 DEF ToSet
<1>5. CASE ~ (Len(order) <= EvictBatch) /\ NoTwice(order)
  <2>1. Places = (Len(order) - EvictBatch + 1)..Len(order)
    BY <1>1, <1>5
  <2>2. IsFiniteSet(Places) /\ Cardinality(Places) = EvictBatch
    <3> DEFINE a == Len(order) - EvictBatch + 1
               b == Len(order)
    <3>1. a \in Int /\ b \in Int /\ a <= b /\ b - a + 1 = EvictBatch
      BY <1>1, <1>5
    <3>2. Places = a..b
      BY <2>1
    <3> HIDE DEF a, b, Places
    <3> QED BY <3>1, <3>2, FS_Interval
  <2>3. \A i, j \in Places : order[i] = order[j] => i = j
    BY <1>5 DEF NoTwice
  <2> HIDE DEF Places
  <2>4. Cardinality(KeysToEvict) = EvictBatch
    BY <1>2, <2>2, <2>3, ImageSize
  <2> QED BY <1>3, <2>4
<1> QED BY <1>3, <1>4, <1>5

-----------------------------------------------------------------------------
(* The operations on the index.                                            *)

LEMMA SizesAreNat ==
  ASSUME MediaAssumption, NEW f \in [MediaKeys -> Sizes \cup {0}]
  PROVE  f \in [MediaKeys -> Nat] /\ \A k \in MediaKeys : f[k] # 0 => f[k] \in Sizes
<1>1. Sizes \cup {0} \subseteq Nat
  BY DEF MediaAssumption
<1>2. \A k \in MediaKeys : f[k] \in Sizes \cup {0}
  OBVIOUS
<1> QED BY <1>1, <1>2

IndexTyped ==
  order \in Seq(MediaKeys) /\ sizes \in [MediaKeys -> Sizes \cup {0}] /\ total \in Nat

LEMMA IndexTouchRules ==
  ASSUME IndexTyped, NEW k \in MediaKeys, IndexTouch(k)
  PROVE  /\ IndexTyped'
         /\ sizes' = sizes /\ total' = total
         /\ ToSet(order') = ToSet(order) \cup {k}
         /\ NoTwice(order) => NoTwice(order')
<1>1. /\ order \in Seq(MediaKeys)
      /\ order' = <<k>> \o retain(order, {k}) /\ sizes' = sizes /\ total' = total
  BY DEF IndexTyped, IndexTouch
<1>2. /\ retain(order, {k}) \in Seq(MediaKeys)
      /\ ToSet(retain(order, {k})) = ToSet(order) \ {k}
      /\ NoTwice(order) => NoTwice(retain(order, {k}))
  BY <1>1, RetainRules
<1>3. /\ order' \in Seq(MediaKeys)
      /\ ToSet(order') = {k} \cup (ToSet(order) \ {k})
      /\ NoTwice(order) => NoTwice(order')
  BY <1>1, <1>2, FrontRules
<1> QED BY <1>1, <1>3 DEF IndexTyped

LEMMA IndexInsertRules ==
  ASSUME MediaAssumption, IndexTyped, TotalIsSum,
         NEW k \in MediaKeys, NEW s \in Sizes, IndexInsert(k, s)
  PROVE  /\ IndexTyped' /\ TotalIsSum'
         /\ sizes' = [sizes EXCEPT ![k] = s]
         /\ total' <= total + s
         /\ ToSet(order') = ToSet(order) \cup {k}
         /\ NoTwice(order) /\ (sizes[k] = 0 => k \notin ToSet(order))
              => NoTwice(order')
<1> DEFINE rest == IF sizes[k] # 0 THEN retain(order, {k}) ELSE order
<1>1. /\ order \in Seq(MediaKeys) /\ sizes \in [MediaKeys -> Nat]
      /\ sizes[k] \in Nat /\ s \in Nat \ {0} /\ total \in Nat
      /\ sizes \in [MediaKeys -> Sizes \cup {0}]
  <2>1. sizes \in [MediaKeys -> Nat]
    BY SizesAreNat DEF IndexTyped
  <2> QED BY <2>1 DEF IndexTyped, MediaAssumption
<1>2. /\ order' = <<k>> \o rest
      /\ sizes' = [sizes EXCEPT ![k] = s]
      /\ total' = saturating_sub(total, sizes[k]) + s
  BY DEF IndexInsert
<1>3. /\ retain(order, {k}) \in Seq(MediaKeys)
      /\ ToSet(retain(order, {k})) = ToSet(order) \ {k}
      /\ NoTwice(order) => NoTwice(retain(order, {k}))
  BY <1>1, RetainRules
<1>4. /\ rest \in Seq(MediaKeys)
      /\ ToSet(rest) \cup {k} = ToSet(order) \cup {k}
      /\ NoTwice(order) => NoTwice(rest)
      /\ (sizes[k] = 0 => k \notin ToSet(order)) => k \notin ToSet(rest)
  BY <1>1, <1>3
<1> HIDE DEF rest
<1>5. /\ order' \in Seq(MediaKeys)
      /\ ToSet(order') = {k} \cup ToSet(rest)
      /\ NoTwice(rest) /\ k \notin ToSet(rest) => NoTwice(order')
  BY <1>2, <1>4, FrontRules
<1>6. /\ SumFunction(sizes) \in Nat /\ sizes[k] <= SumFunction(sizes)
      /\ SumFunction([sizes EXCEPT ![k] = s]) = SumFunction(sizes) - sizes[k] + s
  BY <1>1, SumReplaced DEF MediaAssumption
<1>7. total = SumFunction(sizes)
  BY DEF TotalIsSum
<1>8. total' = total - sizes[k] + s
  BY <1>1, <1>2, <1>6, <1>7 DEF saturating_sub
<1>9. TotalIsSum'
  BY <1>2, <1>6, <1>7, <1>8 DEF TotalIsSum
<1>10. sizes' \in [MediaKeys -> Sizes \cup {0}] /\ total' \in Nat /\ total' <= total + s
  BY <1>1, <1>2, <1>6, <1>7, <1>8
<1> QED BY <1>2, <1>4, <1>5, <1>9, <1>10 DEF IndexTyped

LEMMA IndexRemoveRules ==
  ASSUME MediaAssumption, IndexTyped, TotalIsSum,
         NEW K \in SUBSET MediaKeys, IndexRemove(K)
  PROVE  /\ IndexTyped' /\ TotalIsSum'
         /\ sizes' = [k \in MediaKeys |-> IF k \in K \cap Tracked THEN 0 ELSE sizes[k]]
         /\ total' = total - SumFunctionOnSet(sizes, K \cap Tracked)
         /\ SumFunctionOnSet(sizes, K \cap Tracked) \in Nat
         /\ ToSet(order') = ToSet(order) \ (K \cap Tracked)
         /\ NoTwice(order) => NoTwice(order')
<1> DEFINE gone == K \cap Tracked
           freed == SumFunctionOnSet(sizes, gone)
<1>1. /\ order \in Seq(MediaKeys) /\ sizes \in [MediaKeys -> Nat]
      /\ sizes \in [MediaKeys -> Sizes \cup {0}]
      /\ total \in Nat /\ gone \in SUBSET MediaKeys
  <2>1. sizes \in [MediaKeys -> Nat]
    BY SizesAreNat DEF IndexTyped
  <2> QED BY <2>1 DEF IndexTyped
<1>2. /\ order' = retain(order, gone)
      /\ sizes' = [k \in MediaKeys |-> IF k \in gone THEN 0 ELSE sizes[k]]
      /\ total' = saturating_sub(total, freed)
  BY DEF IndexRemove
<1> HIDE DEF gone
<1>3. /\ order' \in Seq(MediaKeys)
      /\ ToSet(order') = ToSet(order) \ gone
      /\ NoTwice(order) => NoTwice(order')
  BY <1>1, <1>2, RetainRules
<1>4. /\ freed \in Nat /\ freed <= SumFunction(sizes)
      /\ SumFunction(sizes') = SumFunction(sizes) - freed
  BY <1>1, <1>2, SumZeroed DEF MediaAssumption
<1>5. total = SumFunction(sizes)
  BY DEF TotalIsSum
<1> HIDE DEF freed
<1>6. total' = total - freed /\ total' \in Nat
  BY <1>1, <1>2, <1>4, <1>5 DEF saturating_sub
<1>7. TotalIsSum'
  BY <1>4, <1>5, <1>6 DEF TotalIsSum
<1>8. sizes' \in [MediaKeys -> Sizes \cup {0}]
  BY <1>1, <1>2
<1> QED BY <1>2, <1>3, <1>4, <1>6, <1>7, <1>8 DEF IndexTyped, gone, freed

LEMMA IndexClearRules ==
  ASSUME MediaAssumption, IndexClear
  PROVE  /\ IndexTyped' /\ TotalIsSum'
         /\ sizes' = [k \in MediaKeys |-> 0]
         /\ total' = 0 /\ order' = << >> /\ ToSet(order') = {} /\ NoTwice(order')
<1>1. sizes' = [k \in MediaKeys |-> 0] /\ total' = 0 /\ order' = << >>
  BY DEF IndexClear
<1>2. SumFunctionOnSet(sizes', MediaKeys) = 0
  BY <1>1, SumZero DEF MediaAssumption
<1>3. SumFunction(sizes') = 0
  BY <1>1, <1>2 DEF SumFunction
<1>4. ToSet(<< >>) = {} /\ NoTwice(<< >>) /\ << >> \in Seq(MediaKeys)
  BY DEF ToSet, NoTwice
<1> QED BY <1>1, <1>3, <1>4 DEF IndexTyped, TotalIsSum

-----------------------------------------------------------------------------
(* Types, the total and the order: what holds however calls overlap.       *)

(* A call under way has a key of the cache; one that puts has a size. *)
CallsOK ==
  \A t \in Threads :
    /\ pc[t] \in {"touch", "index"} => key[t] \in MediaKeys
    /\ pc[t] \in {"index", "enforce", "choose", "delete", "forget"} =>
         size[t] \in Sizes

CallsTyped ==
  /\ pc \in [Threads -> {"idle", "touch", "index", "enforce", "choose",
                         "delete", "forget", "wipe"}]
  /\ key \in [Threads -> MediaKeys \cup {NoKey}]
  /\ size \in [Threads -> Sizes \cup {0}]
  /\ victims \in [Threads -> SUBSET MediaKeys]
  /\ CallsOK

RestTyped ==
  /\ table \in [MediaKeys -> Sizes \cup {0}]
  /\ puts \in 0..MaxPuts /\ restarts \in 0..MaxRestarts
  /\ overlapped \in BOOLEAN /\ failed \in BOOLEAN

IndexOK == IndexTyped /\ TotalIsSum /\ TrackedIsListed

Basic == CallsTyped /\ RestTyped /\ IndexOK

LEMMA BasicTypes == Basic => TypeOK
BY DEF Basic, CallsTyped, RestTyped, IndexOK, IndexTyped, TypeOK

LEMMA ReturnTyped ==
  ASSUME CallsTyped, NEW t \in Threads, Return(t)
  PROVE  CallsTyped'
BY DEF CallsTyped, CallsOK, Return, Goto

LEMMA BasicInit == MediaAssumption /\ Init => Basic
<1> SUFFICES ASSUME MediaAssumption, Init PROVE Basic
  OBVIOUS
<1>1. SumFunctionOnSet(sizes, MediaKeys) = 0
  BY SumZero DEF MediaAssumption, Init
<1>2. SumFunction(sizes) = 0
  BY <1>1 DEF SumFunction, Init
<1>3. IndexOK
  BY <1>2 DEF IndexOK, IndexTyped, TotalIsSum, TrackedIsListed, Tracked, Init
<1>4. CallsTyped
  BY DEF CallsTyped, CallsOK, Init
<1>5. RestTyped
  <2>1. 0 \in 0..MaxPuts /\ 0 \in 0..MaxRestarts
    BY DEF MediaAssumption
  <2>2. table \in [MediaKeys -> Sizes \cup {0}]
    BY DEF Init
  <2> QED BY <2>1, <2>2 DEF RestTyped, Init
<1> QED BY <1>3, <1>4, <1>5 DEF Basic

LEMMA IndexOKKept ==
  ASSUME IndexOK, UNCHANGED index
  PROVE  IndexOK'
BY DEF IndexOK, IndexTyped, TotalIsSum, TrackedIsListed, Tracked, index

LEMMA BasicStep ==
  ASSUME MediaAssumption, Basic, NEW t \in Threads, Step(t)
  PROVE  Basic'
<1> USE DEF Basic
<1>1. Sizes \subseteq Nat \ {0}
  BY DEF MediaAssumption
<1>2. ASSUME NEW k \in MediaKeys, Get(t, k) PROVE Basic'
  <2>1. IndexOK'
    BY <1>2, IndexOKKept DEF Get
  <2>2. CallsTyped'
    BY <1>2 DEF CallsTyped, CallsOK, Get, Begin, Goto
  <2>3. RestTyped'
    BY <1>2 DEF RestTyped, Get, Begin
  <2> QED BY <2>1, <2>2, <2>3
<1>3. ASSUME NEW k \in MediaKeys, NEW s \in Sizes, Put(t, k, s) PROVE Basic'
  <2>1. IndexOK'
    BY <1>3, IndexOKKept DEF Put
  <2>2. CallsTyped'
    BY <1>3 DEF CallsTyped, CallsOK, Put, Begin, Goto
  <2>3. RestTyped'
    BY <1>3 DEF RestTyped, Put, Begin, MediaAssumption
  <2> QED BY <2>1, <2>2, <2>3
<1>4. CASE Touch(t)
  <2>1. key[t] \in MediaKeys /\ IndexTouch(key[t]) /\ IndexTyped
    BY <1>4 DEF Touch, CallsTyped, CallsOK, IndexOK
  <2>2. /\ IndexTyped' /\ sizes' = sizes /\ total' = total
        /\ ToSet(order') = ToSet(order) \cup {key[t]}
    BY <2>1, IndexTouchRules
  <2>3. IndexOK'
    BY <2>2 DEF IndexOK, TotalIsSum, TrackedIsListed, Tracked
  <2>4. CallsTyped'
    BY <1>4, ReturnTyped DEF Touch
  <2>5. RestTyped'
    BY <1>4 DEF RestTyped, Touch, bounds
  <2> QED BY <2>3, <2>4, <2>5
<1>5. CASE Index(t)
  <2>1. /\ key[t] \in MediaKeys /\ size[t] \in Sizes /\ IndexInsert(key[t], size[t])
        /\ IndexTyped /\ TotalIsSum
    BY <1>5 DEF Index, CallsTyped, CallsOK, IndexOK
  <2>2. /\ IndexTyped' /\ TotalIsSum'
        /\ sizes' = [sizes EXCEPT ![key[t]] = size[t]]
        /\ ToSet(order') = ToSet(order) \cup {key[t]}
    BY <2>1, IndexInsertRules
  <2>3. TrackedIsListed'
    BY <2>1, <2>2 DEF IndexOK, IndexTyped, TrackedIsListed, Tracked
  <2>4. CallsTyped'
    BY <1>5 DEF CallsTyped, CallsOK, Index, Goto
  <2>5. RestTyped'
    BY <1>5 DEF RestTyped, Index, bounds
  <2> QED BY <2>2, <2>3, <2>4, <2>5 DEF IndexOK
<1>6. CASE WithinBudget(t)
  BY <1>6, ReturnTyped, IndexOKKept DEF WithinBudget, RestTyped, bounds
<1>7. CASE OverBudget(t)
  <2>1. CallsTyped'
    BY <1>7 DEF CallsTyped, CallsOK, OverBudget, Goto
  <2> QED BY <1>7, <2>1, IndexOKKept DEF OverBudget, RestTyped, bounds
<1>8. CASE Choose(t)
  <2>1. KeysToEvict \in SUBSET MediaKeys
    BY VictimsRules DEF IndexOK, IndexTyped
  <2>2. CASE order = << >>
    BY <1>8, <2>2, ReturnTyped, IndexOKKept DEF Choose, RestTyped, bounds
  <2>3. CASE order # << >>
    <3>1. CallsTyped'
      BY <1>8, <2>1, <2>3 DEF CallsTyped, CallsOK, Choose, Goto
    <3> QED BY <1>8, <3>1, IndexOKKept DEF Choose, RestTyped, bounds
  <2> QED BY <2>2, <2>3
<1>9. CASE Delete(t)
  <2>1. IndexOK'
    BY <1>9, IndexOKKept DEF Delete
  <2>2. CallsTyped'
    BY <1>9 DEF CallsTyped, CallsOK, Delete, Goto
  <2>3. RestTyped'
    BY <1>9 DEF RestTyped, Delete, bounds
  <2> QED BY <2>1, <2>2, <2>3
<1>10. CASE DeleteFails(t)
  BY <1>10, ReturnTyped, IndexOKKept DEF DeleteFails, RestTyped
<1>11. CASE Forget(t)
  <2>1. /\ victims[t] \in SUBSET MediaKeys /\ IndexRemove(victims[t])
        /\ IndexTyped /\ TotalIsSum
    BY <1>11 DEF Forget, CallsTyped, IndexOK
  <2> DEFINE gone == victims[t] \cap Tracked
  <2>2. /\ IndexTyped' /\ TotalIsSum'
        /\ sizes' = [k \in MediaKeys |-> IF k \in gone THEN 0 ELSE sizes[k]]
        /\ ToSet(order') = ToSet(order) \ gone
    BY <2>1, IndexRemoveRules
  <2> HIDE DEF gone
  <2>3. TrackedIsListed'
    BY <2>2 DEF IndexOK, TrackedIsListed, Tracked
  <2>4. CallsTyped'
    BY <1>11, ReturnTyped DEF Forget
  <2>5. RestTyped'
    BY <1>11 DEF RestTyped, Forget, bounds
  <2> QED BY <2>2, <2>3, <2>4, <2>5 DEF IndexOK
<1>12. CASE Clear(t)
  <2>1. IndexOK'
    BY <1>12, IndexOKKept DEF Clear
  <2>2. CallsTyped'
    BY <1>12 DEF CallsTyped, CallsOK, Clear, Begin, Goto
  <2>3. RestTyped'
    BY <1>12 DEF RestTyped, Clear, Begin
  <2> QED BY <2>1, <2>2, <2>3
<1>13. CASE Wipe(t)
  <2>1. IndexTyped' /\ TotalIsSum' /\ sizes' = [k \in MediaKeys |-> 0]
    BY <1>13, IndexClearRules DEF Wipe
  <2>2. IndexOK'
    BY <2>1 DEF IndexOK, TrackedIsListed, Tracked
  <2>3. CallsTyped'
    BY <1>13, ReturnTyped DEF Wipe
  <2>4. RestTyped'
    BY <1>13 DEF RestTyped, Wipe, bounds
  <2> QED BY <2>2, <2>3, <2>4
<1> QED BY <1>2, <1>3, <1>4, <1>5, <1>6, <1>7, <1>8, <1>9, <1>10, <1>11,
           <1>12, <1>13 DEF Step

LEMMA BasicRestart ==
  ASSUME MediaAssumption, Basic, Restart
  PROVE  Basic'
<1>1. IndexTyped' /\ TotalIsSum' /\ sizes' = [k \in MediaKeys |-> 0]
  BY IndexClearRules DEF Restart
<1>2. IndexOK'
  BY <1>1 DEF IndexOK, TrackedIsListed, Tracked
<1>3. CallsTyped'
  BY DEF CallsTyped, CallsOK, Restart
<1>4. RestTyped'
  <2>1. RestTyped /\ table' = table /\ puts' = puts
    BY DEF Basic, Restart
  <2>2. restarts' \in 0..MaxRestarts
    BY <2>1 DEF RestTyped, Restart, MediaAssumption
  <2>3. overlapped' = FALSE /\ failed' = FALSE
    BY DEF Restart
  <2> QED BY <2>1, <2>2, <2>3 DEF RestTyped
<1> QED BY <1>2, <1>3, <1>4 DEF Basic

LEMMA BasicKept ==
  ASSUME MediaAssumption, Basic, UNCHANGED vars
  PROVE  Basic'
<1>1. IndexOK'
  BY IndexOKKept DEF Basic, vars, index
<1> QED BY <1>1 DEF Basic, CallsTyped, CallsOK, RestTyped, vars

LEMMA BasicHolds == Spec => []Basic
<1>1. Init => Basic
  BY BasicInit, MediaAssumption
<1>2. Basic /\ [Next]_vars => Basic'
  BY BasicStep, BasicRestart, BasicKept, MediaAssumption DEF Next
<1> QED BY <1>1, <1>2, PTL DEF Spec

(* Every variable has its type. *)
THEOREM TypeCorrect == Spec => []TypeOK
BY BasicHolds, BasicTypes, PTL

(* However calls interleave, and wherever evictions fail or the process    *)
(* stops, LruIndex's total is the sum of the sizes it tracks: insert takes *)
(* the old size off before it adds the new one, remove takes off each size *)
(* once, and the saturating subtractions never saturate.                   *)
THEOREM TotalCorrect == Spec => []TotalIsSum
<1>1. Basic => TotalIsSum
  BY DEF Basic, IndexOK
<1> QED BY <1>1, BasicHolds, PTL

(* However calls interleave, a tracked entry is in the order, from which   *)
(* keys_to_evict takes its victims: no entry escapes eviction for ever.    *)
THEOREM ListedCorrect == Spec => []TrackedIsListed
<1>1. Basic => TrackedIsListed
  BY DEF Basic, IndexOK
<1> QED BY <1>1, BasicHolds, PTL

-----------------------------------------------------------------------------
(* The index and the table, while calls do not overlap.                    *)

(* Of such calls one is under way at most. *)
OneAtATime ==
  \A t, u \in Threads : pc[t] # "idle" /\ pc[u] # "idle" => t = u

(* The keys whose index entry a call has yet to bring up to the table. *)
Behind(t) ==
  {k \in MediaKeys : \/ pc[t] = "index" /\ k = key[t]
                     \/ pc[t] = "forget" /\ k \in victims[t]
                     \/ pc[t] = "wipe"}

(* Between its transaction and its update of the index a call knows what   *)
(* the table holds.                                                        *)
KnowsTable(t) ==
  /\ pc[t] = "touch" => table[key[t]] # 0
  /\ pc[t] = "index" => table[key[t]] = size[t]
  /\ pc[t] = "forget" => \A k \in victims[t] : table[k] = 0
  /\ pc[t] = "wipe" => \A k \in MediaKeys : table[k] = 0

(* All other keys are tracked as the table has them, if at all. *)
Matches(k) ==
  /\ sizes[k] # 0 => table[k] = sizes[k]
  /\ restarts = 0 => sizes[k] = table[k]

ListedOnce == ToSet(order) = Tracked /\ NoTwice(order)

Mirrored ==
  /\ OneAtATime
  /\ \A t \in Threads : KnowsTable(t)
  /\ \A k \in MediaKeys : (\A t \in Threads : k \notin Behind(t)) => Matches(k)
  /\ restarts = 0 => ListedOnce

Mirror == ~overlapped => Mirrored

LEMMA MirrorInit == MediaAssumption /\ Init => Mirror
<1> SUFFICES ASSUME MediaAssumption, Init PROVE Mirrored
  BY DEF Mirror
<1>1. ToSet(<< >>) = {} /\ NoTwice(<< >>)
  BY DEF ToSet, NoTwice
<1> QED BY <1>1 DEF Mirrored, OneAtATime, KnowsTable, Matches, ListedOnce,
                    Tracked, Init

(* A step after which no calls have overlapped is one of a lone call. *)
LEMMA OthersIdle ==
  ASSUME Basic, Mirror, NEW t \in Threads, Step(t), ~overlapped'
  PROVE  /\ Mirrored
         /\ \A u \in Threads \ {t} : pc[u] = "idle" /\ pc'[u] = "idle"
<1> DEFINE Moves == \E l : pc' = [pc EXCEPT ![t] = l]
           Begins == /\ pc[t] = "idle"
                     /\ overlapped' = (overlapped \/ \E u \in Threads \ {t} : pc[u] # "idle")
           GoesOn == pc[t] # "idle" /\ overlapped' = overlapped
<1>1. ASSUME NEW k \in MediaKeys, Get(t, k) PROVE Moves /\ Begins
  BY <1>1 DEF Get, Begin, Goto
<1>2. ASSUME NEW k \in MediaKeys, NEW s \in Sizes, Put(t, k, s) PROVE Moves /\ Begins
  BY <1>2 DEF Put, Begin, Goto
<1>3. ASSUME Clear(t) PROVE Moves /\ Begins
  BY <1>3 DEF Clear, Begin, Goto
<1>4. ASSUME Touch(t) \/ Wipe(t) \/ Forget(t) \/ WithinBudget(t)
      PROVE  Moves /\ GoesOn
  BY <1>4 DEF Touch, Wipe, Forget, WithinBudget, Return, Goto, bounds
<1>5. ASSUME Index(t) \/ OverBudget(t) \/ Delete(t) PROVE Moves /\ GoesOn
  BY <1>5 DEF Index, OverBudget, Delete, Goto, bounds
<1>6. ASSUME Choose(t) PROVE Moves /\ GoesOn
  BY <1>6 DEF Choose, Return, Goto, bounds
<1>7. ASSUME DeleteFails(t) PROVE Moves /\ GoesOn
  BY <1>7 DEF DeleteFails, Return, Goto
<1>8. Moves /\ (Begins \/ GoesOn)
  <2> HIDE DEF Moves, Begins, GoesOn
  <2> QED BY <1>1, <1>2, <1>3, <1>4, <1>5, <1>6, <1>7 DEF Step
<1>9. ~overlapped
  BY <1>8
<1>10. Mirrored
  BY <1>9 DEF Mirror
<1>11. \A u \in Threads \ {t} : pc[u] = "idle"
  <2>1. CASE Begins
    BY <2>1
  <2>2. CASE GoesOn
    BY <2>2, <1>10 DEF Mirrored, OneAtATime
  <2> QED BY <1>8, <2>1, <2>2
<1> QED BY <1>8, <1>10, <1>11 DEF Basic, CallsTyped

LEMMA LoneCall ==
  ASSUME NEW t \in Threads, Mirrored,
         \A u \in Threads \ {t} : pc[u] = "idle" /\ pc'[u] = "idle"
  PROVE  /\ \A k \in MediaKeys : k \notin Behind(t) => Matches(k)
         /\ /\ KnowsTable(t)'
            /\ \A k \in MediaKeys : k \notin Behind(t)' => Matches(k)'
            /\ restarts' = 0 => ListedOnce'
            => Mirrored'
<1>1. \A u \in Threads \ {t} : Behind(u) = {}
  BY DEF Behind
<1>2. ASSUME NEW k \in MediaKeys, k \notin Behind(t) PROVE Matches(k)
  BY <1>1, <1>2 DEF Mirrored
<1>3. ASSUME KnowsTable(t)',
             \A k \in MediaKeys : k \notin Behind(t)' => Matches(k)',
             restarts' = 0 => ListedOnce'
      PROVE  Mirrored'
  <2>1. OneAtATime'
    BY DEF OneAtATime
  <2>2. \A u \in Threads : KnowsTable(u)'
    BY <1>3 DEF KnowsTable
  <2> QED BY <1>3, <2>1, <2>2 DEF Mirrored
<1> QED BY <1>2, <1>3

LEMMA MirrorStep ==
  ASSUME MediaAssumption, Basic, Basic', Mirror, NEW t \in Threads, Step(t)
  PROVE  Mirror'
<1> SUFFICES ASSUME ~overlapped' PROVE Mirrored'
  BY DEF Mirror
<1>1. /\ Mirrored
      /\ \A u \in Threads \ {t} : pc[u] = "idle" /\ pc'[u] = "idle"
  BY OthersIdle
<1>2. \A k \in MediaKeys : k \notin Behind(t) => Matches(k)
  BY <1>1, LoneCall
<1>3. KnowsTable(t) /\ (restarts = 0 => ListedOnce)
  BY <1>1 DEF Mirrored
<1>4. SUFFICES /\ KnowsTable(t)'
               /\ \A k \in MediaKeys : k \notin Behind(t)' => Matches(k)'
               /\ restarts' = 0 => ListedOnce'
  BY <1>1, LoneCall
<1>5. /\ table \in [MediaKeys -> Sizes \cup {0}] /\ Sizes \subseteq Nat \ {0}
      /\ sizes \in [MediaKeys -> Sizes \cup {0}] /\ order \in Seq(MediaKeys)
      /\ IndexTyped /\ TotalIsSum /\ CallsTyped /\ CallsTyped' /\ CallsOK
      /\ pc[t] # "idle" => t \in Threads
  BY DEF Basic, RestTyped, IndexOK, IndexTyped, CallsTyped, MediaAssumption
<1> DEFINE Goal == /\ KnowsTable(t)'
                   /\ \A k \in MediaKeys : k \notin Behind(t)' => Matches(k)'
                   /\ restarts' = 0 => ListedOnce'
<1> SUFFICES Goal
  OBVIOUS
<1>6. ASSUME UNCHANGED <<sizes, order, restarts>>, restarts = 0 PROVE ListedOnce'
  BY <1>3, <1>6 DEF ListedOnce, Tracked
<1>7. ASSUME NEW k \in MediaKeys, Get(t, k) PROVE Goal
  <2>1. /\ pc[t] = "idle" /\ pc'[t] = "touch" /\ key'[t] = k /\ table[k] # 0
        /\ table' = table /\ sizes' = sizes /\ order' = order /\ restarts' = restarts
    BY <1>5, <1>7 DEF Get, Begin, Goto, index, CallsTyped
  <2> QED BY <1>2, <1>6, <2>1 DEF KnowsTable, Behind, Matches
<1>8. ASSUME NEW k \in MediaKeys, NEW s \in Sizes, Put(t, k, s) PROVE Goal
  <2>1. /\ pc[t] = "idle" /\ pc'[t] = "index" /\ key'[t] = k /\ size'[t] = s
        /\ table' = [table EXCEPT ![k] = s]
        /\ sizes' = sizes /\ order' = order /\ restarts' = restarts
    BY <1>5, <1>8 DEF Put, Begin, Goto, index, CallsTyped
  <2> QED BY <1>2, <1>5, <1>6, <2>1 DEF KnowsTable, Behind, Matches
<1>9. ASSUME Touch(t) PROVE Goal
  <2>1. /\ pc[t] = "touch" /\ pc'[t] = "idle" /\ key[t] \in MediaKeys
        /\ IndexTouch(key[t]) /\ table' = table /\ restarts' = restarts
    BY <1>5, <1>9 DEF Touch, Return, Goto, bounds, CallsTyped, CallsOK
  <2>2. /\ sizes' = sizes
        /\ ToSet(order') = ToSet(order) \cup {key[t]}
        /\ NoTwice(order) => NoTwice(order')
    BY <1>5, <2>1, IndexTouchRules
  <2>3. restarts = 0 => key[t] \in Tracked
    BY <1>2, <1>3, <2>1 DEF Behind, Matches, KnowsTable, Tracked
  <2>4. restarts = 0 => ListedOnce'
    BY <1>3, <2>2, <2>3 DEF ListedOnce, Tracked
  <2> QED BY <1>2, <2>1, <2>2, <2>4 DEF KnowsTable, Behind, Matches
<1>10. ASSUME Index(t) PROVE Goal
  <2>1. /\ pc[t] = "index" /\ pc'[t] = "enforce"
        /\ key[t] \in MediaKeys /\ size[t] \in Sizes
        /\ IndexInsert(key[t], size[t]) /\ table' = table /\ restarts' = restarts
    BY <1>5, <1>10 DEF Index, Goto, bounds, CallsTyped, CallsOK
  <2>2. /\ sizes' = [sizes EXCEPT ![key[t]] = size[t]]
        /\ ToSet(order') = ToSet(order) \cup {key[t]}
        /\ NoTwice(order) /\ (sizes[key[t]] = 0 => key[t] \notin ToSet(order))
             => NoTwice(order')
    BY <1>5, <2>1, IndexInsertRules
  <2>3. restarts = 0 => ListedOnce'
    <3>1. Tracked' = Tracked \cup {key[t]}
      BY <1>5, <2>1, <2>2 DEF Tracked
    <3> QED BY <1>3, <2>2, <3>1 DEF ListedOnce, Tracked
  <2> QED BY <1>2, <1>3, <1>5, <2>1, <2>2, <2>3 DEF KnowsTable, Behind, Matches
<1>11. ASSUME WithinBudget(t) \/ OverBudget(t) \/ Choose(t) \/ DeleteFails(t)
       PROVE  Goal
  <2>1. /\ pc[t] \in {"enforce", "choose", "delete"}
        /\ pc'[t] \in {"idle", "choose", "delete"}
        /\ table' = table /\ sizes' = sizes /\ order' = order /\ restarts' = restarts
    BY <1>5, <1>11 DEF WithinBudget, OverBudget, Choose, DeleteFails, Return, Goto,
                       index, bounds, CallsTyped
  <2> QED BY <1>2, <1>6, <2>1 DEF KnowsTable, Behind, Matches
<1>12. ASSUME Delete(t) PROVE Goal
  <2>1. /\ pc[t] = "delete" /\ pc'[t] = "forget" /\ victims' = victims
        /\ table' = [k \in MediaKeys |-> IF k \in victims[t] THEN 0 ELSE table[k]]
        /\ sizes' = sizes /\ order' = order /\ restarts' = restarts
        /\ victims[t] \in SUBSET MediaKeys
    BY <1>5, <1>12 DEF Delete, Goto, index, bounds, CallsTyped
  <2> QED BY <1>2, <1>6, <2>1 DEF KnowsTable, Behind, Matches
<1>13. ASSUME Forget(t) PROVE Goal
  <2>1. /\ pc[t] = "forget" /\ pc'[t] = "idle" /\ victims[t] \in SUBSET MediaKeys
        /\ IndexRemove(victims[t]) /\ table' = table /\ restarts' = restarts
    BY <1>5, <1>13 DEF Forget, Return, Goto, bounds, CallsTyped
  <2> DEFINE gone == victims[t] \cap Tracked
  <2>2. /\ sizes' = [k \in MediaKeys |-> IF k \in gone THEN 0 ELSE sizes[k]]
        /\ ToSet(order') = ToSet(order) \ gone
        /\ NoTwice(order) => NoTwice(order')
    BY <1>5, <2>1, IndexRemoveRules
  <2>3. Tracked' = Tracked \ gone
    BY <2>2 DEF Tracked
  <2>4. restarts = 0 => ListedOnce'
    BY <1>3, <2>2, <2>3 DEF ListedOnce
  <2>5. ASSUME NEW k \in MediaKeys PROVE Matches(k)'
    <3>1. CASE k \in victims[t]
      <4>1. table[k] = 0 /\ sizes'[k] = 0
        BY <1>3, <2>1, <2>2, <3>1 DEF KnowsTable, Tracked
      <4> QED BY <2>1, <4>1 DEF Matches
    <3>2. CASE k \notin victims[t]
      <4>1. Matches(k) /\ sizes'[k] = sizes[k]
        BY <1>2, <2>1, <2>2, <3>2 DEF Behind
      <4> QED BY <2>1, <4>1 DEF Matches
    <3> QED BY <3>1, <3>2
  <2> QED BY <2>1, <2>4, <2>5 DEF KnowsTable
<1>14. ASSUME Clear(t) PROVE Goal
  <2>1. /\ pc[t] = "idle" /\ pc'[t] = "wipe"
        /\ table' = [k \in MediaKeys |-> 0]
        /\ sizes' = sizes /\ order' = order /\ restarts' = restarts
    BY <1>5, <1>14 DEF Clear, Begin, Goto, index, CallsTyped
  <2> QED BY <1>6, <2>1 DEF KnowsTable, Behind
<1>15. ASSUME Wipe(t) PROVE Goal
  <2>1. /\ pc[t] = "wipe" /\ pc'[t] = "idle" /\ IndexClear
        /\ table' = table /\ restarts' = restarts
    BY <1>5, <1>15 DEF Wipe, Return, Goto, bounds, CallsTyped
  <2>2. /\ sizes' = [k \in MediaKeys |-> 0] /\ ToSet(order') = {} /\ NoTwice(order')
    BY <2>1, IndexClearRules
  <2>3. ListedOnce'
    BY <2>2 DEF ListedOnce, Tracked
  <2> QED BY <1>3, <2>1, <2>2, <2>3 DEF KnowsTable, Behind, Matches
<1> HIDE DEF Goal
<1> QED BY <1>7, <1>8, <1>9, <1>10, <1>11, <1>12, <1>13, <1>14, <1>15 DEF Step

LEMMA MirrorRestart ==
  ASSUME Basic, Restart
  PROVE  Mirror'
<1>1. /\ pc' = [t \in Threads |-> "idle"] /\ sizes' = [k \in MediaKeys |-> 0]
      /\ restarts' = restarts + 1 /\ restarts \in Nat
  BY DEF Restart, IndexClear, Basic, RestTyped
<1>2. Mirrored'
  BY <1>1 DEF Mirrored, OneAtATime, KnowsTable, Matches
<1> QED BY <1>2 DEF Mirror

LEMMA MirrorKept == Mirror /\ UNCHANGED vars => Mirror'
BY DEF Mirror, Mirrored, OneAtATime, KnowsTable, Matches, Behind, ListedOnce,
       Tracked, vars

LEMMA MirrorHolds == Spec => [](Basic /\ Mirror)
<1>1. Init => Basic /\ Mirror
  BY BasicInit, MirrorInit, MediaAssumption
<1>2. Basic /\ Mirror /\ [Next]_vars => (Basic /\ Mirror)'
  <2> SUFFICES ASSUME Basic, Mirror, [Next]_vars PROVE Basic' /\ Mirror'
    OBVIOUS
  <2>1. CASE UNCHANGED vars
    BY <2>1, BasicKept, MirrorKept, MediaAssumption
  <2>2. CASE Restart
    BY <2>2, BasicRestart, MirrorRestart, MediaAssumption
  <2>3. ASSUME NEW t \in Threads, Step(t) PROVE Basic' /\ Mirror'
    <3>1. Basic'
      BY <2>3, BasicStep, MediaAssumption
    <3> QED BY <2>3, <3>1, MirrorStep, MediaAssumption
  <2> QED BY <2>1, <2>2, <2>3 DEF Next
<1> QED BY <1>1, <1>2, PTL DEF Spec

LEMMA MirrorImplies == Basic /\ Mirror => IndexMirrorsTable
<1> SUFFICES ASSUME Basic, Mirror, AtRest, ~overlapped
             PROVE  /\ \A k \in Tracked : table[k] = sizes[k]
                    /\ restarts = 0 => /\ sizes = table
                                       /\ ToSet(order) = Stored
                                       /\ Len(order) = Cardinality(Stored)
  BY DEF IndexMirrorsTable
<1>1. \A k \in MediaKeys : Matches(k)
  <2>1. \A t \in Threads : Behind(t) = {}
    BY DEF AtRest, Behind
  <2> QED BY <2>1 DEF Mirror, Mirrored
<1>2. \A k \in Tracked : table[k] = sizes[k]
  BY <1>1 DEF Matches, Tracked
<1>3. ASSUME restarts = 0
      PROVE  sizes = table /\ ToSet(order) = Stored /\ Len(order) = Cardinality(Stored)
  <2>1. sizes = table
    <3>1. \A k \in MediaKeys : sizes[k] = table[k]
      BY <1>1, <1>3 DEF Matches
    <3> QED BY <3>1 DEF Basic, RestTyped, IndexOK, IndexTyped
  <2>2. ListedOnce /\ Tracked = Stored
    BY <1>3, <2>1 DEF Mirror, Mirrored, Tracked, Stored
  <2>3. Cardinality(ToSet(order)) = Len(order)
    BY <2>2, ListSize DEF ListedOnce, Basic, IndexOK, IndexTyped
  <2> QED BY <2>1, <2>2, <2>3 DEF ListedOnce
<1> QED BY <1>2, <1>3

(* Unless calls overlap, what LruIndex tracks between calls is in the      *)
(* database with the size it has there, wherever the process has stopped   *)
(* and whichever evictions have failed; in the process that created the    *)
(* database the index is the table, each entry listed once.                *)
THEOREM MirrorsCorrect == Spec => []IndexMirrorsTable
BY MirrorHolds, MirrorImplies, PTL

-----------------------------------------------------------------------------
(* The limit.                                                              *)

(* The total is within the limit but for the entry a put has just added,   *)
(* and the victims of an eviction are the end of the order as it still is. *)
LimitUpToPut ==
  /\ (\A t \in Threads : pc[t] \in {"idle", "touch", "index", "wipe"}) =>
       total <= MaxBytes
  /\ \A t \in Threads :
       /\ pc[t] \in {"enforce", "choose", "delete", "forget"} =>
            total <= MaxBytes + size[t]
       /\ pc[t] \in {"delete", "forget"} => victims[t] = KeysToEvict

Limit == ~overlapped /\ ~failed /\ restarts = 0 => LimitUpToPut

(* What the victims free makes up for the entry that was put. *)
LEMMA VictimsFree ==
  ASSUME MediaAssumption, VictimsMakeRoom, Basic, ListedOnce, NEW s \in Sizes
  PROVE  LET freed == SumFunctionOnSet(sizes, KeysToEvict \cap Tracked)
         IN  freed = total \/ s <= freed
<1> DEFINE freed == SumFunctionOnSet(sizes, KeysToEvict \cap Tracked)
<1>1. /\ IndexTyped /\ TotalIsSum /\ sizes \in [MediaKeys -> Nat]
      /\ sizes \in [MediaKeys -> Sizes \cup {0}]
      /\ IsFiniteSet(MediaKeys) /\ EvictBatch \in Nat \ {0} /\ Sizes \subseteq Nat
  BY SizesAreNat DEF Basic, IndexOK, IndexTyped, MediaAssumption
<1>2. /\ KeysToEvict \subseteq Tracked
      /\ KeysToEvict = Tracked \/ Cardinality(KeysToEvict) = EvictBatch
  BY <1>1, VictimsRules DEF ListedOnce, IndexTyped
<1>3. KeysToEvict \cap Tracked = KeysToEvict /\ KeysToEvict \subseteq MediaKeys
  BY <1>2 DEF Tracked
<1>4. CASE KeysToEvict = Tracked
  <2> DEFINE rest == MediaKeys \ Tracked
  <2>1. IsFiniteSet(rest) /\ \A k \in rest : sizes[k] = 0
    BY <1>1, FS_Subset DEF Tracked
  <2> HIDE DEF rest
  <2>2. SumFunctionOnSet(sizes, rest) = 0
    BY <2>1, SumZero
  <2>3. Tracked \in SUBSET MediaKeys /\ \A k \in MediaKeys : sizes[k] \in Nat
    BY <1>1 DEF Tracked
  <2>4. SumFunctionOnSet(sizes, MediaKeys)
          = SumFunctionOnSet(sizes, Tracked) + SumFunctionOnSet(sizes, rest)
    BY <1>1, <2>3, SumSplit DEF rest
  <2>5. total = SumFunctionOnSet(sizes, MediaKeys)
    BY <1>1 DEF TotalIsSum, SumFunction
  <2>6. SumFunctionOnSet(sizes, Tracked) \in Nat
    BY <1>1, <2>3, SumRules, FS_Subset
  <2>7. SumFunctionOnSet(sizes, Tracked) = total
    BY <2>2, <2>4, <2>5, <2>6
  <2> QED BY <1>3, <1>4, <2>7
<1>5. CASE Cardinality(KeysToEvict) = EvictBatch
  <2>1. IsFiniteSet(KeysToEvict) /\ s \in Nat /\ EvictBatch \in Nat
    BY <1>1, <1>3, FS_Subset
  <2>2. \A k \in KeysToEvict : sizes[k] \in Nat /\ s <= EvictBatch * sizes[k]
    <3>1. \A k \in KeysToEvict : sizes[k] \in Sizes
      BY <1>1, <1>2 DEF Tracked
    <3> QED BY <1>1, <3>1 DEF VictimsMakeRoom
  <2>3. Cardinality(KeysToEvict) * s <= EvictBatch * SumFunctionOnSet(sizes, KeysToEvict)
    BY <2>1, <2>2, SumAtLeast
  <2>4. SumFunctionOnSet(sizes, KeysToEvict) \in Nat
    BY <2>1, <2>2, SumRules
  <2>5. ASSUME NEW e \in Nat \ {0}, NEW v \in Nat, e * s <= e * v PROVE s <= v
    <3> SUFFICES ASSUME v < s PROVE FALSE
      BY <2>1
    <3>1. v + 1 <= s /\ e * (v + 1) = e * v + e
      BY <2>1
    <3>2. e * (v + 1) <= e * s
      <4>1. PICK d \in Nat : s = (v + 1) + d
        <5>1. s - (v + 1) \in Nat /\ s = (v + 1) + (s - (v + 1))
          BY <2>1, <3>1
        <5> QED BY <5>1
      <4>2. e * s = e * (v + 1) + e * d /\ e * d \in Nat /\ e * (v + 1) \in Nat
        BY <4>1
      <4> QED BY <4>2
    <3>3. e * v \in Nat /\ e * s \in Nat /\ e > 0
      BY <2>1
    <3> QED BY <2>5, <3>1, <3>2, <3>3
  <2>6. s <= SumFunctionOnSet(sizes, KeysToEvict)
    BY <1>1, <1>5, <2>3, <2>4, <2>5
  <2> QED BY <1>3, <2>6
<1> QED BY <1>2, <1>4, <1>5

LoneLimit(t) ==
  /\ pc[t] \in {"idle", "touch", "index", "wipe"} => total <= MaxBytes
  /\ pc[t] \in {"enforce", "choose", "delete", "forget"} =>
       total <= MaxBytes + size[t]
  /\ pc[t] \in {"delete", "forget"} => victims[t] = KeysToEvict

LEMMA LimitStep ==
  ASSUME MediaAssumption, VictimsMakeRoom, Basic, Basic', Mirror, Limit,
         NEW t \in Threads, Step(t)
  PROVE  Limit'
<1> SUFFICES ASSUME ~overlapped', ~failed', restarts' = 0 PROVE LimitUpToPut'
  BY DEF Limit
<1>1. /\ Mirrored
      /\ \A u \in Threads \ {t} : pc[u] = "idle" /\ pc'[u] = "idle"
  BY OthersIdle
<1>2. SUFFICES LoneLimit(t)'
  BY <1>1 DEF LoneLimit, LimitUpToPut
<1>3. ~overlapped /\ ~failed /\ restarts = 0
  <2>1. ~overlapped
    BY DEF Step, Get, Put, Touch, Index, WithinBudget, OverBudget, Choose, Delete,
           DeleteFails, Forget, Clear, Wipe, Begin, bounds
  <2>2. ~failed /\ restarts = 0
    BY DEF Step, Get, Put, Touch, Index, WithinBudget, OverBudget, Choose, Delete,
           DeleteFails, Forget, Clear, Wipe, bounds
  <2> QED BY <2>1, <2>2
<1>4. LoneLimit(t) /\ ListedOnce
  BY <1>1, <1>3 DEF Limit, LimitUpToPut, LoneLimit, Mirrored
<1>5. /\ Sizes \subseteq Nat \ {0} /\ MaxBytes \in Nat
      /\ IndexTyped /\ TotalIsSum /\ CallsTyped /\ CallsOK /\ total \in Nat
  BY DEF Basic, IndexOK, IndexTyped, CallsTyped, MediaAssumption
<1>6. ASSUME NEW k \in MediaKeys, Get(t, k) PROVE LoneLimit(t)'
  <2>1. pc[t] = "idle" /\ pc'[t] = "touch" /\ total' = total
    BY <1>5, <1>6 DEF Get, Begin, Goto, index, CallsTyped
  <2> QED BY <1>4, <2>1 DEF LoneLimit
<1>7. ASSUME NEW k \in MediaKeys, NEW s \in Sizes, Put(t, k, s) PROVE LoneLimit(t)'
  <2>1. pc[t] = "idle" /\ pc'[t] = "index" /\ total' = total
    BY <1>5, <1>7 DEF Put, Begin, Goto, index, CallsTyped
  <2> QED BY <1>4, <2>1 DEF LoneLimit
<1>8. ASSUME Touch(t) PROVE LoneLimit(t)'
  <2>1. pc[t] = "touch" /\ pc'[t] = "idle" /\ total' = total
    BY <1>5, <1>8 DEF Touch, Return, Goto, IndexTouch, CallsTyped
  <2> QED BY <1>4, <2>1 DEF LoneLimit
<1>9. ASSUME Index(t) PROVE LoneLimit(t)'
  <2>1. /\ pc[t] = "index" /\ pc'[t] = "enforce" /\ size' = size
        /\ key[t] \in MediaKeys /\ size[t] \in Sizes /\ IndexInsert(key[t], size[t])
    BY <1>5, <1>9 DEF Index, Goto, CallsTyped, CallsOK
  <2>2. total' <= total + size[t] /\ IndexTyped'
    BY <1>5, <2>1, IndexInsertRules
  <2>3. total <= MaxBytes /\ total' \in Nat /\ size[t] \in Nat
    BY <1>4, <1>5, <2>1, <2>2 DEF LoneLimit, IndexTyped
  <2> QED BY <1>5, <2>1, <2>2, <2>3 DEF LoneLimit
<1>10. ASSUME WithinBudget(t) PROVE LoneLimit(t)'
  <2>1. pc'[t] = "idle" /\ total' = total /\ total <= MaxBytes
    BY <1>5, <1>10 DEF WithinBudget, Return, Goto, index, CallsTyped
  <2> QED BY <2>1 DEF LoneLimit
<1>11. ASSUME OverBudget(t) PROVE LoneLimit(t)'
  <2>1. pc[t] = "enforce" /\ pc'[t] = "choose" /\ total' = total /\ size' = size
    BY <1>5, <1>11 DEF OverBudget, Goto, index, CallsTyped
  <2> QED BY <1>4, <2>1 DEF LoneLimit
<1>12. ASSUME Choose(t) PROVE LoneLimit(t)'
  <2>1. pc[t] = "choose" /\ total' = total /\ order' = order
    BY <1>12 DEF Choose, index
  <2>2. CASE order = << >>
    <3>1. pc'[t] = "idle"
      BY <1>5, <1>12, <2>2 DEF Choose, Return, Goto, CallsTyped
    <3>2. Tracked = {}
      BY <1>4, <2>2 DEF ListedOnce, ToSet
    <3>3. total = 0
      <4>1. \A k \in MediaKeys : sizes[k] = 0
        BY <3>2 DEF Tracked
      <4>2. SumFunctionOnSet(sizes, MediaKeys) = 0
        BY <4>1, SumZero DEF MediaAssumption
      <4> QED BY <1>5, <4>2 DEF TotalIsSum, SumFunction, IndexTyped
    <3> QED BY <1>5, <2>1, <3>1, <3>3 DEF LoneLimit
  <2>3. CASE order # << >>
    <3>1. pc'[t] = "delete" /\ victims'[t] = KeysToEvict /\ size' = size
      BY <1>5, <1>12, <2>3 DEF Choose, Goto, CallsTyped
    <3> QED BY <1>4, <2>1, <3>1 DEF LoneLimit, KeysToEvict
  <2> QED BY <2>2, <2>3
<1>13. ASSUME Delete(t) PROVE LoneLimit(t)'
  <2>1. /\ pc[t] = "delete" /\ pc'[t] = "forget" /\ victims' = victims
        /\ total' = total /\ size' = size /\ order' = order
    BY <1>5, <1>13 DEF Delete, Goto, index, CallsTyped
  <2> QED BY <1>4, <2>1 DEF LoneLimit, KeysToEvict
<1>14. ASSUME DeleteFails(t) PROVE LoneLimit(t)'
  BY <1>14 DEF DeleteFails
<1>15. ASSUME Forget(t) PROVE LoneLimit(t)'
  <2>1. /\ pc[t] = "forget" /\ pc'[t] = "idle" /\ victims[t] \in SUBSET MediaKeys
        /\ IndexRemove(victims[t]) /\ size[t] \in Sizes
    BY <1>5, <1>15 DEF Forget, Return, Goto, CallsTyped, CallsOK
  <2>2. total <= MaxBytes + size[t] /\ victims[t] = KeysToEvict
    BY <1>4, <2>1 DEF LoneLimit
  <2> DEFINE freed == SumFunctionOnSet(sizes, KeysToEvict \cap Tracked)
  <2>3. total' = total - freed /\ freed \in Nat
    BY <1>5, <2>1, <2>2, IndexRemoveRules
  <2>4. freed = total \/ size[t] <= freed
    BY <1>4, <2>1, VictimsFree
  <2> HIDE DEF freed
  <2>5. total' <= MaxBytes
    <3>1. size[t] \in Nat /\ total \in Nat /\ MaxBytes \in Nat
      BY <1>5, <2>1
    <3>2. CASE freed = total
      BY <2>3, <3>1, <3>2
    <3>3. CASE size[t] <= freed
      BY <2>2, <2>3, <3>1, <3>3
    <3> QED BY <2>4, <3>2, <3>3
  <2> QED BY <2>1, <2>5 DEF LoneLimit
<1>16. ASSUME Clear(t) PROVE LoneLimit(t)'
  <2>1. pc[t] = "idle" /\ pc'[t] = "wipe" /\ total' = total
    BY <1>5, <1>16 DEF Clear, Begin, Goto, index, CallsTyped
  <2> QED BY <1>4, <2>1 DEF LoneLimit
<1>17. ASSUME Wipe(t) PROVE LoneLimit(t)'
  <2>1. pc'[t] = "idle" /\ total' = 0
    BY <1>5, <1>17 DEF Wipe, Return, Goto, IndexClear, CallsTyped
  <2> QED BY <1>5, <2>1 DEF LoneLimit
<1> QED BY <1>6, <1>7, <1>8, <1>9, <1>10, <1>11, <1>12, <1>13, <1>14, <1>15,
           <1>16, <1>17 DEF Step

LEMMA LimitKept == Limit /\ UNCHANGED vars => Limit'
BY DEF Limit, LimitUpToPut, KeysToEvict, vars

(* If one batch of victims makes room for any entry, the index stays       *)
(* within max_size_mb between calls in the process that created the        *)
(* database, unless calls overlap or an eviction fails.                    *)
THEOREM LimitCorrect == VictimsMakeRoom /\ Spec => []TrackedWithinLimit
<1> SUFFICES ASSUME VictimsMakeRoom PROVE Spec => []TrackedWithinLimit
  OBVIOUS
<1>1. Init => Limit
  BY MediaAssumption DEF Init, Limit, LimitUpToPut, MediaAssumption
<1>2. Limit /\ (Basic /\ Mirror) /\ (Basic /\ Mirror)' /\ [Next]_vars => Limit'
  <2> SUFFICES ASSUME Limit, Basic, Mirror, Basic', [Next]_vars PROVE Limit'
    OBVIOUS
  <2>1. CASE UNCHANGED vars
    BY <2>1, LimitKept
  <2>2. CASE Restart
    <3>1. restarts' # 0
      BY <2>2 DEF Restart, Basic, RestTyped
    <3> QED BY <3>1 DEF Limit
  <2>3. ASSUME NEW t \in Threads, Step(t) PROVE Limit'
    BY <2>3, LimitStep, MediaAssumption
  <2> QED BY <2>1, <2>2, <2>3 DEF Next
<1>3. Limit => TrackedWithinLimit
  BY DEF Limit, LimitUpToPut, TrackedWithinLimit, AtRest
<1> QED BY <1>1, <1>2, <1>3, MirrorHolds, PTL DEF Spec

-----------------------------------------------------------------------------
(* Both layers of the probe cache                                          *)

Slabs == INSTANCE ProbeCacheProofs WITH
  pc <- probe_pc, key <- probe_key, restarts <- probe_restarts

(* A behaviour of the two is one of each, with stutters. *)
THEOREM PartsAreCaches == CachesSpec => Spec /\ Probes!Spec
<1>1. CachesInit => Init /\ Probes!Init
  BY DEF CachesInit
<1>2. [CachesNext]_<<part, vars, probeVars>> => [Next]_vars
  BY DEF CachesNext
<1>3. [CachesNext]_<<part, vars, probeVars>> => [Probes!Next]_(Probes!vars)
  BY DEF CachesNext, probeVars, Probes!vars
<1> QED BY <1>1, <1>2, <1>3, PTL DEF CachesSpec, Spec, Probes!Spec

(* The specification ProbeCacheProofs is about. *)
LEMMA SameSlabs ==
  /\ CachesAssumption => Slabs!FilesAssumption /\ Slabs!ProbeAssumption
  /\ Probes!Init => Slabs!Init
  /\ [Probes!Next]_(Probes!vars) => [Slabs!Next]_(Slabs!vars)
  /\ Slabs!TypeOK => Probes!TypeOK
  /\ Slabs!SlabKeysUnique => Probes!SlabKeysUnique
  /\ Slabs!StaleEntryOnlyIfRaced => Probes!StaleEntryOnlyIfRaced
  /\ Slabs!StaleAnswerOnlyIfRaced => Probes!StaleAnswerOnlyIfRaced
<1>1. CachesAssumption => Slabs!FilesAssumption /\ Slabs!ProbeAssumption
  BY DEF CachesAssumption, Probes!FilesAssumption, Slabs!FilesAssumption,
         Probes!ProbeAssumption, Slabs!ProbeAssumption
<1>2. Probes!Init => Slabs!Init
  BY DEF Probes!Init, Slabs!Init, Probes!FilesInit, Slabs!FilesInit,
         Probes!Slots, Slabs!Slots, Probes!EmptySlot, Slabs!EmptySlot,
         Probes!Keys, Slabs!Keys, Probes!NoMeta, Slabs!NoMeta, Probes!NoKey,
         Slabs!NoKey, Probes!NoPath, Slabs!NoPath
<1>3. [Probes!Next]_(Probes!vars) => [Slabs!Next]_(Slabs!vars)
  <2> SUFFICES ASSUME [Probes!Next]_(Probes!vars)
               PROVE  [Slabs!Next]_(Slabs!vars)
    OBVIOUS
  <2>1. ASSUME NEW t, NEW p, Probes!ProbeCachedL1(t, p) PROVE Slabs!ProbeCachedL1(t, p)
    BY <2>1 DEF Probes!ProbeCachedL1, Slabs!ProbeCachedL1, Probes!Begin,
           Slabs!Begin, Probes!cache_key, Slabs!cache_key, Probes!Goto,
           Slabs!Goto, Probes!caches, Slabs!caches, Probes!NoStamp,
           Slabs!NoStamp
  <2>2. ASSUME NEW t, NEW p, Probes!ProbeCached(t, p) PROVE Slabs!ProbeCached(t, p)
    BY <2>2 DEF Probes!ProbeCached, Slabs!ProbeCached, Probes!Begin,
           Slabs!Begin, Probes!Goto, Slabs!Goto, Probes!caches, Slabs!caches
  <2>3. ASSUME NEW t, NEW p, Probes!L1Invalidate(t, p) PROVE Slabs!L1Invalidate(t, p)
    BY <2>3 DEF Probes!L1Invalidate, Slabs!L1Invalidate, Probes!Slots,
           Slabs!Slots, Probes!Holding, Slabs!Holding, Probes!cache_key,
           Slabs!cache_key, Probes!EmptySlot, Slabs!EmptySlot, Probes!thread,
           Slabs!thread, Probes!bounds, Slabs!bounds, Probes!NoStamp,
           Slabs!NoStamp, Probes!NoKey, Slabs!NoKey, Probes!NoMeta,
           Slabs!NoMeta
  <2>4. ASSUME NEW t, Probes!L1Hit(t) PROVE Slabs!L1Hit(t)
    BY <2>4 DEF Probes!L1Hit, Slabs!L1Hit, Probes!Holding, Slabs!Holding,
           Probes!Goto, Slabs!Goto, Probes!caches, Slabs!caches,
           Probes!bounds, Slabs!bounds, Probes!Slots, Slabs!Slots
  <2>5. ASSUME NEW t, Probes!L1Miss(t) PROVE Slabs!L1Miss(t)
    BY <2>5 DEF Probes!L1Miss, Slabs!L1Miss, Probes!Holding, Slabs!Holding,
           Probes!Goto, Slabs!Goto, Probes!caches, Slabs!caches,
           Probes!bounds, Slabs!bounds, Probes!Slots, Slabs!Slots
  <2>6. ASSUME NEW t, Probes!Fill(t) PROVE Slabs!Fill(t)
    BY <2>6 DEF Probes!Fill, Slabs!Fill, Probes!SlabInsert, Slabs!SlabInsert,
           Probes!Goto, Slabs!Goto, Probes!bounds, Slabs!bounds
  <2>7. ASSUME NEW t, Probes!Answer(t) PROVE Slabs!Answer(t)
    BY <2>7 DEF Probes!Answer, Slabs!Answer, Probes!Return, Slabs!Return,
           Probes!caches, Slabs!caches, Probes!bounds, Slabs!bounds,
           Probes!Goto, Slabs!Goto, Probes!NoKey, Slabs!NoKey, Probes!NoPath,
           Slabs!NoPath, Probes!NoMeta, Slabs!NoMeta
  <2>8. ASSUME NEW t, Probes!L2Hit(t) PROVE Slabs!L2Hit(t)
    BY <2>8 DEF Probes!L2Hit, Slabs!L2Hit, Probes!cache_key, Slabs!cache_key,
           Probes!NoMeta, Slabs!NoMeta, Probes!Found, Slabs!Found,
           Probes!caches, Slabs!caches, Probes!bounds, Slabs!bounds,
           Probes!NoStamp, Slabs!NoStamp, Probes!Goto, Slabs!Goto,
           Probes!NoKey, Slabs!NoKey
  <2>9. ASSUME NEW t, Probes!L2Miss(t) PROVE Slabs!L2Miss(t)
    BY <2>9 DEF Probes!L2Miss, Slabs!L2Miss, Probes!cache_key,
           Slabs!cache_key, Probes!NoMeta, Slabs!NoMeta, Probes!Goto,
           Slabs!Goto, Probes!caches, Slabs!caches, Probes!bounds,
           Slabs!bounds, Probes!NoStamp, Slabs!NoStamp
  <2>10. ASSUME NEW t, Probes!L2Fails(t) PROVE Slabs!L2Fails(t)
    BY <2>10 DEF Probes!L2Fails, Slabs!L2Fails, Probes!cache_key,
           Slabs!cache_key, Probes!NoMeta, Slabs!NoMeta, Probes!Goto,
           Slabs!Goto, Probes!caches, Slabs!caches, Probes!bounds,
           Slabs!bounds, Probes!NoStamp, Slabs!NoStamp
  <2>11. ASSUME NEW t, Probes!Probe(t) PROVE Slabs!Probe(t)
    BY <2>11 DEF Probes!Probe, Slabs!Probe, Probes!Goto, Slabs!Goto,
           Probes!caches, Slabs!caches, Probes!bounds, Slabs!bounds
  <2>12. ASSUME NEW t, Probes!ProbeFails(t) PROVE Slabs!ProbeFails(t)
    BY <2>12 DEF Probes!ProbeFails, Slabs!ProbeFails, Probes!Return,
           Slabs!Return, Probes!caches, Slabs!caches, Probes!bounds,
           Slabs!bounds, Probes!Goto, Slabs!Goto, Probes!NoKey, Slabs!NoKey,
           Probes!NoPath, Slabs!NoPath, Probes!NoMeta, Slabs!NoMeta
  <2>13. ASSUME NEW t, Probes!Put(t) PROVE Slabs!Put(t)
    BY <2>13 DEF Probes!Put, Slabs!Put, Probes!Keys, Slabs!Keys,
           Probes!NoMeta, Slabs!NoMeta, Probes!cache_key, Slabs!cache_key,
           Probes!Found, Slabs!Found, Probes!bounds, Slabs!bounds,
           Probes!NoStamp, Slabs!NoStamp, Probes!Goto, Slabs!Goto,
           Probes!NoKey, Slabs!NoKey
  <2>14. ASSUME NEW t, Probes!PutFails(t) PROVE Slabs!PutFails(t)
    BY <2>14 DEF Probes!PutFails, Slabs!PutFails, Probes!Found, Slabs!Found,
           Probes!caches, Slabs!caches, Probes!bounds, Slabs!bounds,
           Probes!Goto, Slabs!Goto, Probes!NoKey, Slabs!NoKey
  <2>15. \A t \in Threads : Probes!Step(t) => Slabs!Step(t)
    BY <2>1, <2>2, <2>3, <2>4, <2>5, <2>6, <2>7, <2>8, <2>9, <2>10, <2>11,
           <2>12, <2>13, <2>14 DEF Probes!Step, Slabs!Step
  <2>16. ASSUME NEW p, Probes!Environment(p) PROVE Slabs!Environment(p)
    BY <2>16 DEF Probes!Environment, Slabs!Environment, Probes!ReplaceFile,
           Slabs!ReplaceFile, Probes!DeleteFile, Slabs!DeleteFile,
           Probes!cache_key, Slabs!cache_key, Probes!caches, Slabs!caches,
           Probes!thread, Slabs!thread, Probes!bounds, Slabs!bounds,
           Probes!NoStamp, Slabs!NoStamp
  <2>17. Probes!Restart => Slabs!Restart
    BY DEF Probes!Restart, Slabs!Restart, Probes!Slots, Slabs!Slots,
           Probes!EmptySlot, Slabs!EmptySlot, Probes!NoKey, Slabs!NoKey,
           Probes!NoPath, Slabs!NoPath, Probes!NoMeta, Slabs!NoMeta
  <2> QED BY <2>15, <2>16, <2>17
       DEF Probes!Next, Slabs!Next, Probes!vars, Slabs!vars
<1>4. Slabs!TypeOK => Probes!TypeOK
  BY DEF Probes!TypeOK, Slabs!TypeOK, Probes!FilesTypeOK, Slabs!FilesTypeOK,
         Probes!Slots, Slabs!Slots, Probes!Keys, Slabs!Keys, Probes!NoKey,
         Slabs!NoKey, Probes!Metas, Slabs!Metas, Probes!NoMeta, Slabs!NoMeta,
         Probes!NoPath, Slabs!NoPath, Probes!File, Slabs!File
<1>5. Slabs!SlabKeysUnique => Probes!SlabKeysUnique
  BY DEF Probes!SlabKeysUnique, Slabs!SlabKeysUnique, Probes!Slots,
         Slabs!Slots, Probes!NoKey, Slabs!NoKey
<1>6. Slabs!StaleEntryOnlyIfRaced => Probes!StaleEntryOnlyIfRaced
  BY DEF Probes!StaleEntryOnlyIfRaced, Slabs!StaleEntryOnlyIfRaced,
         Probes!Keys, Slabs!Keys, Probes!NoMeta, Slabs!NoMeta, Probes!StampIn,
         Slabs!StampIn, Probes!NoStamp, Slabs!NoStamp
<1>7. Slabs!StaleAnswerOnlyIfRaced => Probes!StaleAnswerOnlyIfRaced
  BY DEF Probes!StaleAnswerOnlyIfRaced, Slabs!StaleAnswerOnlyIfRaced,
         Probes!Answered, Slabs!Answered, Probes!PathOf, Slabs!PathOf,
         Probes!StampIn, Slabs!StampIn, Probes!NoStamp, Slabs!NoStamp
<1> QED BY <1>1, <1>2, <1>3, <1>4, <1>5, <1>6, <1>7

LEMMA SlabsRun == Probes!Spec => Slabs!Spec
<1> QED BY SameSlabs, PTL DEF Probes!Spec, Slabs!Spec

(* In both layers every variable keeps its type, whichever of them runs:   *)
(* in particular a call that stores or answers has metadata.               *)
THEOREM CachesTyped == ASSUME CachesAssumption PROVE CachesSpec => []CachesTypeOK
<1>1. Slabs!Spec => []Slabs!TypeOK
  BY SameSlabs, Slabs!TypeCorrect
<1>2. TypeOK /\ Slabs!TypeOK => CachesTypeOK
  BY SameSlabs DEF CachesTypeOK
<1> QED BY <1>1, <1>2, PartsAreCaches, TypeCorrect, SlabsRun, PTL

(* No slab of the slabs holds a key twice, though insert does not look for *)
(* the key it writes.                                                      *)
THEOREM SlabsUnique == ASSUME CachesAssumption PROVE CachesSpec => []SlabKeysUnique
<1>1. Slabs!Spec => []Slabs!SlabKeysUnique
  BY SameSlabs, Slabs!SlabUnique
<1>2. Slabs!SlabKeysUnique => SlabKeysUnique
  BY SameSlabs DEF SlabKeysUnique
<1> QED BY <1>1, <1>2, PartsAreCaches, SlabsRun, PTL

(* Stale entries of the shared map, and stale answers from either layer,   *)
(* go back to a file that changed between a probe and its put.             *)
THEOREM StaleCorrect == ASSUME CachesAssumption PROVE CachesSpec => []StaleOnlyIfRaced
<1>1. Slabs!Spec => []Slabs!StaleEntryOnlyIfRaced
  BY SameSlabs, Slabs!StaleEntries
<1>2. Slabs!Spec => []Slabs!StaleAnswerOnlyIfRaced
  BY SameSlabs, Slabs!StaleAnswers
<1>3. Slabs!StaleEntryOnlyIfRaced /\ Slabs!StaleAnswerOnlyIfRaced => StaleOnlyIfRaced
  BY SameSlabs DEF StaleOnlyIfRaced
<1> QED BY <1>1, <1>2, <1>3, PartsAreCaches, SlabsRun, PTL
=============================================================================
