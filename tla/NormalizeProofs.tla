--------------------------- MODULE NormalizeProofs ---------------------------
(***************************************************************************)
(* Folds over finite sets and sequences, and what NormalizeAreas makes of  *)
(* the labels of a row, whatever AREA_LABEL_MAP is and however many labels *)
(* there are.                                                              *)
(*                                                                         *)
(* The library's folds are recursive functions, given as the CHOOSE of     *)
(* their own equation.  That the equation has a solution is shown by       *)
(* induction on the size of the sets (FoldHasSolution), and what a fold    *)
(* comes to by induction on subsets (InductionOnSubsets).  The induction   *)
(* theorems of the library take a predicate; these take a set of the       *)
(* numbers, or of the subsets, for which the claim holds.                  *)
(***************************************************************************)
EXTENDS Normalize, FiniteSetsExt, TLAPS, SequenceTheorems, FunctionTheorems,
        FiniteSetTheorems

(***************************************************************************)
(* Least and greatest numbers                                              *)
(***************************************************************************)
\* A set of naturals has a least element.
LEMMA LeastIsElement ==
    ASSUME NEW T \in SUBSET Nat, T # {}
    PROVE  \E t \in T : \A y \in T : t <= y
<1> DEFINE R == OpToRel(<, Nat)
<1>1. IsWellFoundedOn(R, Nat)
  BY NatLessThanWellFounded
<1>2. \A x, y \in Nat : x < y => <<x, y>> \in R
  BY DEF OpToRel
<1> HIDE DEF R
<1>3. PICK t \in T : \A y \in T : <<y, t>> \notin R
  BY <1>1, WFMin
<1>4. ASSUME NEW y \in T PROVE t <= y
  <2>1. y \in Nat /\ t \in Nat
    OBVIOUS
  <2>2. ~(y < t)
    BY <1>2, <1>3, <2>1
  <2> QED
    BY <2>1, <2>2
<1> QED
  BY <1>3, <1>4

\* A bounded set of naturals has a greatest element.
LEMMA MaxIsElement ==
    ASSUME NEW bound \in Nat, NEW S \in SUBSET (0 .. bound), S # {}
    PROVE  Max(S) \in S /\ \A y \in S : y <= Max(S)
<1> DEFINE T == {bound - x : x \in S}
<1>1. \A x \in S : x \in Nat /\ bound - x \in Nat
  <2>1. \A x \in S : x \in 0 .. bound
    OBVIOUS
  <2>2. \A x \in 0 .. bound : x \in Nat /\ bound - x \in Nat
    OBVIOUS
  <2> QED
    BY <2>1, <2>2
<1>2. PICK t \in T : \A y \in T : t <= y
  <2>1. T \in SUBSET Nat /\ T # {}
    BY <1>1
  <2> HIDE DEF T
  <2> QED
    BY <2>1, LeastIsElement
<1>3. PICK x \in S : t = bound - x
  BY <1>2
<1>4. \A y \in S : x >= y
  <2> TAKE y \in S
  <2>1. t <= bound - y
    BY <1>2
  <2> QED
    BY <1>1, <1>3, <2>1
<1>5. Max(S) \in S /\ \A y \in S : Max(S) >= y
  BY <1>3, <1>4 DEF Max
<1> QED
  BY <1>1, <1>5

\* Good has a subset of S if it has all that lack one element of it.
PassesUp(Good, S) == \A s \in SUBSET S : (\A x \in s : s \ {x} \in Good) => s \in Good

\* Two inductions, with a set in the place of the predicate: what holds of
\* zero and passes on to the next number holds of all ...
LEMMA InductionOnNumbers ==
    ASSUME NEW Good, 0 \in Good, \A n \in Nat : n \in Good => n + 1 \in Good
    PROVE  Nat \subseteq Good
<1> SUFFICES ASSUME Nat \ Good # {} PROVE FALSE
  OBVIOUS
<1>1. PICK n \in Nat \ Good : \A y \in Nat \ Good : n <= y
  <2> DEFINE T == Nat \ Good
  <2>1. T \in SUBSET Nat /\ T # {}
    OBVIOUS
  <2> HIDE DEF T
  <2>2. \E t \in T : \A y \in T : t <= y
    BY <2>1, LeastIsElement
  <2> QED
    BY <2>2 DEF T
<1>2. n # 0
  BY <1>1
<1>3. n - 1 \in Nat /\ ~(n <= n - 1)
  BY <1>1, <1>2
<1>4. n - 1 \in Good
  BY <1>1, <1>3
<1>5. (n - 1) + 1 = n
  BY <1>1
<1> QED
  BY <1>1, <1>3, <1>4, <1>5

\* ... and what passes up from the subsets that lack one element holds of every
\* subset of a finite set.
LEMMA InductionOnSubsets ==
    ASSUME NEW S, IsFiniteSet(S), NEW Good, PassesUp(Good, S)
    PROVE  SUBSET S \subseteq Good
<1> DEFINE Sizes == {n \in Nat : \A s \in SUBSET S : Cardinality(s) = n => s \in Good}
<1>1. \A s \in SUBSET S : IsFiniteSet(s) /\ Cardinality(s) \in Nat
  BY FS_Subset, FS_CardinalityType
<1>2. 0 \in Sizes
  <2>1. \A s \in SUBSET S : Cardinality(s) = 0 => s = {}
    BY <1>1, FS_EmptySet
  <2>2. {} \in Good
    BY DEF PassesUp
  <2> QED
    BY <2>1, <2>2
<1>3. ASSUME NEW n \in Nat, n \in Sizes PROVE n + 1 \in Sizes
  <2> SUFFICES ASSUME NEW s \in SUBSET S, Cardinality(s) = n + 1 PROVE s \in Good
    OBVIOUS
  <2>1. ASSUME NEW x \in s PROVE s \ {x} \in Good
    <3>1. s \ {x} \in SUBSET S
      OBVIOUS
    <3>2. Cardinality(s \ {x}) = n
      BY <1>1, FS_RemoveElement
    <3> QED
      BY <1>3, <3>1, <3>2
  <2> QED
    BY <2>1 DEF PassesUp
<1> HIDE DEF Sizes
<1>4. Nat \subseteq Sizes
  BY <1>2, <1>3, InductionOnNumbers
<1>5. ASSUME NEW s \in SUBSET S PROVE s \in Good
  <2>1. Cardinality(s) \in Sizes
    BY <1>1, <1>4
  <2> QED
    BY <2>1 DEF Sizes
<1> QED
  BY <1>5

(***************************************************************************)
(* Folds                                                                   *)
(***************************************************************************)
\* What a fold over S takes from the elements that pick names, one by one.
FoldStep(base, step, pick, g, s) ==
    IF s = {} THEN base ELSE step[<<pick[s], g[s \ {pick[s]}]>>]

Picks(pick, S) == \A s \in SUBSET S : s # {} => pick[s] \in s

IsFold(g, base, step, pick, S, V) ==
    /\ g \in [SUBSET S -> V]
    /\ \A s \in SUBSET S : g[s] = FoldStep(base, step, pick, g, s)

\* The recursion of a fold has a solution: there is one that is right up to
\* every size, since the next one is got from it by one more step.
LEMMA FoldHasSolution ==
    ASSUME NEW S, IsFiniteSet(S), NEW V, NEW base \in V, NEW step \in [S \X V -> V],
           NEW pick, Picks(pick, S)
    PROVE  \E g : IsFold(g, base, step, pick, S, V)
<1> DEFINE Right(g, n) == \A s \in SUBSET S :
               Cardinality(s) <= n => g[s] = FoldStep(base, step, pick, g, s)
           Sizes == {n \in Nat : \E g \in [SUBSET S -> V] : Right(g, n)}
<1>1. \A s \in SUBSET S : IsFiniteSet(s) /\ Cardinality(s) \in Nat
                              /\ Cardinality(s) <= Cardinality(S)
  BY FS_Subset, FS_CardinalityType
<1>2. 0 \in Sizes
  <2> DEFINE g == [s \in SUBSET S |-> base]
  <2>1. \A s \in SUBSET S : Cardinality(s) <= 0 => s = {}
    BY <1>1, FS_EmptySet
  <2>2. Right(g, 0) /\ g \in [SUBSET S -> V]
    BY <2>1 DEF FoldStep
  <2> HIDE DEF g, Right
  <2> QED
    BY <2>2
<1>3. ASSUME NEW n \in Nat, n \in Sizes PROVE n + 1 \in Sizes
  <2>1. PICK g \in [SUBSET S -> V] : Right(g, n)
    BY <1>3
  <2> DEFINE h == [s \in SUBSET S |-> FoldStep(base, step, pick, g, s)]
  <2>2. ASSUME NEW s \in SUBSET S PROVE FoldStep(base, step, pick, g, s) \in V
    <3>1. CASE s = {}
      BY <3>1 DEF FoldStep
    <3>2. CASE s # {}
      <4>1. pick[s] \in S /\ s \ {pick[s]} \in SUBSET S
        BY <3>2 DEF Picks
      <4>2. <<pick[s], g[s \ {pick[s]}]>> \in S \X V
        BY <4>1
      <4> QED
        BY <3>2, <4>2 DEF FoldStep
    <3> QED
      BY <3>1, <3>2
  <2>3. h \in [SUBSET S -> V]
    BY <2>2
  <2>4. ASSUME NEW s \in SUBSET S, Cardinality(s) <= n + 1
        PROVE  h[s] = FoldStep(base, step, pick, h, s)
    <3>1. h[s] = FoldStep(base, step, pick, g, s)
      OBVIOUS
    <3>2. CASE s = {}
      BY <3>1, <3>2 DEF FoldStep
    <3>3. CASE s # {}
      <4> DEFINE rest == s \ {pick[s]}
      <4>1. pick[s] \in s /\ rest \in SUBSET S
        BY <3>3 DEF Picks
      <4>2. Cardinality(rest) <= n
        BY <1>1, <2>4, <4>1, FS_RemoveElement
      <4>3. h[rest] = g[rest]
        <5> HIDE DEF rest
        <5>1. h[rest] = FoldStep(base, step, pick, g, rest)
          BY <4>1
        <5>2. g[rest] = FoldStep(base, step, pick, g, rest)
          BY <2>1, <4>1, <4>2
        <5> QED
          BY <5>1, <5>2
      <4> HIDE DEF h
      <4> QED
        BY <3>1, <3>3, <4>3 DEF FoldStep
    <3> QED
      BY <3>2, <3>3
  <2> HIDE DEF h
  <2>5. Right(h, n + 1)
    BY <2>4
  <2> HIDE DEF Right
  <2> QED
    BY <2>3, <2>5
<1> HIDE DEF Sizes
<1>4. Cardinality(S) \in Sizes
  BY <1>1, <1>2, <1>3, InductionOnNumbers
<1> QED
  BY <1>1, <1>4 DEF Sizes, IsFold

(***************************************************************************)
(* Sums                                                                    *)
(***************************************************************************)
\* g is the recursion by which the library sums m over a set.
Sums(g, m, S) ==
    g = [s \in SUBSET S |->
            IF s = {} THEN 0
            ELSE m[CHOOSE x \in s : TRUE] + g[s \ {CHOOSE x \in s : TRUE}]]

\* The recursion of a sum has a solution.
LEMMA SumHasSolution ==
    ASSUME NEW S, IsFiniteSet(S), NEW m \in [S -> Nat]
    PROVE  \E g : Sums(g, m, S)
<1> DEFINE pick == [s \in SUBSET S |-> CHOOSE x \in s : TRUE]
           step == [e \in S \X Nat |-> m[e[1]] + e[2]]
<1>1. \A s \in SUBSET S : s # {} => (CHOOSE x \in s : TRUE) \in s
  OBVIOUS
<1>2. \A s \in SUBSET S : pick[s] = CHOOSE x \in s : TRUE
  OBVIOUS
<1>3. step \in [S \X Nat -> Nat]
  OBVIOUS
<1>4. \A x \in S, n \in Nat : step[<<x, n>>] = m[x] + n
  OBVIOUS
<1> HIDE DEF pick, step
<1>5. Picks(pick, S)
  BY <1>1, <1>2 DEF Picks
<1>6. PICK g \in [SUBSET S -> Nat] : \A s \in SUBSET S : g[s] = FoldStep(0, step, pick, g, s)
  <2> DEFINE V == Nat
             base == 0
  <2>1. base \in V /\ step \in [S \X V -> V]
    BY <1>3
  <2> HIDE DEF V, base
  <2>2. \E g : IsFold(g, base, step, pick, S, V)
    BY <1>5, <2>1, FoldHasSolution
  <2> QED
    BY <2>2 DEF V, base, IsFold
<1>7. ASSUME NEW s \in SUBSET S
      PROVE  g[s] = IF s = {} THEN 0
                    ELSE m[CHOOSE x \in s : TRUE] + g[s \ {CHOOSE x \in s : TRUE}]
  <2>1. CASE s = {}
    BY <1>6, <2>1 DEF FoldStep
  <2>2. CASE s # {}
    <3>1. g[s] = step[<<pick[s], g[s \ {pick[s]}]>>]
      BY <1>6, <2>2 DEF FoldStep
    <3>2. pick[s] \in S /\ g[s \ {pick[s]}] \in Nat
      BY <1>5, <2>2 DEF Picks
    <3>3. g[s] = m[pick[s]] + g[s \ {pick[s]}]
      BY <1>4, <3>1, <3>2
    <3> QED
      BY <1>2, <2>2, <3>3
  <2> QED
    BY <2>1, <2>2
<1>8. Sums(g, m, S)
  BY <1>7 DEF Sums
<1> QED
  BY <1>8

\* Every element of S has a finite set of its own.
Disjoint(B, S) ==
    /\ \A x \in S : IsFiniteSet(B[x])
    /\ \A x, y \in S : x # y => B[x] \intersect B[y] = {}

\* The sizes of disjoint sets add up to that of their union, in whatever order
\* they are taken.
LEMMA SumOfDisjointSets ==
    ASSUME NEW S, IsFiniteSet(S), NEW B, Disjoint(B, S),
           NEW m \in [S -> Nat], \A x \in S : m[x] = Cardinality(B[x]),
           NEW g, Sums(g, m, S)
    PROVE  g[S] = Cardinality(UNION {B[x] : x \in S})
<1> DEFINE all(s) == UNION {B[x] : x \in s}
           Good == {s \in SUBSET S : IsFiniteSet(all(s)) /\ g[s] = Cardinality(all(s))}
<1>1. ASSUME NEW s \in SUBSET S, \A x \in s : s \ {x} \in Good PROVE s \in Good
  <2>1. CASE s = {}
    <3>1. all(s) = {} /\ g[s] = 0
      BY <2>1 DEF Sums
    <3> QED
      BY <3>1, FS_EmptySet
  <2>2. CASE s # {}
    <3> DEFINE y == CHOOSE x \in s : TRUE
               rest == s \ {y}
    <3>1. y \in s
      BY <2>2
    <3>2. g[s] = Cardinality(B[y]) + g[rest]
      <4>1. g[s] = m[y] + g[rest]
        BY <2>2 DEF Sums
      <4> HIDE DEF y
      <4> QED
        BY <3>1, <4>1
    <3> HIDE DEF y
    <3>3. IsFiniteSet(all(rest)) /\ g[rest] = Cardinality(all(rest))
      BY <1>1, <3>1
    <3>4. all(s) = B[y] \union all(rest) /\ B[y] \intersect all(rest) = {}
      BY <3>1 DEF Disjoint
    <3>5. IsFiniteSet(B[y])
      BY <3>1 DEF Disjoint
    <3> HIDE DEF all, rest
    <3>6. /\ IsFiniteSet(all(s))
          /\ Cardinality(all(s)) = Cardinality(B[y]) + Cardinality(all(rest))
                                       - Cardinality(B[y] \intersect all(rest))
      BY <3>3, <3>4, <3>5, FS_Union
    <3>7. /\ Cardinality(B[y]) \in Nat /\ Cardinality(all(rest)) \in Nat
          /\ Cardinality(B[y] \intersect all(rest)) = 0
      BY <3>3, <3>4, <3>5, FS_CardinalityType, FS_EmptySet
    <3> QED
      BY <3>2, <3>3, <3>6, <3>7
  <2> QED
    BY <2>1, <2>2
<1> HIDE DEF Good
<1>2. PassesUp(Good, S)
  BY <1>1 DEF PassesUp
<1>3. SUBSET S \subseteq Good
  BY <1>2, InductionOnSubsets
<1> QED
  BY <1>3 DEF Good

(***************************************************************************)
(* The areas of a flagger                                                  *)
(***************************************************************************)
\* areas holds the area of every label of s once, in the order of the first
\* label that maps to it.
Collected(areas, area, s) ==
    /\ areas \in Seq({area[k] : k \in s})
    /\ ToSet(areas) = {area[k] : k \in s}
    /\ \A p, q \in 1 .. Len(areas) :
           p < q => /\ areas[p] # areas[q]
                    /\ \A k \in s : area[k] = areas[q] =>
                           \E j \in s : j < k /\ area[j] = areas[p]

\* One label more, behind the others.
LEMMA CollectedNext ==
    ASSUME NEW area, NEW s \in SUBSET Nat, NEW last \in s, \A k \in s : k <= last,
           NEW seen, Collected(seen, area, s \ {last})
    PROVE  Collected(IF area[last] \in ToSet(seen) THEN seen ELSE Append(seen, area[last]),
                     area, s)
<1> DEFINE rest == s \ {last}
           R == {area[k] : k \in rest}
           A == {area[k] : k \in s}
<1>1. /\ seen \in Seq(R) /\ ToSet(seen) = R /\ Len(seen) \in Nat
      /\ A = R \union {area[last]}
      /\ \A p \in 1 .. Len(seen) : seen[p] \in R
  <2>1. seen \in Seq(R) /\ ToSet(seen) = R
    BY DEF Collected
  <2>2. A = R \union {area[last]}
    OBVIOUS
  <2> HIDE DEF R, A
  <2> QED
    BY <2>1, <2>2, ElementOfSeq, LenProperties
<1>2. \A k \in rest : k < last
  OBVIOUS
<1>3. \A p, q \in 1 .. Len(seen) :
          p < q => /\ seen[p] # seen[q]
                   /\ \A k \in rest : area[k] = seen[q] =>
                          \E j \in rest : j < k /\ area[j] = seen[p]
  BY DEF Collected
<1>4. ASSUME NEW p \in 1 .. Len(seen) PROVE \E j \in rest : j < last /\ area[j] = seen[p]
  BY <1>1, <1>2
<1>5. CASE area[last] \in ToSet(seen)
  <2>1. A = R
    BY <1>1, <1>5
  <2>2. ASSUME NEW p \in 1 .. Len(seen), NEW q \in 1 .. Len(seen), p < q
        PROVE  /\ seen[p] # seen[q]
               /\ \A k \in s : area[k] = seen[q] => \E j \in s : j < k /\ area[j] = seen[p]
    BY <1>3, <1>4, <2>2
  <2> HIDE DEF A, R, rest
  <2>3. Collected(seen, area, s)
    BY <1>1, <2>1, <2>2 DEF Collected, A
  <2> QED
    BY <1>5, <2>3
<1>6. CASE area[last] \notin ToSet(seen)
  <2> DEFINE next == Append(seen, area[last])
  <2>1. /\ Len(next) = Len(seen) + 1 /\ next[Len(seen) + 1] = area[last]
        /\ \A p \in 1 .. Len(seen) : next[p] = seen[p]
        /\ next \in Seq(A)
    <3>1. seen \in Seq(A) /\ area[last] \in A
      <4>1. R \subseteq A /\ area[last] \in A
        BY <1>1
      <4> HIDE DEF R, A
      <4> QED
        BY <1>1, <4>1, SeqMonotonic
    <3> HIDE DEF A
    <3> QED
      BY <3>1, AppendProperties
  <2>2. ToSet(next) = A
    <3>1. DOMAIN next = 1 .. Len(seen) + 1 /\ DOMAIN seen = 1 .. Len(seen)
      <4> HIDE DEF A, R, next
      <4> QED
        BY <1>1, <2>1, LenProperties
    <3>2. 1 .. Len(seen) + 1 = (1 .. Len(seen)) \union {Len(seen) + 1}
      BY <1>1
    <3>3. ToSet(next) = ToSet(seen) \union {area[last]}
      <4> HIDE DEF A, R, next
      <4> QED
        BY <2>1, <3>1, <3>2 DEF ToSet
    <3> QED
      BY <1>1, <3>3
  <2> HIDE DEF next
  <2>3. ASSUME NEW p \in 1 .. Len(next), NEW q \in 1 .. Len(next), p < q
        PROVE  /\ next[p] # next[q]
               /\ \A k \in s : area[k] = next[q] => \E j \in s : j < k /\ area[j] = next[p]
    <3>1. p \in 1 .. Len(seen) /\ next[p] = seen[p]
      BY <1>1, <2>1, <2>3
    <3>2. CASE q \in 1 .. Len(seen)
      <4>1. next[q] = seen[q] /\ seen[q] \in R
        BY <1>1, <2>1, <3>2
      <4>2. next[q] # area[last]
        BY <1>1, <1>6, <4>1
      <4> QED
        BY <1>3, <2>3, <3>1, <3>2, <4>1, <4>2
    <3>3. CASE q = Len(seen) + 1
      <4>1. next[q] = area[last] /\ seen[p] \in R
        BY <1>1, <2>1, <3>1, <3>3
      <4>2. \A k \in s : area[k] = area[last] => k = last
        BY <1>1, <1>6
      <4> QED
        BY <1>1, <1>4, <1>6, <3>1, <4>1, <4>2
    <3> QED
      BY <1>1, <2>1, <3>2, <3>3
  <2>4. Collected(next, area, s)
    <3> HIDE DEF R, rest
    <3> QED
      BY <2>1, <2>2, <2>3 DEF Collected
  <2> QED
    BY <1>6, <2>4 DEF next
<1> QED
  BY <1>5, <1>6

\* NormalizeAreas gives each area that a label maps to once, in the order of
\* the first label that does.
THEOREM NormalizeAreasOnce ==
    ASSUME NEW L, NEW labels \in Seq(L)
    PROVE  Collected(NormalizeAreas(labels), [k \in DOMAIN labels |-> AreaOf(labels[k])],
                     DOMAIN labels)
<1> DEFINE S == DOMAIN labels
           area == [k \in S |-> AreaOf(labels[k])]
           V == Seq({area[k] : k \in S})
           base == <<>>
           pick == [s \in SUBSET S |-> Max(s)]
           next(seen, a) == IF a \in ToSet(seen) THEN seen ELSE Append(seen, a)
           step == [e \in S \X V |-> next(e[2], area[e[1]])]
           Solves(g) == g = [s \in SUBSET S |->
               IF s = {} THEN <<>>
               ELSE IF AreaOf(labels[Max(s)]) \in ToSet(g[s \ {Max(s)}]) THEN g[s \ {Max(s)}]
                    ELSE Append(g[s \ {Max(s)}], AreaOf(labels[Max(s)]))]
           iter == CHOOSE g : Solves(g)
<1>1. NormalizeAreas(labels) = iter[S]
  BY Zenon DEF NormalizeAreas, FoldLeft, MapThenFoldSet
<1>2. S = 1 .. Len(labels) /\ Len(labels) \in Nat /\ IsFiniteSet(S)
  <2>1. S = 1 .. Len(labels) /\ Len(labels) \in Nat
    BY LenProperties
  <2> HIDE DEF S
  <2> QED
    BY <2>1, FS_Interval
<1>3. \A k \in S : area[k] = AreaOf(labels[k])
  OBVIOUS
<1>4. ASSUME NEW s \in SUBSET S, s # {} PROVE Max(s) \in s /\ \A k \in s : k <= Max(s)
  <2> HIDE DEF S
  <2>1. s \in SUBSET (0 .. Len(labels))
    BY <1>2
  <2> QED
    BY <1>2, <1>4, <2>1, MaxIsElement
<1>5. base \in V
  BY EmptySeq
<1>6. step \in [S \X V -> V] /\ \A x \in S, seen \in V : step[<<x, seen>>] = next(seen, area[x])
  <2>1. \A x \in S, seen \in V : next(seen, area[x]) \in V
    <3> HIDE DEF area, S
    <3> QED
      OBVIOUS
  <2> HIDE DEF next, area, V, S
  <2> QED
    BY <2>1
<1>7. \A s \in SUBSET S : pick[s] = Max(s)
  OBVIOUS
<1> HIDE DEF S, area, V, base, pick, step
<1>8. PICK g \in [SUBSET S -> V] : \A s \in SUBSET S : g[s] = FoldStep(base, step, pick, g, s)
  <2>1. Picks(pick, S)
    BY <1>4, <1>7 DEF Picks
  <2>2. IsFiniteSet(S) /\ step \in [S \X V -> V]
    BY <1>2, <1>6
  <2>3. \E g : IsFold(g, base, step, pick, S, V)
    BY <1>5, <2>1, <2>2, FoldHasSolution
  <2> QED
    BY <2>3 DEF IsFold
<1>9. Solves(g)
  <2>1. ASSUME NEW s \in SUBSET S, s # {}
        PROVE  g[s] = IF AreaOf(labels[Max(s)]) \in ToSet(g[s \ {Max(s)}])
                      THEN g[s \ {Max(s)}]
                      ELSE Append(g[s \ {Max(s)}], AreaOf(labels[Max(s)]))
    <3> DEFINE m == Max(s)
               rest == s \ {m}
    <3>1. m \in S /\ rest \in SUBSET S /\ pick[s] = m
      BY <1>4, <1>7, <2>1
    <3> HIDE DEF m
    <3>2. g[s] = step[<<m, g[rest]>>]
      BY <1>8, <2>1, <3>1 DEF FoldStep
    <3>3. g[rest] \in V
      BY <3>1
    <3>4. g[s] = next(g[rest], area[m])
      BY <1>6, <3>1, <3>2, <3>3
    <3> QED
      BY <1>3, <3>1, <3>4 DEF m
  <2>2. g[{}] = <<>>
    BY <1>8 DEF FoldStep, base
  <2> QED
    BY <2>1, <2>2
<1>10. Solves(iter)
  <2> HIDE DEF Solves
  <2> QED
    BY <1>9
<1> DEFINE Good == {s \in SUBSET S : Collected(iter[s], area, s)}
<1>11. ASSUME NEW s \in SUBSET S, \A x \in s : s \ {x} \in Good PROVE s \in Good
  <2> HIDE DEF iter
  <2>1. CASE s = {}
    <3>1. iter[s] = <<>>
      BY <1>10, <2>1
    <3>2. Collected(<<>>, area, {})
      BY EmptySeq DEF Collected, ToSet
    <3> QED
      BY <2>1, <3>1, <3>2
  <2>2. CASE s # {}
    <3> DEFINE m == Max(s)
               seen == iter[s \ {m}]
    <3>1. m \in s /\ \A k \in s : k <= m
      BY <1>4, <2>2
    <3>2. iter[s] = IF AreaOf(labels[m]) \in ToSet(seen) THEN seen
                    ELSE Append(seen, AreaOf(labels[m]))
      BY <1>10, <2>2
    <3> HIDE DEF m
    <3>3. Collected(seen, area, s \ {m})
      BY <1>11, <3>1
    <3> HIDE DEF seen
    <3>4. AreaOf(labels[m]) = area[m] /\ s \in SUBSET Nat
      BY <1>2, <1>3, <3>1
    <3>5. Collected(IF area[m] \in ToSet(seen) THEN seen ELSE Append(seen, area[m]), area, s)
      BY <3>1, <3>3, <3>4, CollectedNext
    <3>6. iter[s] = IF area[m] \in ToSet(seen) THEN seen ELSE Append(seen, area[m])
      BY <3>2, <3>4
    <3> QED
      BY <3>5, <3>6
  <2> QED
    BY <2>1, <2>2
<1> HIDE DEF Good, iter
<1>12. SUBSET S \subseteq Good
  <2>1. IsFiniteSet(S) /\ PassesUp(Good, S)
    BY <1>2, <1>11 DEF PassesUp
  <2> QED
    BY <2>1, InductionOnSubsets
<1> QED
  BY <1>1, <1>12 DEF Good, area, S
=============================================================================
