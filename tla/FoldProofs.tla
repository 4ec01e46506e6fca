----------------------------- MODULE FoldProofs -----------------------------
(***************************************************************************)
(* What the folds of the community modules compute, for the proofs about   *)
(* the sums and the filters of the other modules.  A fold takes the        *)
(* elements of an index set one by one, in an order its choice function    *)
(* fixes, by a function defined recursively on the subsets of that set.    *)
(* The lemmas here show that this function exists and what it is, by       *)
(* induction in the form the provers can use: a set of numbers that holds  *)
(* zero and every successor holds all.                                     *)
(***************************************************************************)
EXTENDS Integers, Sequences, SequencesExt, FiniteSetTheorems, WellFoundedInduction, TLAPS

\* A non-empty set of naturals has a least element.
LEMMA LeastOfNats ==
  ASSUME NEW S \in SUBSET Nat, S # {}
  PROVE  \E x \in S : \A y \in S : x <= y
<1>1. PICK x \in S : \A y \in S : ~ (<<y, x>> \in OpToRel(<, Nat))
  BY NatLessThanWellFounded, WFMin
<1>2. ASSUME NEW y \in S PROVE x <= y
  <2>1. OpToRel(<, Nat) = {ss \in Nat \X Nat : ss[1] < ss[2]}
    BY Zenon DEF OpToRel
  <2>2. <<y, x>> \notin {ss \in Nat \X Nat : ss[1] < ss[2]}
    BY <1>1, <2>1, Zenon
  <2>3. QED
    BY <2>2
<1>3. QED
  BY <1>2

\* A bounded one has a greatest, which Max returns.
LEMMA MaxOfNats ==
  ASSUME NEW n \in Nat, NEW S \in SUBSET (0..n), S # {}
  PROVE  Max(S) \in S /\ \A y \in S : Max(S) >= y
<1> DEFINE D == {n - y : y \in S}
<1>1. D \in SUBSET Nat /\ D # {}
  <2>1. ASSUME NEW y \in S PROVE n - y \in Nat
    <3>1. y \in 0..n OBVIOUS
    <3> QED BY <3>1
  <2> QED BY <2>1
<1>2. PICK d \in D : \A y \in D : d <= y BY <1>1, LeastOfNats
<1>3. PICK x \in S : d = n - x OBVIOUS
<1>4. ASSUME NEW y \in S PROVE x >= y
  <2>1. n - y \in D OBVIOUS
  <2>2. n - x <= n - y BY <1>2, <1>3, <2>1
  <2>3. x \in Nat /\ y \in Nat OBVIOUS
  <2> QED BY <2>2, <2>3
<1> QED BY <1>4 DEF Max

\* Induction over the naturals, over a set of them.
LEMMA InductionOnNats ==
  ASSUME NEW S \in SUBSET Nat, 0 \in S, \A m \in S : m + 1 \in S
  PROVE  S = Nat
<1> SUFFICES ASSUME S # Nat PROVE FALSE
  OBVIOUS
<1>1. PICK x \in Nat \ S : \A y \in Nat \ S : x <= y
  BY LeastOfNats
<1>2. x - 1 \in S /\ x # 0
  <2>1. x # 0 OBVIOUS
  <2>2. x - 1 \in Nat /\ x - 1 < x BY <2>1
  <2> QED BY <1>1, <2>1, <2>2
<1> QED BY <1>2

\* A function on the subsets of T that adds the weight of every element.
Additive(g, w, T) ==
  /\ g \in [SUBSET T -> Int]
  /\ g[{}] = 0
  /\ \A s \in SUBSET T : \A c \in s : g[s] = w[c] + g[s \ {c}]

\* There is one for any weights.
LEMMA AdditiveExists ==
  ASSUME NEW n \in Nat, NEW w \in [1..n -> Int]
  PROVE  \E g : Additive(g, w, 1..n)
<1> DEFINE P == {m \in Nat : m <= n => \E g : Additive(g, w, 1..m)}
<1>1. 0 \in P
  <2>1. Additive([s \in SUBSET (1..0) |-> 0], w, 1..0) BY DEF Additive
  <2> QED BY <2>1
<1>2. ASSUME NEW m \in P PROVE m + 1 \in P
  <2> SUFFICES ASSUME m + 1 <= n PROVE \E g : Additive(g, w, 1..(m + 1))
    OBVIOUS
  <2>1. m \in Nat /\ m <= n /\ m + 1 \in 1..n OBVIOUS
  <2>2. PICK g : Additive(g, w, 1..m) BY <2>1
  <2> DEFINE top == m + 1
             h == [s \in SUBSET (1..top) |-> IF top \in s THEN w[top] + g[s \ {top}] ELSE g[s]]
  <2>3. \A s \in SUBSET (1..top) : s \ {top} \in SUBSET (1..m) /\ (top \notin s => s \in SUBSET (1..m))
    BY <2>1
  <2>4. w[top] \in Int BY <2>1
  <2>5. /\ g \in [SUBSET (1..m) -> Int] /\ g[{}] = 0
        /\ \A s \in SUBSET (1..m) : \A c \in s : g[s] = w[c] + g[s \ {c}]
    BY <2>2 DEF Additive
  <2>6. h \in [SUBSET (1..top) -> Int] BY <2>3, <2>4, <2>5
  <2>7. h[{}] = 0 BY <2>5
  <2>8. ASSUME NEW s \in SUBSET (1..top), NEW c \in s PROVE h[s] = w[c] + h[s \ {c}]
    <3>1. s \ {c} \in SUBSET (1..top) OBVIOUS
    <3>2. CASE c = top
      BY <2>3, <3>1, <3>2
    <3>3. CASE c # top /\ top \in s
      <4>1. c \in s \ {top} /\ s \ {top} \in SUBSET (1..m) BY <2>3, <3>3
      <4>2. g[s \ {top}] = w[c] + g[(s \ {top}) \ {c}] BY <2>5, <4>1
      <4>3. (s \ {top}) \ {c} = (s \ {c}) \ {top} /\ top \in s \ {c} BY <3>3
      <4>4. h[s] = w[top] + g[s \ {top}] BY <3>3
      <4>5. h[s \ {c}] = w[top] + g[(s \ {c}) \ {top}] BY <3>1, <4>3
      <4>6. w[c] \in Int /\ g[(s \ {c}) \ {top}] \in Int
        <5>1. c \in 1..n BY <2>1
        <5>2. (s \ {c}) \ {top} \in SUBSET (1..m) BY <2>3, <3>1
        <5> QED BY <2>5, <5>1, <5>2
      <4>7. \A a, b, d \in Int : a + (b + d) = b + (a + d) OBVIOUS
      <4>8. g[s \ {top}] = w[c] + g[(s \ {c}) \ {top}] BY <4>2, <4>3, Zenon
      <4>9. h[s] = w[top] + (w[c] + g[(s \ {c}) \ {top}]) BY <4>4, <4>8, Zenon
      <4> HIDE DEF h, top
      <4>10. w[top] + (w[c] + g[(s \ {c}) \ {top}]) = w[c] + (w[top] + g[(s \ {c}) \ {top}])
        BY <2>4, <4>6, <4>7, Zenon
      <4> QED BY <4>5, <4>9, <4>10, Zenon
    <3>4. CASE top \notin s
      <4>1. s \in SUBSET (1..m) /\ top \notin s \ {c} BY <2>3, <3>4
      <4>2. g[s] = w[c] + g[s \ {c}] BY <2>5, <4>1
      <4>3. h[s] = g[s] BY <3>4
      <4>4. h[s \ {c}] = g[s \ {c}] BY <3>1, <4>1
      <4> HIDE DEF h
      <4> QED BY <4>2, <4>3, <4>4
    <3> QED BY <3>2, <3>3, <3>4
  <2> HIDE DEF h
  <2>9. Additive(h, w, 1..top) BY <2>6, <2>7, <2>8 DEF Additive
  <2> QED BY <2>9
<1>3. P = Nat BY <1>1, <1>2, InductionOnNats
<1>4. n \in P BY <1>3
<1> QED BY <1>4

\* The total of the first indices is that of those before the last one, and
\* the last one's weight; so it depends on their weights only.
LEMMA AdditivePrefix ==
  ASSUME NEW n \in Nat, NEW g, NEW w, Additive(g, w, 1..n), NEW m \in 1..n
  PROVE  g[1..m] = w[m] + g[1..(m - 1)]
<1>1. 1..m \in SUBSET (1..n) /\ m \in 1..m /\ (1..m) \ {m} = 1..(m - 1)
  OBVIOUS
<1> QED BY <1>1 DEF Additive

\* Two weightings that agree have the same totals.
LEMMA AdditiveAgree ==
  ASSUME NEW n \in Nat, NEW m \in Nat, NEW g, NEW w, NEW h, NEW v,
         Additive(g, w, 1..n), Additive(h, v, 1..m), NEW l \in Nat, l <= n, l <= m,
         \A i \in 1..l : w[i] = v[i]
  PROVE  g[1..l] = h[1..l]
<1> DEFINE P == {k \in Nat : k <= l => g[1..k] = h[1..k]}
<1>1. 0 \in P
  <2>1. 1..0 = {} OBVIOUS
  <2>2. g[{}] = h[{}] BY DEF Additive
  <2> QED BY <2>1, <2>2
<1>2. ASSUME NEW k \in P PROVE k + 1 \in P
  <2> SUFFICES ASSUME k + 1 <= l PROVE g[1..(k + 1)] = h[1..(k + 1)]
    OBVIOUS
  <2>1. k \in Nat /\ g[1..k] = h[1..k] /\ k + 1 \in 1..n /\ k + 1 \in 1..m /\ k + 1 \in 1..l
    OBVIOUS
  <2>2. g[1..(k + 1)] = w[k + 1] + g[1..(k + 1 - 1)] /\ h[1..(k + 1)] = v[k + 1] + h[1..(k + 1 - 1)]
    BY <2>1, AdditivePrefix
  <2>3. k + 1 - 1 = k BY <2>1
  <2> QED BY <2>1, <2>2, <2>3
<1>3. P = Nat BY <1>1, <1>2, InductionOnNats
<1>4. l \in P BY <1>3
<1> QED BY <1>4

\* A sum that takes the elements of a finite set one by one, in whatever
\* order, is the total.
LEMMA FoldIsTotal ==
  ASSUME NEW T, IsFiniteSet(T), NEW w, NEW g, Additive(g, w, T), NEW it,
         it[{}] = 0,
         \A s \in SUBSET T : s # {} => \E c \in s : \/ it[s] = w[c] + it[s \ {c}]
                                                   \/ it[s] = it[s \ {c}] + w[c],
         \A c \in T : w[c] \in Int
  PROVE  it[T] = g[T]
<1>1. \A s \in SUBSET T : IsFiniteSet(s) /\ Cardinality(s) \in Nat
  BY FS_Subset, FS_CardinalityType
<1> DEFINE P == {k \in Nat : \A s \in SUBSET T : Cardinality(s) = k => it[s] = g[s]}
<1>2. 0 \in P
  <2>1. \A s \in SUBSET T : Cardinality(s) = 0 => s = {} BY <1>1, FS_EmptySet
  <2>2. it[{}] = g[{}] BY DEF Additive
  <2> QED BY <2>1, <2>2
<1>3. ASSUME NEW k \in P PROVE k + 1 \in P
  <2> SUFFICES ASSUME NEW s \in SUBSET T, Cardinality(s) = k + 1 PROVE it[s] = g[s]
    OBVIOUS
  <2>1. s # {}
    <3>1. k \in Nat /\ Cardinality({}) = 0 BY FS_EmptySet
    <3> HIDE DEF P
    <3>2. k + 1 # 0 BY <3>1
    <3> QED BY <3>1, <3>2, Zenon
  <2>2. PICK c \in s : it[s] = w[c] + it[s \ {c}] \/ it[s] = it[s \ {c}] + w[c] BY <2>1
  <2>3. s \ {c} \in SUBSET T OBVIOUS
  <2>4. it[s \ {c}] = g[s \ {c}]
    <3>1. IsFiniteSet(s) BY <1>1
    <3>2. Cardinality(s \ {c}) = Cardinality(s) - 1 BY <3>1, FS_RemoveElement, Zenon
    <3>3. k \in Nat /\ \A r \in SUBSET T : Cardinality(r) = k => it[r] = g[r] OBVIOUS
    <3> HIDE DEF P
    <3>4. Cardinality(s \ {c}) = k BY <3>2, <3>3
    <3> QED BY <2>3, <3>3, <3>4, Zenon
  <2> HIDE DEF P
  <2>5. g[s] = w[c] + g[s \ {c}] /\ g[s \ {c}] \in Int /\ w[c] \in Int BY <2>3 DEF Additive
  <2> QED BY <2>2, <2>4, <2>5
<1>4. P = Nat BY <1>2, <1>3, InductionOnNats
<1>5. T \in SUBSET T OBVIOUS
<1>6. Cardinality(T) \in P BY <1>1, <1>4, <1>5
<1>7. \A s \in SUBSET T : Cardinality(s) = Cardinality(T) => it[s] = g[s] BY <1>6
<1> QED BY <1>5, <1>7, Zenon

\* A sum that takes its elements one by one, in whatever order.
Sums(it, w, T) ==
  /\ IsFiniteSet(T) /\ it[{}] = 0
  /\ \A s \in SUBSET T : s # {} => \E c \in s : \/ it[s] = w[c] + it[s \ {c}]
                                                \/ it[s] = it[s \ {c}] + w[c]
  /\ \A c \in T : w[c] \in Int

\* What adds the weights up one by one is their total.
LEMMA SumIsTotal ==
  ASSUME NEW T, NEW w, NEW g, Additive(g, w, T), NEW it, Sums(it, w, T)
  PROVE  it[T] = g[T]
BY FoldIsTotal DEF Sums

\* Where everything weighs one, the total is the number of elements.
LEMMA UnitsAreCounted ==
  ASSUME NEW T, IsFiniteSet(T), NEW w, \A c \in T : w[c] = 1
  PROVE  Additive([s \in SUBSET T |-> Cardinality(s)], w, T)
<1>1. \A s \in SUBSET T : IsFiniteSet(s) /\ Cardinality(s) \in Nat
  BY FS_Subset, FS_CardinalityType
<1>2. Cardinality({}) = 0 BY FS_EmptySet
<1>3. ASSUME NEW s \in SUBSET T, NEW c \in s PROVE Cardinality(s) = w[c] + Cardinality(s \ {c})
  <2>1. Cardinality(s \ {c}) = Cardinality(s) - 1 BY <1>1, FS_RemoveElement
  <2> QED BY <1>1, <2>1
<1> QED BY <1>1, <1>2, <1>3 DEF Additive

\* Sets of X, apart from one another, and the union of some.
SetsApart(V, T, X) ==
  /\ IsFiniteSet(X) /\ \A c \in T : V[c] \in SUBSET X
  /\ \A c, d \in T : c # d => V[c] \cap V[d] = {}
UnionOf(V, s) == UNION {V[c] : c \in s}

\* Where everything weighs what a set apart from the others has, the total is
\* the number of elements of all these sets.
LEMMA UnionsAreCounted ==
  ASSUME NEW T, NEW X, NEW V, SetsApart(V, T, X), NEW w, \A c \in T : w[c] = Cardinality(V[c]),
         NEW g, g = [s \in SUBSET T |-> Cardinality(UnionOf(V, s))]
  PROVE  Additive(g, w, T)
<1> USE DEF SetsApart
<1> DEFINE U(s) == UNION {V[c] : c \in s}
<1>1. \A s \in SUBSET T : U(s) \in SUBSET X OBVIOUS
<1>2. \A Y \in SUBSET X : IsFiniteSet(Y) /\ Cardinality(Y) \in Nat BY FS_Subset, FS_CardinalityType
<1>3. \A s \in SUBSET T : Cardinality(U(s)) \in Int BY <1>1, <1>2
<1>4. Cardinality(U({})) = 0
  <2>1. U({}) = {} OBVIOUS
  <2> QED BY <2>1, FS_EmptySet
<1>5. ASSUME NEW s \in SUBSET T, NEW c \in s PROVE Cardinality(U(s)) = w[c] + Cardinality(U(s \ {c}))
  <2>1. PICK Y, Z : Y = V[c] /\ Z = U(s \ {c}) OBVIOUS
  <2>2. U(s) = Y \cup Z BY <2>1
  <2>3. Y \cap Z = {} BY <2>1
  <2>4. Y \in SUBSET X /\ Z \in SUBSET X /\ w[c] = Cardinality(Y)
    <3>1. s \ {c} \in SUBSET T OBVIOUS
    <3> QED BY <1>1, <2>1, <3>1
  <2> HIDE DEF U
  <2>5. IsFiniteSet(Y) /\ IsFiniteSet(Z) /\ Cardinality(Y) \in Nat /\ Cardinality(Z) \in Nat BY <1>2, <2>4
  <2>6. Cardinality(Y \cup Z) = Cardinality(Y) + Cardinality(Z) - Cardinality(Y \cap Z) BY <2>5, FS_Union
  <2>7. Cardinality(Y \cap Z) = 0 BY <2>3, FS_EmptySet
  <2> QED BY <2>1, <2>2, <2>4, <2>5, <2>6, <2>7
<1> HIDE DEF U
<1>6. Additive(g, w, T)
  <2>0. g = [s \in SUBSET T |-> Cardinality(U(s))] BY DEF U, UnionOf
  <2>1. g \in [SUBSET T -> Int] BY <1>3, <2>0
  <2>2. g[{}] = 0 BY <1>4, <2>0
  <2>3. ASSUME NEW s \in SUBSET T, NEW c \in s PROVE g[s] = w[c] + g[s \ {c}]
    <3>1. s \ {c} \in SUBSET T OBVIOUS
    <3> QED BY <1>5, <2>0, <3>1
  <2> QED BY <2>1, <2>2, <2>3 DEF Additive
<1> QED BY <1>6

\* The fold of a sequence's first n places that takes them in their order, by
\* an operation on A given as a table.
FoldOf(g, op, base, q, n, A) ==
  /\ g \in [SUBSET (1..n) -> A]
  /\ g[{}] = base
  /\ \A s \in SUBSET (1..n) : s # {} => g[s] = op[<<g[s \ {Max(s)}], q[Max(s)]>>]

\* There is one for any operation.
LEMMA FoldExists ==
  ASSUME NEW n \in Nat, NEW A, NEW B, NEW base \in A, NEW op \in [A \X B -> A], NEW q \in [1..n -> B]
  PROVE  \E g : FoldOf(g, op, base, q, n, A)
<1> DEFINE Good(g, m) == FoldOf(g, op, base, q, m, A)
           P == {m \in Nat : m <= n => \E g : Good(g, m)}
<1>1. 0 \in P
  <2> DEFINE g == [s \in SUBSET (1..0) |-> base]
  <2>1. SUBSET (1..0) = {{}} OBVIOUS
  <2>2. g \in [SUBSET (1..0) -> A] /\ g[{}] = base /\ \A s \in SUBSET (1..0) : s = {} BY <2>1
  <2> HIDE DEF g
  <2>3. Good(g, 0) BY <2>2 DEF FoldOf
  <2> HIDE DEF Good
  <2> QED BY <2>3
<1>2. ASSUME NEW m \in P PROVE m + 1 \in P
  <2> HIDE DEF Good
  <2> SUFFICES ASSUME m + 1 <= n PROVE \E h : Good(h, m + 1)
    OBVIOUS
  <2>1. m \in Nat /\ m <= n OBVIOUS
  <2>2. PICK g : Good(g, m) BY <2>1
  <2> USE DEF FoldOf, Good
  <2> HIDE DEF P
  <2> DEFINE top == m + 1
             h == [s \in SUBSET (1..top) |-> IF top \in s THEN op[<<g[s \ {top}], q[top]>>] ELSE g[s]]
  <2>3. \A s \in SUBSET (1..top) : s \ {top} \in SUBSET (1..m) /\ (top \notin s => s \in SUBSET (1..m))
    BY <2>1
  <2>4. top \in 1..n BY <2>1
  <2>5. h \in [SUBSET (1..top) -> A]
    <3>1. ASSUME NEW s \in SUBSET (1..top)
          PROVE  (IF top \in s THEN op[<<g[s \ {top}], q[top]>>] ELSE g[s]) \in A
      <4>1. g[s \ {top}] \in A /\ (top \notin s => g[s] \in A) BY <2>2, <2>3
      <4>2. <<g[s \ {top}], q[top]>> \in A \X B BY <2>4, <4>1
      <4> QED BY <4>1, <4>2
    <3> HIDE DEF top
    <3> QED BY <3>1
  <2>6. h[{}] = base
    <3>1. {} \in SUBSET (1..top) /\ top \notin {} OBVIOUS
    <3> QED BY <2>2, <3>1
  <2>7. ASSUME NEW s \in SUBSET (1..top), s # {} PROVE h[s] = op[<<h[s \ {Max(s)}], q[Max(s)]>>]
    <3>1. CASE top \in s
      <4>1. Max(s) = top
        <5>1. s \in SUBSET (0..top) /\ top \in Nat BY <2>1
        <5> HIDE DEF Good
        <5>2. Max(s) \in s /\ \A y \in s : Max(s) >= y
          <6> HIDE DEF top
          <6> QED BY <2>7, <5>1, MaxOfNats
        <5>3. Max(s) \in 1..top /\ Max(s) >= top BY <3>1, <5>2
        <5> QED BY <5>1, <5>3
      <4>2. h[s \ {top}] = g[s \ {top}] BY <2>3
      <4>3. h[s] = op[<<g[s \ {top}], q[top]>>] BY <3>1
      <4> HIDE DEF h, top
      <4> QED BY <4>1, <4>2, <4>3
    <3>2. CASE top \notin s
      <4>1. s \in SUBSET (1..m) /\ h[s] = g[s] BY <2>3, <3>2
      <4>2. s \ {Max(s)} \in SUBSET (1..top) /\ top \notin s \ {Max(s)} BY <3>2
      <4>3. h[s \ {Max(s)}] = g[s \ {Max(s)}] BY <4>2
      <4>4. g[s] = op[<<g[s \ {Max(s)}], q[Max(s)]>>] BY <2>2, <2>7, <4>1
      <4> HIDE DEF h, top
      <4> QED BY <4>1, <4>3, <4>4
    <3> QED BY <3>1, <3>2
  <2> HIDE DEF h
  <2>8. Good(h, m + 1) BY <2>5, <2>6, <2>7
  <2> HIDE DEF Good
  <2> QED BY <2>8
<1>3. P = Nat BY <1>1, <1>2, InductionOnNats
<1>4. n \in P BY <1>3
<1> HIDE DEF Good
<1>5. \E g : Good(g, n) BY <1>4
<1> QED BY <1>5 DEF Good

\* What every step of such a fold stays in, its result is in.
LEMMA FoldStaysIn ==
  ASSUME NEW n \in Nat, NEW A, NEW it, it[{}] \in A,
         \A s \in SUBSET (1..n) : s # {} /\ it[s \ {Max(s)}] \in A => it[s] \in A
  PROVE  \A s \in SUBSET (1..n) : it[s] \in A
<1> DEFINE P == {m \in Nat : m <= n => \A s \in SUBSET (1..m) : it[s] \in A}
<1>1. 0 \in P
  <2>1. \A s \in SUBSET (1..0) : s = {} OBVIOUS
  <2> QED BY <2>1
<1>2. ASSUME NEW m \in P PROVE m + 1 \in P
  <2> SUFFICES ASSUME m + 1 <= n, NEW s \in SUBSET (1..(m + 1)) PROVE it[s] \in A
    OBVIOUS
  <2>1. m \in Nat /\ \A t \in SUBSET (1..m) : it[t] \in A OBVIOUS
  <2> HIDE DEF P
  <2>2. CASE s = {} BY <2>2
  <2>3. CASE s # {} /\ m + 1 \in s
    <3>1. s \in SUBSET (0..(m + 1)) /\ m + 1 \in Nat BY <2>1
    <3>2. Max(s) \in s /\ \A y \in s : Max(s) >= y BY <2>3, <3>1, MaxOfNats
    <3>3. Max(s) \in 1..(m + 1) /\ Max(s) >= m + 1 BY <2>3, <3>2
    <3>4. Max(s) = m + 1 BY <3>1, <3>3
    <3>5. s \ {Max(s)} \in SUBSET (1..m) BY <2>1, <3>4
    <3>6. s \in SUBSET (1..n) BY <2>1
    <3> QED BY <2>1, <2>3, <3>5, <3>6
  <2>4. CASE m + 1 \notin s
    <3>1. s \in SUBSET (1..m) BY <2>1, <2>4
    <3> QED BY <2>1, <3>1
  <2> QED BY <2>2, <2>3, <2>4
<1>3. P = Nat BY <1>1, <1>2, InductionOnNats
<1>4. n \in P BY <1>3
<1> QED BY <1>4

\* A function that steps so on what it holds is such a fold.
LEMMA FoldIsOf ==
  ASSUME NEW n \in Nat, NEW A, NEW B, NEW base \in A, NEW op \in [A \X B -> A], NEW q \in [1..n -> B],
         NEW it, it = [x \in SUBSET (1..n) |-> it[x]], it[{}] = base,
         \A s \in SUBSET (1..n) :
           s # {} /\ it[s \ {Max(s)}] \in A => it[s] = op[<<it[s \ {Max(s)}], q[Max(s)]>>]
  PROVE  FoldOf(it, op, base, q, n, A)
<1>1. ASSUME NEW s \in SUBSET (1..n), s # {}, it[s \ {Max(s)}] \in A PROVE it[s] \in A
  <2>1. Max(s) \in s
    <3>1. s \in SUBSET (0..n) OBVIOUS
    <3> QED BY <1>1, <3>1, MaxOfNats
  <2>2. q[Max(s)] \in B BY <2>1
  <2>3. op[<<it[s \ {Max(s)}], q[Max(s)]>>] \in A BY <1>1, <2>2
  <2> QED BY <1>1, <2>3
<1>2. \A s \in SUBSET (1..n) : it[s] \in A BY <1>1, FoldStaysIn
<1>3. it \in [SUBSET (1..n) -> A] BY <1>2
<1>4. \A s \in SUBSET (1..n) : s \ {Max(s)} \in SUBSET (1..n) OBVIOUS
<1>5. \A s \in SUBSET (1..n) : s # {} => it[s] = op[<<it[s \ {Max(s)}], q[Max(s)]>>] BY <1>2, <1>4
<1> QED BY <1>3, <1>5 DEF FoldOf

\* Each place of such a fold takes what the places before it came to.
LEMMA FoldStep ==
  ASSUME NEW n \in Nat, NEW A, NEW g, NEW op, NEW base, NEW q,
         FoldOf(g, op, base, q, n, A), NEW m \in 1..n
  PROVE  g[1..m] = op[<<g[1..(m - 1)], q[m]>>]
<1>1. 1..m \in SUBSET (1..n) /\ 1..m # {} /\ 1..m \in SUBSET (0..m) /\ m \in 1..m
  OBVIOUS
<1>2. Max(1..m) \in 1..m /\ Max(1..m) >= m
  <2> DEFINE S == 1..m
  <2>1. S \in SUBSET (0..m) /\ S # {} /\ m \in S /\ m \in Nat BY <1>1
  <2> HIDE DEF S
  <2>2. Max(S) \in S /\ \A y \in S : Max(S) >= y BY <2>1, MaxOfNats
  <2>3. Max(S) >= m BY <2>1, <2>2, Zenon
  <2> QED BY <2>2, <2>3 DEF S
<1>3. Max(1..m) = m
  <2>1. \A x \in 1..m : x >= m => x = m OBVIOUS
  <2> QED BY <1>2, <2>1, Zenon
<1>4. (1..m) \ {m} = 1..(m - 1) OBVIOUS
<1>5. g[1..m] = op[<<g[(1..m) \ {Max(1..m)}], q[Max(1..m)]>>] BY <1>1 DEF FoldOf
<1> QED BY <1>3, <1>4, <1>5

\* So two folds of what agrees on its first places agree there.
LEMMA FoldsAgree ==
  ASSUME NEW n \in Nat, NEW m \in Nat, NEW A, NEW g, NEW h, NEW op, NEW base, NEW q, NEW r,
         FoldOf(g, op, base, q, n, A), FoldOf(h, op, base, r, m, A),
         NEW l \in Nat, l <= n, l <= m, \A i \in 1..l : q[i] = r[i]
  PROVE  g[1..l] = h[1..l]
<1> DEFINE P == {k \in Nat : k <= l => g[1..k] = h[1..k]}
<1>1. 0 \in P
  <2>1. 1..0 = {} OBVIOUS
  <2>2. g[{}] = h[{}] BY DEF FoldOf
  <2> QED BY <2>1, <2>2
<1>2. ASSUME NEW k \in P PROVE k + 1 \in P
  <2> SUFFICES ASSUME k + 1 <= l PROVE g[1..(k + 1)] = h[1..(k + 1)]
    OBVIOUS
  <2>1. k \in Nat /\ g[1..k] = h[1..k] /\ k + 1 \in 1..n /\ k + 1 \in 1..m /\ k + 1 \in 1..l /\ (k + 1) - 1 = k
    OBVIOUS
  <2> HIDE DEF P
  <2>2. g[1..(k + 1)] = op[<<g[1..((k + 1) - 1)], q[k + 1]>>] BY <2>1, FoldStep
  <2>3. h[1..(k + 1)] = op[<<h[1..((k + 1) - 1)], r[k + 1]>>] BY <2>1, FoldStep
  <2>4. q[k + 1] = r[k + 1] BY <2>1
  <2> QED BY <2>1, <2>2, <2>3, <2>4, Zenon
<1>3. P = Nat BY <1>1, <1>2, InductionOnNats
<1>4. l \in P BY <1>3
<1> QED BY <1>4

\* The pieces of a sequence put together place by place.
Joins(g, q, n, B) ==
  /\ g \in [1..n -> Seq(B)]
  /\ \A i \in 1..n : g[i] = IF i = 1 THEN q[i] ELSE g[i - 1] \o q[i]

\* There is a way to put them together.
LEMMA JoinExists ==
  ASSUME NEW n \in Nat, NEW B, NEW q \in [1..n -> Seq(B)]
  PROVE  \E g : Joins(g, q, n, B)
<1> DEFINE P == {m \in Nat : m <= n => \E g : Joins(g, q, m, B)}
<1>1. 0 \in P
  <2>1. 1..0 = {} OBVIOUS
  <2>2. Joins([i \in 1..0 |-> <<>>], q, 0, B) BY <2>1 DEF Joins
  <2> QED BY <2>2
<1>2. ASSUME NEW m \in P PROVE m + 1 \in P
  <2> SUFFICES ASSUME m + 1 <= n PROVE \E h : Joins(h, q, m + 1, B)
    OBVIOUS
  <2>1. m \in Nat /\ m <= n OBVIOUS
  <2>2. PICK g : Joins(g, q, m, B) BY <2>1
  <2> HIDE DEF P
  <2> DEFINE top == m + 1
             last == IF top = 1 THEN q[top] ELSE g[m] \o q[top]
             h == [i \in 1..top |-> IF i = top THEN last ELSE g[i]]
  <2>3. /\ top \in 1..n /\ top \in 1..top /\ top - 1 = m /\ (top # 1 => m \in 1..m)
        /\ \A i \in 1..top : i # top => i \in 1..m /\ (i # 1 => i - 1 \in 1..m /\ i - 1 # top)
    BY <2>1
  <2>4. last \in Seq(B)
    <3>1. q[top] \in Seq(B) BY <2>3
    <3>2. top # 1 => g[m] \in Seq(B) BY <2>2, <2>3 DEF Joins
    <3> HIDE DEF top
    <3> QED BY <3>1, <3>2
  <2> HIDE DEF last
  <2>5. h \in [1..top -> Seq(B)]
    <3>1. \A i \in 1..top : (IF i = top THEN last ELSE g[i]) \in Seq(B) BY <2>2, <2>3, <2>4 DEF Joins
    <3> HIDE DEF top
    <3> QED BY <3>1
  <2>6. ASSUME NEW i \in 1..top PROVE h[i] = IF i = 1 THEN q[i] ELSE h[i - 1] \o q[i]
    <3>1. CASE i = top
      <4>1. h[i] = last BY <3>1
      <4>2. top # 1 => h[m] = g[m]
        <5>1. top # 1 => m \in 1..top /\ m # top BY <2>1
        <5> QED BY <5>1
      <4> HIDE DEF h
      <4>3. i - 1 = m BY <2>3, <3>1
      <4> HIDE DEF top
      <4> QED BY <3>1, <4>1, <4>2, <4>3 DEF last
    <3>2. CASE i # top
      <4>1. h[i] = g[i] BY <3>2
      <4>2. i \in 1..m /\ (i # 1 => i - 1 \in 1..top /\ h[i - 1] = g[i - 1])
        <5>1. i \in 1..m /\ (i # 1 => i - 1 \in 1..top /\ i - 1 # top) BY <2>1, <2>3, <3>2
        <5> QED BY <5>1
      <4>3. g[i] = IF i = 1 THEN q[i] ELSE g[i - 1] \o q[i] BY <2>2, <4>2 DEF Joins
      <4> HIDE DEF h, top
      <4> QED BY <4>1, <4>2, <4>3, Zenon
    <3> QED BY <3>1, <3>2
  <2> HIDE DEF h
  <2>7. Joins(h, q, top, B) BY <2>5, <2>6 DEF Joins
  <2> QED BY <2>7
<1>3. P = Nat BY <1>1, <1>2, InductionOnNats
<1>4. n \in P BY <1>3
<1> QED BY <1>4

BeginsLike(h, r, m, g, q, l, B) ==
  /\ l \in Nat /\ m \in Nat /\ l <= m /\ Joins(g, q, l, B) /\ Joins(h, r, m, B)
  /\ \A i \in 1..l : q[i] = r[i]

\* The first places put together depend on those places only.
LEMMA JoinsAgree ==
  ASSUME NEW l, NEW m, NEW B, NEW g, NEW h, NEW q, NEW r, BeginsLike(h, r, m, g, q, l, B)
  PROVE  \A k \in 1..l : g[k] = h[k]
<1> USE DEF BeginsLike
<1> DEFINE P == {k \in Nat : k \in 1..l => g[k] = h[k]}
<1>1. 0 \in P OBVIOUS
<1>2. ASSUME NEW k \in P PROVE k + 1 \in P
  <2> SUFFICES ASSUME k + 1 \in 1..l PROVE g[k + 1] = h[k + 1]
    OBVIOUS
  <2>1. k \in Nat /\ k + 1 \in 1..l /\ k + 1 \in 1..m /\ (k + 1) - 1 = k /\ (k + 1 # 1 => k \in 1..l)
    OBVIOUS
  <2>2. k + 1 # 1 => g[k] = h[k] BY <2>1
  <2> HIDE DEF P
  <2> DEFINE top == k + 1
  <2>3. top - 1 = k /\ top \in 1..l /\ top \in 1..m BY <2>1
  <2> HIDE DEF top
  <2>4. g[top] = IF top = 1 THEN q[top] ELSE g[k] \o q[top] BY <2>3 DEF Joins
  <2>5. h[top] = IF top = 1 THEN r[top] ELSE h[k] \o r[top] BY <2>3 DEF Joins
  <2>6. q[top] = r[top] BY DEF top
  <2>7. top # 1 => g[k] = h[k] BY <2>2 DEF top
  <2>8. g[top] = h[top] BY <2>4, <2>5, <2>6, <2>7, Zenon
  <2> QED BY <2>8 DEF top
<1>3. P = Nat BY <1>1, <1>2, InductionOnNats
<1> QED BY <1>3

\* FlattenSeq puts the pieces of a sequence together so.
LEMMA FlattenJoins ==
  ASSUME NEW B, NEW q \in Seq(Seq(B)), Len(q) # 0
  PROVE  \E g : Joins(g, q, Len(q), B) /\ FlattenSeq(q) = g[Len(q)]
<1> DEFINE Flat(f) == f = [i \in 1..Len(q) |-> IF i = 1 THEN q[i] ELSE f[i - 1] \o q[i]]
           it == CHOOSE f : Flat(f)
<1>1. Len(q) \in Nat /\ q \in [1..Len(q) -> Seq(B)] OBVIOUS
<1>2. FlattenSeq(q) = it[Len(q)] BY Zenon DEF FlattenSeq
<1>3. PICK g : Joins(g, q, Len(q), B) BY <1>1, JoinExists
<1>4. Flat(g)
  <2>1. g = [i \in 1..Len(q) |-> g[i]] BY <1>3 DEF Joins
  <2>2. \A i \in 1..Len(q) : g[i] = IF i = 1 THEN q[i] ELSE g[i - 1] \o q[i] BY <1>3 DEF Joins
  <2> QED BY <2>1, <2>2
<1>5. Flat(it)
  <2> HIDE DEF Flat
  <2> QED BY <1>4, Zenon
<1>6. \A i \in 1..Len(q) : it[i] = IF i = 1 THEN q[i] ELSE it[i - 1] \o q[i]
  <2> HIDE DEF it
  <2> QED BY <1>5
<1> DEFINE P == {k \in Nat : k \in 1..Len(q) => it[k] \in Seq(B)}
<1>7. P = Nat
  <2> HIDE DEF it
  <2>1. 0 \in P OBVIOUS
  <2>2. ASSUME NEW k \in P PROVE k + 1 \in P
    <3> SUFFICES ASSUME k + 1 \in 1..Len(q) PROVE it[k + 1] \in Seq(B)
      OBVIOUS
    <3>1. k \in Nat /\ (k + 1) - 1 = k /\ (k + 1 # 1 => k \in 1..Len(q)) BY <1>1
    <3>2. k + 1 # 1 => it[k] \in Seq(B) BY <3>1
    <3>3. q[k + 1] \in Seq(B) BY <1>1
    <3>4. it[k + 1] = IF k + 1 = 1 THEN q[k + 1] ELSE it[k] \o q[k + 1] BY <1>6, <3>1
    <3> QED BY <3>2, <3>3, <3>4
  <2>3. P \in SUBSET Nat OBVIOUS
  <2> HIDE DEF P
  <2> QED BY <2>1, <2>2, <2>3, InductionOnNats
<1>8. Joins(it, q, Len(q), B)
  <2> HIDE DEF it
  <2>1. \A k \in 1..Len(q) : k \in Nat OBVIOUS
  <2>2. \A k \in 1..Len(q) : it[k] \in Seq(B) BY <1>7, <2>1
  <2>3. it = [i \in 1..Len(q) |-> it[i]]
    <3>1. DOMAIN it = 1..Len(q) /\ it = [i \in DOMAIN it |-> it[i]] BY <1>5
    <3> QED BY <3>1
  <2>4. it \in [1..Len(q) -> Seq(B)] BY <2>2, <2>3
  <2> QED BY <1>6, <2>4 DEF Joins
<1> QED BY <1>2, <1>8

\* One piece more comes at the end.
LEMMA FlattenAppend ==
  ASSUME NEW B, NEW q \in Seq(Seq(B)), NEW x \in Seq(B)
  PROVE  /\ FlattenSeq(Append(q, x)) = FlattenSeq(q) \o x
         /\ FlattenSeq(q) \in Seq(B)
<1> DEFINE r == Append(q, x)
           n == Len(q)
<1>1. /\ r \in Seq(Seq(B)) /\ Len(r) = n + 1 /\ n \in Nat /\ \A i \in 1..n : r[i] = q[i]
      /\ r[n + 1] = x /\ Len(r) # 0 /\ Len(r) \in Nat
  OBVIOUS
<1> HIDE DEF r
<1>2. PICK h : Joins(h, r, Len(r), B) /\ FlattenSeq(r) = h[Len(r)] BY <1>1, FlattenJoins
<1>3. FlattenSeq(r) = IF n + 1 = 1 THEN x ELSE h[n] \o x
  <2>1. Len(r) \in 1..Len(r) /\ Len(r) - 1 = n BY <1>1
  <2> QED BY <1>1, <1>2, <2>1 DEF Joins
<1>4. CASE n = 0
  <2>1. q = <<>> BY <1>4
  <2>2. FlattenSeq(q) = q
    <3>1. Len(q) = 0 BY <1>4
    <3> QED BY <3>1, Zenon DEF FlattenSeq
  <2>3. FlattenSeq(r) = x BY <1>3, <1>4
  <2>4. <<>> \o x = x /\ <<>> \in Seq(B) OBVIOUS
  <2> QED BY <2>1, <2>2, <2>3, <2>4 DEF r
<1>5. CASE n # 0
  <2>1. PICK g : Joins(g, q, n, B) /\ FlattenSeq(q) = g[n] BY <1>5, FlattenJoins
  <2>2. n \in 1..n /\ n <= n /\ n <= Len(r) /\ n + 1 # 1 BY <1>1, <1>5
  <2>3. \A k \in 1..n : g[k] = h[k]
    <3> HIDE DEF n
    <3>1. n \in Nat /\ Len(r) \in Nat /\ n <= Len(r) BY <1>1, <2>2
    <3>2. \A k \in 1..n : q[k] = r[k] BY <1>1
    <3>3. Joins(h, r, Len(r), B) BY <1>2
    <3>4. BeginsLike(h, r, Len(r), g, q, n, B) BY <2>1, <3>1, <3>2, <3>3 DEF BeginsLike
    <3> QED BY <3>4, JoinsAgree
  <2>4. g[n] = h[n] BY <2>2, <2>3
  <2>5. FlattenSeq(q) \in Seq(B) BY <2>1, <2>2 DEF Joins
  <2>6. FlattenSeq(r) = FlattenSeq(q) \o x BY <1>3, <2>1, <2>2, <2>4
  <2> QED BY <2>5, <2>6 DEF r
<1> QED BY <1>4, <1>5

\* An operation that passes an element of B or appends it to a sequence, only
\* ever one that is in kept, and holds it afterwards if it is.
Picks(op, kept, B) ==
  /\ op \in [Seq(B) \X B -> Seq(B)]
  /\ \A r \in Seq(B), x \in B :
       /\ op[<<r, x>>] = r \/ (x \in kept /\ op[<<r, x>>] = Append(r, x))
       /\ x \in kept => \E j \in 1..Len(op[<<r, x>>]) : op[<<r, x>>][j] = x

\* The sequence r is picked from the first m places of q.
PickedOf(r, q, m, kept, B) ==
  /\ r \in Seq(B) /\ Len(r) <= m
  /\ \A i \in 1..m : q[i] \in kept => \E j \in 1..Len(r) : r[j] = q[i]
  /\ \A j \in 1..Len(r) : r[j] \in kept /\ \E i \in 1..m : r[j] = q[i]
  /\ Len(r) = m => \A i \in 1..m : r[i] = q[i]

\* One place more is picked from.
LEMMA PickStep ==
  ASSUME NEW m \in Nat, NEW B, NEW kept, NEW op, NEW q, NEW r,
         Picks(op, kept, B), PickedOf(r, q, m, kept, B), q[m + 1] \in B
  PROVE  PickedOf(op[<<r, q[m + 1]>>], q, m + 1, kept, B)
<1>1. PICK x \in B : x = q[m + 1] OBVIOUS
<1>2. PICK s : s = op[<<r, x>>] OBVIOUS
<1>3. /\ r \in Seq(B) /\ Len(r) \in Nat /\ Len(r) <= m
      /\ \A i \in 1..m : q[i] \in kept => \E j \in 1..Len(r) : r[j] = q[i]
      /\ \A j \in 1..Len(r) : r[j] \in kept /\ \E i \in 1..m : r[j] = q[i]
      /\ Len(r) = m => \A i \in 1..m : r[i] = q[i]
  <2>1. /\ r \in Seq(B) /\ Len(r) <= m
        /\ \A i \in 1..m : q[i] \in kept => \E j \in 1..Len(r) : r[j] = q[i]
        /\ \A j \in 1..Len(r) : r[j] \in kept /\ \E i \in 1..m : r[j] = q[i]
        /\ Len(r) = m => \A i \in 1..m : r[i] = q[i]
    BY Zenon DEF PickedOf
  <2>2. \A z \in Seq(B) : Len(z) \in Nat
    OBVIOUS
  <2>3. QED
    BY <2>1, <2>2, Zenon
<1>4. /\ s = r \/ (x \in kept /\ s = Append(r, x))
      /\ x \in kept => \E j \in 1..Len(s) : s[j] = x
  BY <1>2, <1>3 DEF Picks
<1>5. m + 1 \in 1..(m + 1) /\ \A i \in 1..(m + 1) : i \in 1..m \/ i = m + 1
  OBVIOUS
<1>6. CASE s = r
  <2>1. Len(s) <= m + 1 /\ Len(s) # m + 1 BY <1>3, <1>6
  <2>2. ASSUME NEW i \in 1..(m + 1), q[i] \in kept PROVE \E j \in 1..Len(s) : s[j] = q[i]
    <3>1. CASE i \in 1..m BY <1>3, <1>6, <2>2, <3>1
    <3>2. CASE i = m + 1 BY <1>1, <1>4, <2>2, <3>2
    <3> QED BY <1>5, <3>1, <3>2
  <2>3. \A j \in 1..Len(s) : s[j] \in kept /\ \E i \in 1..(m + 1) : s[j] = q[i] BY <1>3, <1>6
  <2> HIDE DEF Picks
  <2>4. PickedOf(s, q, m + 1, kept, B) BY <1>3, <1>6, <2>1, <2>2, <2>3 DEF PickedOf
  <2> QED BY <1>1, <1>2, <2>4
<1>7. CASE x \in kept /\ s = Append(r, x)
  <2>1. /\ s \in Seq(B) /\ Len(s) = Len(r) + 1 /\ s[Len(r) + 1] = x
        /\ \A j \in 1..Len(r) : s[j] = r[j]
    BY <1>3, <1>7
  <2>2. ASSUME NEW i \in 1..(m + 1), q[i] \in kept PROVE \E j \in 1..Len(s) : s[j] = q[i]
    <3>1. CASE i \in 1..m
      <4>1. PICK j \in 1..Len(r) : r[j] = q[i] BY <1>3, <2>2, <3>1
      <4>2. j \in 1..Len(s) /\ s[j] = q[i] BY <1>3, <2>1, <4>1
      <4> QED BY <4>2
    <3>2. CASE i = m + 1 BY <1>1, <1>4, <1>7, <3>2
    <3> QED BY <1>5, <3>1, <3>2
  <2>3. ASSUME NEW j \in 1..Len(s) PROVE s[j] \in kept /\ \E i \in 1..(m + 1) : s[j] = q[i]
    <3>1. CASE j \in 1..Len(r)
      <4>1. r[j] \in kept /\ \E i \in 1..m : r[j] = q[i] BY <1>3, <3>1
      <4>2. s[j] = r[j] BY <2>1, <3>1
      <4> QED BY <4>1, <4>2
    <3>2. CASE j = Len(r) + 1 BY <1>1, <1>5, <1>7, <2>1, <3>2
    <3>3. j \in 1..Len(r) \/ j = Len(r) + 1 BY <1>3, <2>1
    <3> QED BY <3>1, <3>2, <3>3
  <2>4. ASSUME Len(s) = m + 1 PROVE \A i \in 1..(m + 1) : s[i] = q[i]
    <3>1. Len(r) = m BY <1>3, <2>1, <2>4
    <3> QED BY <1>1, <1>3, <1>5, <2>1, <3>1
  <2>5. Len(s) <= m + 1 BY <1>3, <2>1
  <2>6. PickedOf(s, q, m + 1, kept, B) BY <2>1, <2>2, <2>3, <2>4, <2>5 DEF PickedOf
  <2> QED BY <1>1, <1>2, <2>6
<1> QED BY <1>4, <1>6, <1>7

\* What a fold picks of a sequence: every kept element and no other, and all
\* of the sequence if it is as long.
LEMMA FoldPicks ==
  ASSUME NEW n \in Nat, NEW B, NEW kept, NEW op, NEW q \in [1..n -> B], NEW g,
         Picks(op, kept, B), FoldOf(g, op, <<>>, q, n, Seq(B))
  PROVE  PickedOf(g[1..n], q, n, kept, B)
<1> DEFINE P == {k \in Nat : k <= n => PickedOf(g[1..k], q, k, kept, B)}
<1>1. 0 \in P
  <2>1. 1..0 = {} /\ g[{}] = <<>> /\ <<>> \in Seq(B) /\ Len(<<>>) = 0 BY DEF FoldOf
  <2>2. PickedOf(<<>>, q, 0, kept, B) BY <2>1 DEF PickedOf
  <2> QED BY <2>1, <2>2
<1>2. ASSUME NEW k \in P PROVE k + 1 \in P
  <2> SUFFICES ASSUME k + 1 <= n PROVE PickedOf(g[1..(k + 1)], q, k + 1, kept, B)
    OBVIOUS
  <2>1. k \in Nat /\ PickedOf(g[1..k], q, k, kept, B) /\ k + 1 \in 1..n /\ (k + 1) - 1 = k
    OBVIOUS
  <2> HIDE DEF P
  <2>2. g[1..(k + 1)] = op[<<g[1..((k + 1) - 1)], q[k + 1]>>] BY <2>1, FoldStep
  <2>3. q[k + 1] \in B BY <2>1
  <2>4. PICK r : r = g[1..k] OBVIOUS
  <2>5. PickedOf(op[<<r, q[k + 1]>>], q, k + 1, kept, B) BY <2>1, <2>3, <2>4, PickStep, Zenon
  <2> QED BY <2>1, <2>2, <2>4, <2>5, Zenon
<1>3. P = Nat BY <1>1, <1>2, InductionOnNats
<1>4. n \in P BY <1>3
<1> QED BY <1>4

\* An operation that appends every element that is kept.
PicksAll(op, kept, B) ==
  \A r \in Seq(B), x \in B : x \in kept => op[<<r, x>>] = Append(r, x)

\* Then nothing is missing of a sequence that is kept whole.
LEMMA FoldPicksAll ==
  ASSUME NEW n \in Nat, NEW B, NEW kept, NEW op, NEW q \in [1..n -> B], NEW g,
         PicksAll(op, kept, B), FoldOf(g, op, <<>>, q, n, Seq(B))
  PROVE  (\A i \in 1..n : q[i] \in kept) => Len(g[1..n]) = n
<1> SUFFICES ASSUME \A i \in 1..n : q[i] \in kept PROVE Len(g[1..n]) = n
  OBVIOUS
<1> DEFINE P == {k \in Nat : k <= n => g[1..k] \in Seq(B) /\ Len(g[1..k]) = k}
<1>1. 0 \in P
  <2>1. 1..0 = {} /\ g[{}] = <<>> /\ <<>> \in Seq(B) /\ Len(<<>>) = 0 BY DEF FoldOf
  <2> QED BY <2>1
<1>2. ASSUME NEW k \in P PROVE k + 1 \in P
  <2> SUFFICES ASSUME k + 1 <= n PROVE g[1..(k + 1)] \in Seq(B) /\ Len(g[1..(k + 1)]) = k + 1
    OBVIOUS
  <2>1. k \in Nat /\ g[1..k] \in Seq(B) /\ Len(g[1..k]) = k /\ k + 1 \in 1..n /\ (k + 1) - 1 = k
    OBVIOUS
  <2> HIDE DEF P
  <2>2. g[1..(k + 1)] = op[<<g[1..((k + 1) - 1)], q[k + 1]>>] BY <2>1, FoldStep
  <2>3. PICK x : x = q[k + 1] /\ x \in B /\ x \in kept BY <2>1
  <2>4. PICK r : r = g[1..k] OBVIOUS
  <2>5. op[<<r, x>>] = Append(r, x) BY <2>1, <2>3, <2>4 DEF PicksAll
  <2>6. g[1..(k + 1)] = Append(r, x) BY <2>1, <2>2, <2>3, <2>4, <2>5, Zenon
  <2>7. Append(r, x) \in Seq(B) /\ Len(Append(r, x)) = k + 1 BY <2>1, <2>3, <2>4
  <2> QED BY <2>6, <2>7, Zenon
<1>3. P = Nat BY <1>1, <1>2, InductionOnNats
<1>4. n \in P BY <1>3
<1> QED BY <1>4
=============================================================================
