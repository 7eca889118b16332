--------------------------- MODULE InductionFacts ---------------------------
(* The least and the greatest member of a set of numbers.  A proof by       *)
(* induction over the data of a model is made of the first: of the          *)
(* counterexamples to a claim it takes the least one.  The folds of the     *)
(* community modules take the greatest index off a set time and again; that *)
(* a function does so is the last lemma.                                    *)
EXTENDS Integers, FiniteSetsExt, WellFoundedInduction, NaturalsInduction, TLAPS

\* Every nonempty set of natural numbers has a least member.
LEMMA LeastNumber ==
    ASSUME NEW T \in SUBSET Nat, T # {}
    PROVE  \E m \in T : \A k \in T : m <= k
<1> DEFINE R == {ss \in Nat \X Nat : ss[1] < ss[2]}
<1>1. IsWellFoundedOn(R, Nat)
  BY NatLessThanWellFounded, Zenon DEF OpToRel
<1>2. \A x, y \in Nat : x < y => <<x, y>> \in R
  OBVIOUS
<1> HIDE DEF R
<1>3. PICK m \in T : \A k \in T : <<k, m>> \notin R
  BY <1>1, WFMin
<1>4. ASSUME NEW k \in T
      PROVE  m <= k
  <2>1. ~(k < m)
    BY <1>2, <1>3
  <2> QED
    BY <2>1
<1> QED
  BY <1>4

\* Every nonempty bounded set of natural numbers has a greatest member.
LEMMA GreatestNumber ==
    ASSUME NEW n \in Nat, NEW T \in SUBSET (0 .. n), T # {}
    PROVE  \E m \in T : \A k \in T : k <= m
<1> DEFINE U == {i \in 0 .. n : n - i \in T}
<1>1. ASSUME NEW k \in T
      PROVE  n - k \in U
  <2>1. n - k \in 0 .. n /\ n - (n - k) = k
    OBVIOUS
  <2> QED
    BY <2>1
<1>2. U \in SUBSET Nat
  OBVIOUS
<1>3. \A i \in U : i \in 0 .. n /\ n - i \in T
  OBVIOUS
<1> HIDE DEF U
<1>4. PICK i \in U : \A k \in U : i <= k
  <2>1. U # {}
    BY <1>1
  <2> QED
    BY <1>2, <2>1, LeastNumber
<1>5. ASSUME NEW k \in T
      PROVE  k <= n - i
  <2>1. i <= n - k /\ i \in Nat /\ k \in Nat
    BY <1>1, <1>3, <1>4
  <2> QED
    BY <2>1
<1> QED
  BY <1>3, <1>5

\* Max picks the greatest of some numbers, and leaves fewer.
LEMMA MaxIsGreatest ==
    ASSUME NEW n \in Nat, NEW s \in SUBSET (1 .. n), s # {}
    PROVE  Max(s) \in s /\ \A k \in s : k <= Max(s)
<1>1. s \in SUBSET (0 .. n) /\ s \in SUBSET Int
  OBVIOUS
<1>2. \E m \in s : \A k \in s : m >= k
  BY <1>1, GreatestNumber
<1>3. Max(s) \in s /\ \A k \in s : Max(s) >= k
  BY <1>2 DEF Max
<1> QED
  BY <1>1, <1>3

\* The greatest index of a prefix is its last one.
LEMMA MaxOfPrefix ==
    ASSUME NEW i \in Nat, i # 0
    PROVE  /\ 1 .. i # {} /\ Max(1 .. i) = i
           /\ (1 .. i) \ {Max(1 .. i)} = 1 .. (i - 1)
<1>1. i \in 1 .. i
  OBVIOUS
<1>2. Max(1 .. i) \in 1 .. i /\ i <= Max(1 .. i)
  BY <1>1, MaxIsGreatest
<1>3. Max(1 .. i) = i
  BY <1>2
<1>4. (1 .. i) \ {i} = 1 .. (i - 1)
  OBVIOUS
<1> QED
  BY <1>1, <1>3, <1>4

\* g takes the greatest index off a set of the first m until none is left.
Folded(g, m, base, Step) ==
    \A s \in SUBSET (1 .. m) :
        g[s] = IF s = {} THEN base ELSE Step[g[s \ {Max(s)}], Max(s)]

Foldable(m, S, base, Step) == \E g \in [SUBSET (1 .. m) -> S] : Folded(g, m, base, Step)

\* A step at a time, from the greatest index down, defines a function on the sets of
\* indices.
LEMMA FoldExists ==
    ASSUME NEW n \in Nat, NEW S, NEW base \in S, NEW Step \in [S \X (1 .. n) -> S]
    PROVE  Foldable(n, S, base, Step)
<1> DEFINE T == {m \in 0 .. n : ~ Foldable(m, S, base, Step)}
<1>1. ASSUME NEW m \in 1 .. n, NEW f \in [SUBSET (1 .. (m - 1)) -> S], Folded(f, m - 1, base, Step)
      PROVE  Foldable(m, S, base, Step)
  <2> DEFINE g == [s \in SUBSET (1 .. m) |-> IF m \in s THEN Step[f[s \ {m}], m] ELSE f[s]]
  <2>1. \A s \in SUBSET (1 .. m) : s \ {m} \in SUBSET (1 .. (m - 1))
    OBVIOUS
  <2>2. \A s \in SUBSET (1 .. m) : m \notin s => s \in SUBSET (1 .. (m - 1))
    BY <2>1
  <2>3. g \in [SUBSET (1 .. m) -> S]
    <3>1. ASSUME NEW s \in SUBSET (1 .. m), m \in s
          PROVE  Step[f[s \ {m}], m] \in S
      <4>1. f[s \ {m}] \in S
        BY <2>1
      <4> QED
        BY <4>1
    <3> QED
      BY <2>2, <3>1
  <2>4. ASSUME NEW s \in SUBSET (1 .. m)
        PROVE  g[s] = IF s = {} THEN base ELSE Step[g[s \ {Max(s)}], Max(s)]
    <3>1. CASE m \in s
      <4>1. Max(s) \in s /\ m <= Max(s) /\ m \in Nat
        BY <3>1, MaxIsGreatest, m \in Nat
      <4>2. Max(s) = m
        <5>1. Max(s) \in 1 .. m
          BY <4>1
        <5> QED
          BY <4>1, <5>1
      <4>3. g[s \ {m}] = f[s \ {m}]
        BY <2>1
      <4> QED
        BY <3>1, <4>2, <4>3
    <3>2. CASE m \notin s /\ s # {}
      <4>1. s \in SUBSET (1 .. (m - 1)) /\ s \ {Max(s)} \in SUBSET (1 .. (m - 1))
        BY <2>2, <3>2
      <4>2. g[s] = f[s] /\ g[s \ {Max(s)}] = f[s \ {Max(s)}]
        BY <3>2, <4>1
      <4> QED
        BY <1>1, <3>2, <4>1, <4>2 DEF Folded
    <3>3. CASE s = {}
      <4>1. s \in SUBSET (1 .. (m - 1)) /\ m \notin s
        BY <3>3
      <4>2. g[s] = f[s] /\ f[s] = base
        BY <1>1, <3>3, <4>1 DEF Folded
      <4> QED
        BY <3>3, <4>2
    <3> QED
      BY <3>1, <3>2, <3>3
  <2>5. Folded(g, m, base, Step)
    BY <2>4 DEF Folded
  <2> HIDE DEF g
  <2> QED
    BY <2>3, <2>5 DEF Foldable
<1>2. Foldable(0, S, base, Step)
  <2> DEFINE g == [s \in SUBSET (1 .. 0) |-> base]
  <2>1. g \in [SUBSET (1 .. 0) -> S] /\ \A s \in SUBSET (1 .. 0) : s = {} /\ g[s] = base
    OBVIOUS
  <2>2. Folded(g, 0, base, Step)
    BY <2>1 DEF Folded
  <2> QED
    BY <2>1, <2>2 DEF Foldable
<1>3. T = {}
  <2> SUFFICES ASSUME T # {}
               PROVE  FALSE
    OBVIOUS
  <2>1. T \in SUBSET Nat
    OBVIOUS
  <2> HIDE DEF T
  <2>2. PICK m \in T : \A k \in T : m <= k
    BY <2>1, LeastNumber
  <2>3. m \in Nat /\ m \in 0 .. n /\ ~ Foldable(m, S, base, Step)
    BY DEF T
  <2>4. m \in 1 .. n
    BY <1>2, <2>3
  <2>5. m - 1 \in 0 .. n /\ m - 1 \notin T
    BY <2>2, <2>4
  <2>6. Foldable(m - 1, S, base, Step)
    BY <2>5 DEF T
  <2> QED
    BY <1>1, <2>3, <2>4, <2>6 DEF Foldable
<1>4. n \notin T
  BY <1>3
<1>5. Foldable(n, S, base, Step)
  BY <1>4
<1> QED
  BY <1>5

\* The same of a function that is known to step only from a member of S.
Folding(iter, n, base, S, Step) ==
    /\ iter[{}] = base
    /\ \A s \in SUBSET (1 .. n) :
         s # {} /\ iter[s \ {Max(s)}] \in S => iter[s] = Step[iter[s \ {Max(s)}], Max(s)]

\* What at has after so many steps, from the first to the last.
Stepping(at, n, base, last, Step) ==
    /\ at[0] = base /\ at[n] = last
    /\ \A i \in 1 .. n : at[i] = Step[at[i - 1], i]

\* The function goes over the prefixes of the indices, a step at a time.
LEMMA FoldsPrefixes ==
    ASSUME NEW n \in Nat, NEW S, NEW base \in S, NEW Step \in [S \X (1 .. n) -> S],
           NEW iter, Folding(iter, n, base, S, Step)
    PROVE  \E at \in [0 .. n -> S] : Stepping(at, n, base, iter[1 .. n], Step)
<1> DEFINE T == {i \in 0 .. n : iter[1 .. i] \notin S}
<1>1. iter[1 .. 0] = base
  <2>1. 1 .. 0 = {}
    OBVIOUS
  <2> QED
    BY <2>1 DEF Folding
<1>2. ASSUME NEW i \in 1 .. n, iter[1 .. (i - 1)] \in S
      PROVE  iter[1 .. i] = Step[iter[1 .. (i - 1)], i] /\ iter[1 .. i] \in S
  <2>1. 1 .. i \in SUBSET (1 .. n) /\ i \in Nat /\ i # 0
    OBVIOUS
  <2>2. iter[1 .. i] = Step[iter[1 .. (i - 1)], i]
    BY <1>2, <2>1, MaxOfPrefix DEF Folding
  <2> QED
    BY <1>2, <2>2
<1>3. T = {}
  <2> SUFFICES ASSUME T # {}
               PROVE  FALSE
    OBVIOUS
  <2>1. T \in SUBSET Nat
    OBVIOUS
  <2> HIDE DEF T
  <2>2. PICK i \in T : \A k \in T : i <= k
    BY <2>1, LeastNumber
  <2>3. i \in Nat /\ i \in 0 .. n /\ iter[1 .. i] \notin S
    BY DEF T
  <2>4. i \in 1 .. n
    <3>1. i # 0
      BY <1>1, <2>3
    <3> QED
      BY <2>3, <3>1
  <2>5. i - 1 \in 0 .. n /\ i - 1 \notin T
    BY <2>2, <2>4
  <2>6. iter[1 .. (i - 1)] \in S
    BY <2>5 DEF T
  <2> QED
    BY <1>2, <2>3, <2>4, <2>6
<1>4. \A i \in 0 .. n : iter[1 .. i] \in S
  BY <1>3
<1> DEFINE at == [i \in 0 .. n |-> iter[1 .. i]]
<1>5. at \in [0 .. n -> S] /\ at[0] = base /\ at[n] = iter[1 .. n]
  BY <1>1, <1>4
<1>6. \A i \in 1 .. n : at[i] = Step[at[i - 1], i]
  <2> SUFFICES ASSUME NEW i \in 1 .. n
               PROVE  at[i] = Step[at[i - 1], i]
    OBVIOUS
  <2>1. i - 1 \in 0 .. n /\ i \in 0 .. n
    OBVIOUS
  <2>2. at[i] = iter[1 .. i] /\ at[i - 1] = iter[1 .. (i - 1)]
    BY <2>1
  <2> QED
    BY <1>2, <1>4, <2>1, <2>2
<1>7. Stepping(at, n, base, iter[1 .. n], Step)
  BY <1>5, <1>6 DEF Stepping
<1> HIDE DEF at
<1> QED
  BY <1>5, <1>7
\* A function from step to step.
StepsFrom(at, n, base, Step) == at[0] = base /\ \A i \in 1 .. n : at[i] = Step[at[i - 1], i]

\* Such a function exists.
LEMMA StepsExist ==
    ASSUME NEW n \in Nat, NEW S, NEW base \in S, NEW Step \in [S \X (1 .. n) -> S]
    PROVE  \E at \in [0 .. n -> S] : StepsFrom(at, n, base, Step)
<1>1. PICK g \in [SUBSET (1 .. n) -> S] : Folded(g, n, base, Step)
  BY FoldExists DEF Foldable
<1> DEFINE at == [i \in 0 .. n |-> g[1 .. i]]
<1>2. at \in [0 .. n -> S]
  <2>1. \A i \in 0 .. n : 1 .. i \in SUBSET (1 .. n)
    OBVIOUS
  <2> QED
    BY <2>1
<1>3. at[0] = base
  <2>1. 1 .. 0 = {} /\ 0 \in 0 .. n
    OBVIOUS
  <2>2. g[{}] = base
    BY <1>1 DEF Folded
  <2> QED
    BY <2>1, <2>2
<1>4. ASSUME NEW i \in 1 .. n
      PROVE  at[i] = Step[at[i - 1], i]
  <2>1. i \in Nat /\ i # 0 /\ i \in 0 .. n /\ i - 1 \in 0 .. n /\ 1 .. i \in SUBSET (1 .. n)
    OBVIOUS
  <2>2. at[i] = g[1 .. i] /\ at[i - 1] = g[1 .. (i - 1)]
    BY <2>1
  <2> HIDE DEF at
  <2>3. 1 .. i # {} /\ Max(1 .. i) = i /\ (1 .. i) \ {Max(1 .. i)} = 1 .. (i - 1)
    BY <2>1, MaxOfPrefix
  <2>4. g[1 .. i] = Step[g[(1 .. i) \ {Max(1 .. i)}], Max(1 .. i)]
    BY <1>1, <2>1, <2>3 DEF Folded
  <2> QED
    BY <2>2, <2>3, <2>4
<1> HIDE DEF at
<1> QED
  BY <1>2, <1>3, <1>4 DEF StepsFrom

=============================================================================
