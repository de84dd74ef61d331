---------------------------- MODULE DataTheorems ----------------------------
(***************************************************************************)
(* What proofs about components need of the data they keep: sums over      *)
(* finite sets (SumFunctionOnSet of the community modules), sequences as   *)
(* the sets of what is in them, sequences that are joined, filtered        *)
(* (Filters) or flattened, and what is computed step by step.  Most of it  *)
(* is defined by recursion.  The induction about it is always by a least   *)
(* counterexample, or for the elements of a set that is given: the         *)
(* property is a set and no operator.                                      *)
(***************************************************************************)
EXTENDS Integers, Filters, FiniteSets, Functions, SequencesExt,
        FiniteSetTheorems, SequenceTheorems, WellFoundedInduction, TLAPS

\* What FoldFunctionOnSet computes for a set from what it computed for smaller ones
SumBody(g, f, s) == IF s = {} THEN 0 ELSE g[CHOOSE x \in s : TRUE] + f[s \ {CHOOSE x \in s : TRUE}]

\* The function FoldFunctionOnSet defines on the subsets of S
SumIter(g, S) == CHOOSE f : f = [s \in SUBSET S |-> SumBody(g, f, s)]

\* The definition of the community modules, unfolded.
LEMMA SumIsIter == ASSUME NEW g, NEW S PROVE SumFunctionOnSet(g, S) = SumIter(g, S)[S]
  BY DEF SumFunctionOnSet, FoldFunctionOnSet, MapThenFoldSet, SumIter, SumBody

\* A set of numbers that is not empty has a least element: induction, for the numbers that
\* are counterexamples.
LEMMA LeastElement ==
    ASSUME NEW T \in SUBSET Nat, T # {}
    PROVE  \E n \in T : \A m \in T : n <= m
<1>1. \E n \in T : \A m \in T : ~ (<<m, n>> \in OpToRel(<, Nat))
  BY NatLessThanWellFounded, WFMin, Zenon
<1>2. PICK n \in T : \A m \in T : ~ (<<m, n>> \in OpToRel(<, Nat))
  BY <1>1
<1>3. ASSUME NEW m \in T PROVE n <= m
  <2>1. <<m, n>> \in Nat \X Nat
    OBVIOUS
  <2>2. ~ (m < n)
    BY <1>2, <2>1 DEF OpToRel
  <2> QED BY <2>2
<1> QED BY <1>3

\* Among sets of subsets of a finite set there is one that none of its own subsets with an element
\* less belongs to: induction over finite sets, for the subsets that are counterexamples.
LEMMA LeastSubset ==
    ASSUME NEW S, IsFiniteSet(S), NEW B \in SUBSET (SUBSET S), B # {}
    PROVE  \E s \in B : \A x \in s : s \ {x} \notin B
<1> DEFINE Sizes == {Cardinality(s) : s \in B}
<1>1. \A s \in B : IsFiniteSet(s) /\ Cardinality(s) \in Nat
  BY FS_Subset, FS_CardinalityType
<1>2. Sizes \in SUBSET Nat /\ Sizes # {}
  BY <1>1
<1>3. PICK n \in Sizes : \A m \in Sizes : n <= m
  <2> HIDE DEF Sizes
  <2> QED BY <1>2, LeastElement
<1>4. PICK s \in B : Cardinality(s) = n
  BY <1>3
<1>5. ASSUME NEW x \in s, s \ {x} \in B PROVE FALSE
  <2>1. Cardinality(s \ {x}) = Cardinality(s) - 1
    BY <1>1, FS_RemoveElement
  <2>2. Cardinality(s) <= Cardinality(s \ {x})
    BY <1>3, <1>4, <1>5
  <2> QED BY <2>1, <2>2, <1>1
<1> QED BY <1>5

\* The recursive definition defines something: on the sets of at most n elements, for each n.
LEMMA IterExists ==
    ASSUME NEW g, NEW S, IsFiniteSet(S)
    PROVE  \E f : f = [s \in SUBSET S |-> SumBody(g, f, s)]
<1> DEFINE Small(k) == {s \in SUBSET S : Cardinality(s) <= k}
           Missing == {k \in Nat : ~ \E f : f = [s \in Small(k) |-> SumBody(g, f, s)]}
<1>1. \A s \in SUBSET S : IsFiniteSet(s) /\ Cardinality(s) \in Nat
  BY FS_Subset, FS_CardinalityType
<1>2. ASSUME NEW n \in Missing, \A m \in Missing : n <= m PROVE FALSE
  <2>1. CASE n = 0
    <3>1. Small(0) = {{}}
      BY <1>1, FS_EmptySet, FS_Subset
    <3>2. DEFINE f == [s \in Small(0) |-> 0]
    <3>3. f = [s \in Small(0) |-> SumBody(g, f, s)]
      BY <3>1 DEF SumBody
    <3> QED BY <2>1, <3>3, <1>2
  <2>2. CASE n # 0
    <3>1. n - 1 \in Nat /\ n - 1 \notin Missing
      <4>1. n - 1 \in Nat /\ ~ (n <= n - 1)
        BY <2>2
      <4> QED BY <4>1, <1>2
    <3>2. PICK h : h = [s \in Small(n - 1) |-> SumBody(g, h, s)]
      BY <3>1
    <3> DEFINE f == [s \in Small(n) |-> SumBody(g, h, s)]
    <3>3. ASSUME NEW s \in Small(n), s # {}, NEW c \in s
          PROVE  f[s \ {c}] = h[s \ {c}]
      <4>1. Cardinality(s \ {c}) = Cardinality(s) - 1
        BY <3>3, <1>1, FS_RemoveElement
      <4>2. s \ {c} \in Small(n - 1) /\ s \ {c} \in Small(n)
        BY <3>3, <4>1, <1>1
      <4> QED BY <3>2, <4>2
    <3>4. ASSUME NEW s \in Small(n) PROVE SumBody(g, h, s) = SumBody(g, f, s)
      <4>1. CASE s = {}
        BY <4>1 DEF SumBody
      <4>2. CASE s # {}
        <5> DEFINE c == CHOOSE x \in s : TRUE
        <5>1. c \in s
          BY <4>2
        <5>2. f[s \ {c}] = h[s \ {c}]
          BY <5>1, <3>3, <4>2
        <5> HIDE DEF f
        <5> QED BY <4>2, <5>2 DEF SumBody
      <4> QED BY <4>1, <4>2
    <3>5. f = [s \in Small(n) |-> SumBody(g, f, s)]
      BY <3>4
    <3> QED BY <3>5, <1>2
  <2> QED BY <2>1, <2>2
<1>3. Missing = {}
  <2>1. Missing \in SUBSET Nat
    OBVIOUS
  <2> HIDE DEF Missing
  <2> QED BY <2>1, <1>2, LeastElement
<1>4. Cardinality(S) \in Nat
  BY FS_CardinalityType
<1>5. Small(Cardinality(S)) = SUBSET S
  BY FS_Subset
<1>6. PICK f : f = [s \in Small(Cardinality(S)) |-> SumBody(g, f, s)]
  BY <1>3, <1>4
<1>7. f = [s \in SUBSET S |-> SumBody(g, f, s)]
  <2> HIDE DEF Small
  <2> QED BY <1>5, <1>6
<1> QED BY <1>7

\* So it satisfies its equation.
LEMMA IterUnfolds ==
    ASSUME NEW g, NEW S, IsFiniteSet(S), NEW s \in SUBSET S
    PROVE  SumIter(g, S)[s] = SumBody(g, SumIter(g, S), s)
  BY IterExists DEF SumIter

\* What is computed for a set depends on the values of its elements only.
LEMMA IterAgrees ==
    ASSUME NEW g, NEW h, NEW S, NEW T, IsFiniteSet(S), IsFiniteSet(T),
           NEW R \in SUBSET (S \cap T), \A x \in R : g[x] = h[x]
    PROVE  SumIter(g, S)[R] = SumIter(h, T)[R]
<1> DEFINE Differ == {s \in SUBSET R : SumIter(g, S)[s] # SumIter(h, T)[s]}
<1>1. IsFiniteSet(R)
  BY FS_Subset
<1>2. ASSUME NEW s \in Differ, \A x \in s : s \ {x} \notin Differ PROVE FALSE
  <2>1. SumIter(g, S)[s] = SumBody(g, SumIter(g, S), s) /\ SumIter(h, T)[s] = SumBody(h, SumIter(h, T), s)
    BY IterUnfolds
  <2>2. \A x \in s : SumIter(g, S)[s \ {x}] = SumIter(h, T)[s \ {x}]
    BY <1>2
  <2>3. SumBody(g, SumIter(g, S), s) = SumBody(h, SumIter(h, T), s)
    <3>1. CASE s = {}
      BY <3>1 DEF SumBody
    <3>2. CASE s # {}
      <4> DEFINE c == CHOOSE x \in s : TRUE
      <4>1. c \in s
        BY <3>2
      <4>2. g[c] = h[c] /\ SumIter(g, S)[s \ {c}] = SumIter(h, T)[s \ {c}]
        BY <4>1, <2>2
      <4> QED BY <3>2, <4>2 DEF SumBody
    <3> QED BY <3>1, <3>2
  <2> QED BY <2>1, <2>3
<1>3. Differ = {}
  <2>1. Differ \in SUBSET (SUBSET R)
    OBVIOUS
  <2> HIDE DEF Differ
  <2> QED BY <2>1, <1>1, <1>2, LeastSubset
<1> QED BY <1>3

\* The sum of nothing is 0.
LEMMA SumOfNone == ASSUME NEW g PROVE SumFunctionOnSet(g, {}) = 0
  BY SumIsIter, IterUnfolds, FS_EmptySet DEF SumBody

\* Functions that agree on a set have the same sum over it.
LEMMA SumCongruence ==
    ASSUME NEW g, NEW h, NEW S, IsFiniteSet(S), \A x \in S : g[x] = h[x]
    PROVE  SumFunctionOnSet(g, S) = SumFunctionOnSet(h, S)
  BY SumIsIter, IterAgrees

\* One element is added to the sum of the others: the one the definition chooses.
LEMMA SumChosen ==
    ASSUME NEW g, NEW S, IsFiniteSet(S), S # {}
    PROVE  \E c \in S : SumFunctionOnSet(g, S) = g[c] + SumFunctionOnSet(g, S \ {c})
<1> DEFINE c == CHOOSE x \in S : TRUE
<1>1. c \in S
  OBVIOUS
<1>2. SumFunctionOnSet(g, S) = g[c] + SumIter(g, S)[S \ {c}]
  BY SumIsIter, IterUnfolds DEF SumBody
<1>3. IsFiniteSet(S \ {c})
  BY FS_Subset
<1>4. SumIter(g, S)[S \ {c}] = SumIter(g, S \ {c})[S \ {c}]
  BY <1>3, IterAgrees
<1> QED BY <1>1, <1>2, <1>4, SumIsIter

\* A sum of natural numbers is one.
LEMMA SumType ==
    ASSUME NEW g, NEW S, IsFiniteSet(S), \A x \in S : g[x] \in Nat
    PROVE  SumFunctionOnSet(g, S) \in Nat
<1> DEFINE Bad == {s \in SUBSET S : SumFunctionOnSet(g, s) \notin Nat}
<1>1. ASSUME NEW s \in Bad, \A x \in s : s \ {x} \notin Bad PROVE FALSE
  <2>1. CASE s = {}
    BY <2>1, SumOfNone
  <2>2. CASE s # {}
    <3>1. IsFiniteSet(s)
      BY FS_Subset
    <3>2. PICK c \in s : SumFunctionOnSet(g, s) = g[c] + SumFunctionOnSet(g, s \ {c})
      BY <2>2, <3>1, SumChosen
    <3>3. SumFunctionOnSet(g, s \ {c}) \in Nat
      BY <1>1
    <3> QED BY <3>2, <3>3
  <2> QED BY <2>1, <2>2
<1>2. Bad = {}
  <2>1. Bad \in SUBSET (SUBSET S)
    OBVIOUS
  <2> HIDE DEF Bad
  <2> QED BY <2>1, <1>1, LeastSubset
<1> QED BY <1>2

\* Every element is added to the sum of the others, whatever the order the definition takes.
LEMMA SumRemove ==
    ASSUME NEW g, NEW S, IsFiniteSet(S), \A x \in S : g[x] \in Nat, NEW y \in S
    PROVE  SumFunctionOnSet(g, S) = g[y] + SumFunctionOnSet(g, S \ {y})
<1> DEFINE Sum(s) == SumFunctionOnSet(g, s)
           Bad == {s \in SUBSET S : \E z \in s : Sum(s) # g[z] + Sum(s \ {z})}
<1>1. \A s \in SUBSET S : IsFiniteSet(s) /\ Sum(s) \in Nat
  BY FS_Subset, SumType
<1>2. \A s \in SUBSET S : s # {} => \E c \in s : Sum(s) = g[c] + Sum(s \ {c})
  BY <1>1, SumChosen
<1> HIDE DEF Sum
<1>3. ASSUME NEW s \in Bad, \A x \in s : s \ {x} \notin Bad PROVE FALSE
  <2>1. PICK z \in s : Sum(s) # g[z] + Sum(s \ {z})
    BY <1>3
  <2>2. PICK c \in s : Sum(s) = g[c] + Sum(s \ {c})
    BY <1>2, <2>1
  <2>3. z # c
    BY <2>1, <2>2
  <2>4. Sum(s \ {c}) = g[z] + Sum((s \ {c}) \ {z})
    BY <1>3, <2>3
  <2>5. Sum(s \ {z}) = g[c] + Sum((s \ {z}) \ {c})
    BY <1>3, <2>3
  <2>6. (s \ {c}) \ {z} = (s \ {z}) \ {c}
    OBVIOUS
  <2>7. g[c] \in Nat /\ g[z] \in Nat /\ Sum((s \ {z}) \ {c}) \in Nat
    BY <1>1
  <2> DEFINE rest == Sum((s \ {z}) \ {c})
  <2>8. Sum(s) = g[c] + (g[z] + rest)
    BY <2>2, <2>4, <2>6
  <2>9. g[z] + Sum(s \ {z}) = g[z] + (g[c] + rest)
    BY <2>5
  <2> HIDE DEF rest
  <2>10. g[c] + (g[z] + rest) = g[z] + (g[c] + rest)
    BY <2>7 DEF rest
  <2> QED BY <2>1, <2>8, <2>9, <2>10
<1>4. Bad = {}
  <2>1. Bad \in SUBSET (SUBSET S)
    OBVIOUS
  <2> HIDE DEF Bad
  <2> QED BY <2>1, <1>3, LeastSubset
<1>5. Sum(S) = g[y] + Sum(S \ {y})
  BY <1>4
<1> QED BY <1>5 DEF Sum

\* A part has no greater sum than the whole.
LEMMA SumOfPart ==
    ASSUME NEW g, NEW S, IsFiniteSet(S), \A x \in S : g[x] \in Nat, NEW T \in SUBSET S
    PROVE  SumFunctionOnSet(g, T) <= SumFunctionOnSet(g, S)
<1> DEFINE Sum(s) == SumFunctionOnSet(g, s)
           Bad == {s \in SUBSET S : ~ (Sum(T) <= Sum(T \cup s))}
<1>1. \A s \in SUBSET S : IsFiniteSet(s) /\ Sum(s) \in Nat
  BY FS_Subset, SumType
<1>2. \A s \in SUBSET S : \A y \in s : Sum(s) = g[y] + Sum(s \ {y})
  BY ZenonT(40), <1>1, SumRemove
<1> HIDE DEF Sum
<1>3. ASSUME NEW s \in Bad, \A x \in s : s \ {x} \notin Bad PROVE FALSE
  <2>1. CASE s \subseteq T
    <3>1. T \cup s = T
      BY <2>1
    <3> QED BY <3>1, <1>1
  <2>2. ASSUME NEW y \in s, y \notin T PROVE FALSE
    <3>1. Sum(T) <= Sum(T \cup (s \ {y}))
      BY <1>3, <2>2
    <3>2. (T \cup s) \ {y} = T \cup (s \ {y})
      BY <2>2
    <3>3. Sum(T \cup s) = g[y] + Sum(T \cup (s \ {y}))
      BY <1>2, <2>2, <3>2
    <3>4. g[y] \in Nat /\ Sum(T \cup (s \ {y})) \in Nat /\ Sum(T) \in Nat
      BY <1>1
    <3> HIDE DEF Bad
    <3>5. Sum(T) <= Sum(T \cup s)
      BY <3>1, <3>3, <3>4
    <3> QED BY <3>5 DEF Bad
  <2> QED BY <2>1, <2>2
<1>4. Bad = {}
  <2>1. Bad \in SUBSET (SUBSET S)
    OBVIOUS
  <2> HIDE DEF Bad
  <2> QED BY <2>1, <1>3, LeastSubset
<1>5. Sum(T) <= Sum(T \cup S) /\ T \cup S = S
  BY <1>4
<1> QED BY <1>5 DEF Sum

\* Greater values have a greater sum.
LEMMA SumMonotone ==
    ASSUME NEW g, NEW h, NEW S, IsFiniteSet(S),
           \A x \in S : g[x] \in Nat /\ h[x] \in Nat /\ g[x] <= h[x]
    PROVE  SumFunctionOnSet(g, S) <= SumFunctionOnSet(h, S)
<1> DEFINE G(s) == SumFunctionOnSet(g, s)
           H(s) == SumFunctionOnSet(h, s)
           Bad == {s \in SUBSET S : ~ (G(s) <= H(s))}
<1>1. \A s \in SUBSET S : IsFiniteSet(s) /\ G(s) \in Nat /\ H(s) \in Nat
  BY FS_Subset, SumType
<1>2. ASSUME NEW s \in SUBSET S, NEW y \in s
      PROVE  G(s) = g[y] + G(s \ {y}) /\ H(s) = h[y] + H(s \ {y})
  <2>1. IsFiniteSet(s)
    BY <1>1
  <2>2. G(s) = g[y] + G(s \ {y})
    BY <2>1, SumRemove
  <2>3. H(s) = h[y] + H(s \ {y})
    BY <2>1, SumRemove
  <2> QED BY <2>2, <2>3
<1>3. G({}) = 0 /\ H({}) = 0
  BY SumOfNone
<1> HIDE DEF G, H
<1>4. ASSUME NEW s \in Bad, \A x \in s : s \ {x} \notin Bad PROVE FALSE
  <2>1. CASE s = {}
    BY <2>1, <1>3
  <2>2. ASSUME NEW y \in s PROVE FALSE
    <3>1. G(s \ {y}) <= H(s \ {y}) /\ g[y] <= h[y]
      BY <1>4
    <3>2. G(s) = g[y] + G(s \ {y}) /\ H(s) = h[y] + H(s \ {y})
      BY <1>2
    <3>3. g[y] \in Nat /\ h[y] \in Nat /\ G(s \ {y}) \in Nat /\ H(s \ {y}) \in Nat
      BY <1>1
    <3> HIDE DEF Bad
    <3>4. G(s) <= H(s)
      BY <3>1, <3>2, <3>3
    <3> QED BY <3>4 DEF Bad
  <2> QED BY <2>1, <2>2
<1>5. Bad = {}
  <2>1. Bad \in SUBSET (SUBSET S)
    OBVIOUS
  <2> HIDE DEF Bad
  <2> QED BY <2>1, <1>4, LeastSubset
<1>6. G(S) <= H(S)
  BY <1>5
<1> QED BY <1>6 DEF G, H

\* A set of numbers that is bounded has a greatest element.
LEMMA GreatestElement ==
    ASSUME NEW T \in SUBSET Nat, T # {}, NEW N \in Nat, \A n \in T : n <= N
    PROVE  \E n \in T : \A m \in T : m <= n
<1> DEFINE Rest == {N - n : n \in T}
<1>1. Rest \in SUBSET Nat /\ Rest # {}
  <2>1. \A n \in T : N - n \in Nat
    OBVIOUS
  <2> QED BY <2>1
<1>2. PICK r \in Rest : \A q \in Rest : r <= q
  <2> HIDE DEF Rest
  <2> QED BY <1>1, LeastElement
<1>3. PICK n \in T : r = N - n
  BY <1>2
<1>4. ASSUME NEW m \in T PROVE m <= n
  <2>1. N - m \in Rest
    OBVIOUS
  <2>2. N - n <= N - m
    BY <1>2, <1>3, <2>1
  <2> QED BY <2>2
<1> QED BY <1>4

\* The sum of a whole is that of a part and that of the rest.
LEMMA SumSplit ==
    ASSUME NEW g, NEW S, IsFiniteSet(S), \A x \in S : g[x] \in Nat, NEW T \in SUBSET S
    PROVE  SumFunctionOnSet(g, S) = SumFunctionOnSet(g, T) + SumFunctionOnSet(g, S \ T)
<1> DEFINE Sum(s) == SumFunctionOnSet(g, s)
           Bad == {s \in SUBSET (S \ T) : Sum(T \cup s) # Sum(T) + Sum(s)}
<1>1. \A s \in SUBSET S : IsFiniteSet(s) /\ Sum(s) \in Nat
  BY FS_Subset, SumType
<1>2. \A s \in SUBSET S : \A y \in s : Sum(s) = g[y] + Sum(s \ {y})
  BY ZenonT(40), <1>1, SumRemove
<1>3. Sum({}) = 0
  BY SumOfNone
<1> HIDE DEF Sum
<1>4. ASSUME NEW s \in Bad, \A x \in s : s \ {x} \notin Bad PROVE FALSE
  <2>1. CASE s = {}
    <3>1. T \cup s = T
      BY <2>1
    <3> QED BY <3>1, <2>1, <1>1, <1>3
  <2>2. ASSUME NEW y \in s PROVE FALSE
    <3>1. Sum(T \cup (s \ {y})) = Sum(T) + Sum(s \ {y})
      BY <1>4, <2>2
    <3>2. (T \cup s) \ {y} = T \cup (s \ {y})
      BY <2>2
    <3>3. Sum(T \cup s) = g[y] + Sum(T \cup (s \ {y})) /\ Sum(s) = g[y] + Sum(s \ {y})
      BY <1>2, <2>2, <3>2
    <3>4. g[y] \in Nat /\ Sum(T) \in Nat /\ Sum(s \ {y}) \in Nat
      BY <1>1
    <3> HIDE DEF Bad
    <3>5. Sum(T \cup s) = Sum(T) + Sum(s)
      BY <3>1, <3>3, <3>4
    <3> QED BY <3>5 DEF Bad
  <2> QED BY <2>1, <2>2
<1>5. Bad = {}
  <2>1. Bad \in SUBSET (SUBSET S)
    OBVIOUS
  <2> HIDE DEF Bad
  <2> QED BY <2>1, <1>4, LeastSubset
<1>6. Sum(T \cup (S \ T)) = Sum(T) + Sum(S \ T) /\ T \cup (S \ T) = S
  BY <1>5
<1> QED BY <1>6 DEF Sum

LEMMA SumOfZeros ==
    ASSUME NEW g, NEW S, IsFiniteSet(S), \A x \in S : g[x] = 0
    PROVE  SumFunctionOnSet(g, S) = 0
<1> DEFINE Bad == {s \in SUBSET S : SumFunctionOnSet(g, s) # 0}
<1>1. \A s \in SUBSET S : IsFiniteSet(s)
  BY FS_Subset
<1>2. ASSUME NEW s \in Bad, \A x \in s : s \ {x} \notin Bad PROVE FALSE
  <2>1. CASE s = {}
    BY <2>1, SumOfNone
  <2>2. ASSUME NEW y \in s PROVE FALSE
    <3>1. SumFunctionOnSet(g, s \ {y}) = 0
      BY <1>2, <2>2
    <3>2. IsFiniteSet(s) /\ \A x \in s : g[x] \in Nat
      BY <1>1
    <3>3. SumFunctionOnSet(g, s) = g[y] + SumFunctionOnSet(g, s \ {y})
      BY <3>2, SumRemove
    <3> QED BY <3>1, <3>3
  <2> QED BY <2>1, <2>2
<1>3. Bad = {}
  <2>1. Bad \in SUBSET (SUBSET S)
    OBVIOUS
  <2> HIDE DEF Bad
  <2> QED BY <2>1, <1>2, LeastSubset
<1> QED BY <1>3

\* What is mapped to different elements that are worth at least as much has no greater sum.
LEMMA SumMapped ==
    ASSUME NEW g, NEW h, NEW S, NEW T, IsFiniteSet(S), IsFiniteSet(T), NEW m \in [S -> T],
           \A x \in S : g[x] \in Nat, \A y \in T : h[y] \in Nat,
           \A x, y \in S : m[x] = m[y] => x = y,
           \A x \in S : g[x] <= h[m[x]]
    PROVE  SumFunctionOnSet(g, S) <= SumFunctionOnSet(h, T)
<1> DEFINE G(s) == SumFunctionOnSet(g, s)
           H(s) == SumFunctionOnSet(h, s)
           Image(s) == {m[x] : x \in s}
           Bad == {s \in SUBSET S : ~ (G(s) <= H(Image(s)))}
<1>1. \A s \in SUBSET S : IsFiniteSet(s) /\ G(s) \in Nat
  BY FS_Subset, SumType
<1>2. \A t \in SUBSET T : IsFiniteSet(t) /\ H(t) \in Nat
  BY FS_Subset, SumType
<1>3. ASSUME NEW s \in SUBSET S, NEW y \in s PROVE G(s) = g[y] + G(s \ {y})
  <2>1. IsFiniteSet(s)
    BY <1>1
  <2> QED BY <2>1, SumRemove
<1>4. ASSUME NEW t \in SUBSET T, NEW y \in t PROVE H(t) = h[y] + H(t \ {y})
  <2>1. IsFiniteSet(t)
    BY <1>2
  <2> QED BY <2>1, SumRemove
<1>5. G({}) = 0
  BY SumOfNone
<1>6. \A s \in SUBSET S : Image(s) \in SUBSET T
  OBVIOUS
<1>7. H(T) \in Nat /\ H(Image(S)) <= H(T)
  <2>1. Image(S) \in SUBSET T
    BY <1>6
  <2> QED BY <1>2, <2>1, SumOfPart
<1> HIDE DEF G, H
<1>8. ASSUME NEW s \in Bad, \A x \in s : s \ {x} \notin Bad PROVE FALSE
  <2>1. CASE s = {}
    <3>1. G(s) = 0 /\ H(Image(s)) \in Nat
      BY <2>1, <1>2, <1>5, <1>6
    <3> QED BY <3>1
  <2>2. ASSUME NEW y \in s PROVE FALSE
    <3>1. G(s \ {y}) <= H(Image(s \ {y})) /\ g[y] <= h[m[y]]
      BY <1>8, <2>2
    <3>2. Image(s \ {y}) = Image(s) \ {m[y]} /\ m[y] \in Image(s)
      BY <2>2
    <3>3. G(s) = g[y] + G(s \ {y}) /\ H(Image(s)) = h[m[y]] + H(Image(s) \ {m[y]})
      BY <1>3, <1>4, <1>6, <2>2, <3>2
    <3>4. g[y] \in Nat /\ h[m[y]] \in Nat /\ G(s \ {y}) \in Nat /\ H(Image(s) \ {m[y]}) \in Nat
      <4>1. s \ {y} \in SUBSET S /\ Image(s) \ {m[y]} \in SUBSET T /\ y \in S /\ m[y] \in T
        BY <1>6, <2>2
      <4> QED BY <1>1, <1>2, <4>1
    <3> HIDE DEF Bad, Image
    <3>5. G(s) <= H(Image(s))
      BY SMTT(30), <3>1, <3>2, <3>3, <3>4
    <3> QED BY <3>5 DEF Bad
  <2> QED BY <2>1, <2>2
<1>9. Bad = {}
  <2>1. Bad \in SUBSET (SUBSET S)
    OBVIOUS
  <2> HIDE DEF Bad
  <2> QED BY <2>1, <1>8, LeastSubset
<1>10. G(S) <= H(Image(S)) /\ G(S) \in Nat /\ H(Image(S)) \in Nat
  BY <1>1, <1>2, <1>6, <1>9
<1> HIDE DEF Image
<1>11. G(S) <= H(T)
  BY <1>7, <1>10
<1> QED BY <1>11 DEF G, H

\* So many numbers, none of them greater than the limit
LEMMA SumBounded ==
    ASSUME NEW g, NEW S, IsFiniteSet(S), NEW L \in Nat, \A x \in S : g[x] \in 0..L
    PROVE  SumFunctionOnSet(g, S) <= Cardinality(S) * L
<1> DEFINE Sum(s) == SumFunctionOnSet(g, s)
           Bad == {s \in SUBSET S : ~ (Sum(s) <= Cardinality(s) * L)}
<1>1. \A s \in SUBSET S : IsFiniteSet(s) /\ Sum(s) \in Nat /\ Cardinality(s) \in Nat
  BY FS_Subset, SumType, FS_CardinalityType
<1>2. ASSUME NEW s \in SUBSET S, NEW y \in s
      PROVE  Sum(s) = g[y] + Sum(s \ {y}) /\ Cardinality(s \ {y}) = Cardinality(s) - 1
  <2>1. IsFiniteSet(s) /\ \A x \in s : g[x] \in Nat
    BY <1>1
  <2>2. Sum(s) = g[y] + Sum(s \ {y})
    BY <2>1, SumRemove
  <2>3. Cardinality(s \ {y}) = Cardinality(s) - 1
    BY <2>1, FS_RemoveElement
  <2> QED BY <2>2, <2>3
<1>3. Sum({}) = 0 /\ Cardinality({}) = 0
  BY SumOfNone, FS_EmptySet
<1> HIDE DEF Sum
<1>4. ASSUME NEW s \in Bad, \A x \in s : s \ {x} \notin Bad PROVE FALSE
  <2>1. CASE s = {}
    BY <2>1, <1>3
  <2>2. ASSUME NEW y \in s PROVE FALSE
    <3> DEFINE k == Cardinality(s \ {y})
    <3>1. Sum(s \ {y}) <= k * L /\ g[y] <= L /\ g[y] \in Nat /\ Sum(s \ {y}) \in Nat /\ k \in Nat
      BY <1>1, <1>4, <2>2
    <3>2. Sum(s) = g[y] + Sum(s \ {y}) /\ Cardinality(s) = k + 1
      BY <1>1, <1>2, <2>2
    <3> HIDE DEF Bad, k
    <3>3. (k + 1) * L = k * L + L /\ k * L \in Nat
      BY <3>1
    <3>4. Sum(s) <= Cardinality(s) * L
      BY <3>1, <3>2, <3>3
    <3> QED BY <3>4 DEF Bad
  <2> QED BY <2>1, <2>2
<1>5. Bad = {}
  <2>1. Bad \in SUBSET (SUBSET S)
    OBVIOUS
  <2> HIDE DEF Bad
  <2> QED BY <2>1, <1>4, LeastSubset
<1> QED BY <1>5 DEF Sum

-----------------------------------------------------------------------------
(* Sequences as the sets of what is in them.                               *)

LEMMA ToSetOfAppend ==
    ASSUME NEW S, NEW s \in Seq(S), NEW e \in S
    PROVE  /\ Append(s, e) \in Seq(S) /\ Append(s, e) # <<>>
           /\ ToSet(Append(s, e)) = ToSet(s) \cup {e}
<1>1. /\ Append(s, e) \in Seq(S) /\ DOMAIN Append(s, e) = 1..(Len(s) + 1) /\ DOMAIN s = 1..Len(s)
      /\ Append(s, e)[Len(s) + 1] = e /\ Len(s) \in Nat
      /\ \A i \in 1..Len(s) : Append(s, e)[i] = s[i]
  OBVIOUS
<1>2. 1..(Len(s) + 1) = 1..Len(s) \cup {Len(s) + 1}
  BY <1>1
<1>3. ToSet(Append(s, e)) \subseteq ToSet(s) \cup {e}
  BY <1>1, <1>2 DEF ToSet
<1>4. ToSet(s) \cup {e} \subseteq ToSet(Append(s, e))
  BY <1>1, <1>2 DEF ToSet
<1>5. Len(Append(s, e)) = Len(s) + 1 /\ Len(<<>>) = 0
  OBVIOUS
<1> QED BY <1>1, <1>3, <1>4, <1>5

LEMMA ToSetOfTail ==
    ASSUME NEW S, NEW s \in Seq(S), s # <<>>
    PROVE  /\ Head(s) \in S /\ Tail(s) \in Seq(S)
           /\ ToSet(s) = {Head(s)} \cup ToSet(Tail(s))
<1>1. /\ Head(s) = s[1] /\ Head(s) \in S /\ Tail(s) \in Seq(S) /\ Len(s) \in Nat \ {0}
      /\ DOMAIN s = 1..Len(s) /\ DOMAIN Tail(s) = 1..(Len(s) - 1)
      /\ \A i \in 1..(Len(s) - 1) : Tail(s)[i] = s[i + 1]
  OBVIOUS
<1>2. ToSet(s) \subseteq {Head(s)} \cup ToSet(Tail(s))
  <2> SUFFICES ASSUME NEW i \in 1..Len(s), i # 1 PROVE s[i] \in ToSet(Tail(s))
    BY <1>1 DEF ToSet
  <2>1. i - 1 \in 1..(Len(s) - 1) /\ s[i] = Tail(s)[i - 1]
    BY <1>1
  <2> QED BY <1>1, <2>1 DEF ToSet
<1>3. {Head(s)} \cup ToSet(Tail(s)) \subseteq ToSet(s)
  <2>1. 1 \in 1..Len(s) /\ \A i \in 1..(Len(s) - 1) : i + 1 \in 1..Len(s)
    BY <1>1
  <2> QED BY <1>1, <2>1 DEF ToSet
<1> QED BY <1>1, <1>2, <1>3

LEMMA ToSetType ==
    ASSUME NEW S, NEW s \in Seq(S)
    PROVE  /\ ToSet(s) \subseteq S /\ (s # <<>> => s[1] \in ToSet(s) /\ Head(s) = s[1])
           /\ (s = <<>> <=> ToSet(s) = {})
<1>1. DOMAIN s = 1..Len(s) /\ Len(s) \in Nat /\ (s # <<>> => Len(s) # 0 /\ Head(s) = s[1])
  OBVIOUS
<1>2. ToSet(s) \subseteq S /\ (s # <<>> => s[1] \in ToSet(s) /\ Head(s) = s[1])
  BY <1>1 DEF ToSet
<1>3. s = <<>> => ToSet(s) = {}
  BY DEF ToSet
<1> QED BY <1>2, <1>3

LEMMA ToSetFinite == ASSUME NEW S, NEW s \in Seq(S) PROVE IsFiniteSet(ToSet(s))
<1>1. Len(s) \in Nat /\ DOMAIN s = 1..Len(s) /\ s \in [1..Len(s) -> S]
  OBVIOUS
<1>2. s \in Surjection(1..Len(s), ToSet(s))
  BY <1>1 DEF Surjection, ToSet
<1>3. IsFiniteSet(1..Len(s))
  BY <1>1, FS_Interval
<1> QED BY <1>2, <1>3, FS_Surjection

\* The newest elements of a sequence: from the k-th on, those after it.
LEMMA ToSetOfNewest ==
    ASSUME NEW S, NEW s \in Seq(S), NEW k \in 0..Len(s)
    PROVE  /\ SubSeq(s, k + 1, Len(s)) \in Seq(S) /\ Len(SubSeq(s, k + 1, Len(s))) = Len(s) - k
           /\ \A j \in 1..(Len(s) - k) : SubSeq(s, k + 1, Len(s))[j] = s[j + k]
           /\ ToSet(SubSeq(s, k + 1, Len(s))) \subseteq ToSet(s)
<1> DEFINE t == SubSeq(s, k + 1, Len(s))
<1>1. /\ t \in Seq(S) /\ Len(t) = Len(s) - k /\ Len(s) \in Nat
      /\ \A j \in 1..(Len(s) - k) : t[j] = s[j + k]
  BY SMTT(30)
<1>2. DOMAIN t = 1..(Len(s) - k) /\ DOMAIN s = 1..Len(s) /\ \A j \in 1..(Len(s) - k) : j + k \in 1..Len(s)
  BY <1>1
<1>3. ToSet(t) \subseteq ToSet(s)
  BY <1>1, <1>2 DEF ToSet
<1> QED BY <1>1, <1>3

-----------------------------------------------------------------------------
(* Filters.                                                                *)

\* What Where computes for the first n elements from what it computed for fewer
WhereBody(s, stay, f, n) ==
    IF n = 0 THEN <<>> ELSE IF s[n] \in stay THEN Append(f[n - 1], s[n]) ELSE f[n - 1]
WherePrefix(s, stay) == CHOOSE f : f = [n \in 0..Len(s) |-> WhereBody(s, stay, f, n)]

LEMMA WhereIsPrefix == ASSUME NEW s, NEW stay PROVE Where(s, stay) = WherePrefix(s, stay)[Len(s)]
  BY DEF Where, WherePrefix, WhereBody

LEMMA PrefixExists ==
    ASSUME NEW s, NEW stay, NEW N \in Nat
    PROVE  \E f : f = [n \in 0..N |-> WhereBody(s, stay, f, n)]
<1> DEFINE Missing == {k \in Nat : ~ \E f : f = [n \in 0..k |-> WhereBody(s, stay, f, n)]}
<1>1. ASSUME NEW k \in Missing, \A m \in Missing : k <= m PROVE FALSE
  <2>1. CASE k = 0
    <3> DEFINE f == [n \in 0..0 |-> <<>>]
    <3>1. f = [n \in 0..0 |-> WhereBody(s, stay, f, n)]
      BY DEF WhereBody
    <3> QED BY <2>1, <3>1, <1>1
  <2>2. CASE k # 0
    <3>1. k - 1 \in Nat /\ ~ (k <= k - 1)
      BY <2>2
    <3>2. k - 1 \notin Missing
      BY <3>1, <1>1
    <3>3. PICK h : h = [n \in 0..(k - 1) |-> WhereBody(s, stay, h, n)]
      BY <3>1, <3>2
    <3> DEFINE f == [n \in 0..k |-> WhereBody(s, stay, h, n)]
    <3>4. \A n \in 0..(k - 1) : f[n] = h[n]
      <4>1. \A n \in 0..(k - 1) : n \in 0..k
        BY <3>1
      <4>2. \A n \in 0..(k - 1) : f[n] = WhereBody(s, stay, h, n)
        BY <4>1
      <4>3. \A n \in 0..(k - 1) : h[n] = WhereBody(s, stay, h, n)
        BY <3>3
      <4> QED BY <4>2, <4>3
    <3>5. ASSUME NEW n \in 0..k PROVE WhereBody(s, stay, h, n) = WhereBody(s, stay, f, n)
      <4>1. n # 0 => n - 1 \in 0..(k - 1)
        BY <3>1
      <4> HIDE DEF f
      <4> QED BY <3>4, <4>1 DEF WhereBody
    <3>6. f = [n \in 0..k |-> WhereBody(s, stay, f, n)]
      BY <3>5
    <3> QED BY <3>6, <1>1
  <2> QED BY <2>1, <2>2
<1>2. Missing = {}
  <2>1. Missing \in SUBSET Nat
    OBVIOUS
  <2> HIDE DEF Missing
  <2> QED BY <2>1, <1>1, LeastElement
<1> QED BY <1>2

LEMMA PrefixUnfolds ==
    ASSUME NEW S, NEW s \in Seq(S), NEW stay
    PROVE  /\ WherePrefix(s, stay)[0] = <<>>
           /\ \A n \in 1..Len(s) :
                WherePrefix(s, stay)[n] = IF s[n] \in stay THEN Append(WherePrefix(s, stay)[n - 1], s[n])
                                          ELSE WherePrefix(s, stay)[n - 1]
<1>1. Len(s) \in Nat
  OBVIOUS
<1>2. WherePrefix(s, stay) = [n \in 0..Len(s) |-> WhereBody(s, stay, WherePrefix(s, stay), n)]
  BY <1>1, PrefixExists DEF WherePrefix
<1>3. \A n \in 0..Len(s) : WherePrefix(s, stay)[n] = WhereBody(s, stay, WherePrefix(s, stay), n)
  BY <1>2
<1>4. 0 \in 0..Len(s) /\ \A n \in 1..Len(s) : n \in 0..Len(s) /\ n # 0
  BY <1>1
<1> QED BY <1>3, <1>4 DEF WhereBody

\* What t, computed from the first n elements of s, has to do with them: each is there, in the
\* order of s; what comes after one of them was after it in s.
Filtered(t, s, n, stay, S) ==
    /\ t \in Seq(S) /\ Len(t) <= n
    /\ \A j \in 1..Len(t) : \E i \in 1..n : s[i] = t[j] /\ s[i] \in stay /\ Len(t) - j <= n - i
    /\ \A i \in 1..n : s[i] \in stay => \E j \in 1..Len(t) : t[j] = s[i]
    /\ (\A i \in 1..n : s[i] \in stay) => Len(t) = n /\ \A i \in 1..n : t[i] = s[i]
    /\ \A k \in 1..Len(t) : \A j \in 1..(k - 1) : \E l \in 1..n : \E i \in 1..(l - 1) : s[i] = t[j] /\ s[l] = t[k]

LEMMA WhereFiltered ==
    ASSUME NEW S, NEW s \in Seq(S), NEW stay
    PROVE  Filtered(Where(s, stay), s, Len(s), stay, S)
<1> DEFINE p == WherePrefix(s, stay)
           Wrong == {n \in 0..Len(s) : ~ Filtered(p[n], s, n, stay, S)}
<1>0. Len(s) \in Nat /\ \A n \in 1..Len(s) : s[n] \in S
  OBVIOUS
<1>1. ASSUME NEW n \in Wrong, \A m \in Wrong : n <= m PROVE FALSE
  <2>1. CASE n = 0
    <3>1. p[0] = <<>>
      BY PrefixUnfolds
    <3>2. Filtered(<<>>, s, 0, stay, S)
      BY DEF Filtered
    <3> QED BY <2>1, <3>1, <3>2
  <2>2. CASE n # 0
    <3>1. n \in 1..Len(s) /\ n - 1 \in 0..Len(s) /\ ~ (n <= n - 1) /\ n - 1 \in Nat
      BY <1>0, <2>2
    <3>2. Filtered(p[n - 1], s, n - 1, stay, S)
      BY <3>1, <1>1
    <3>3. p[n] = IF s[n] \in stay THEN Append(p[n - 1], s[n]) ELSE p[n - 1]
      BY <3>1, PrefixUnfolds
    <3> DEFINE t == p[n - 1]
    <3>4. /\ t \in Seq(S) /\ Len(t) \in Nat /\ Len(t) <= n - 1
          /\ \A j \in 1..Len(t) : \E i \in 1..(n - 1) : s[i] = t[j] /\ s[i] \in stay /\ Len(t) - j <= n - 1 - i
          /\ \A i \in 1..(n - 1) : s[i] \in stay => \E j \in 1..Len(t) : t[j] = s[i]
          /\ (\A i \in 1..(n - 1) : s[i] \in stay)
                => Len(t) = n - 1 /\ \A i \in 1..(n - 1) : t[i] = s[i]
          /\ \A k \in 1..Len(t) : \A j \in 1..(k - 1) :
                \E l \in 1..(n - 1) : \E i \in 1..(l - 1) : s[i] = t[j] /\ s[l] = t[k]
      BY <3>2 DEF Filtered
    <3> HIDE DEF p, t
    <3>5. CASE s[n] \in stay
      <4> DEFINE u == Append(t, s[n])
      <4>1. /\ u \in Seq(S) /\ Len(u) = Len(t) + 1 /\ u[Len(t) + 1] = s[n]
            /\ \A j \in 1..Len(t) : u[j] = t[j]
        BY <1>0, <3>1, <3>4
      <4> HIDE DEF u
      <4>2. \A j \in 1..Len(u) : \E i \in 1..n : s[i] = u[j] /\ s[i] \in stay /\ Len(u) - j <= n - i
        <5> SUFFICES ASSUME NEW j \in 1..Len(u)
                     PROVE  \E i \in 1..n : s[i] = u[j] /\ s[i] \in stay /\ Len(u) - j <= n - i
          OBVIOUS
        <5>1. CASE j = Len(t) + 1
          BY <3>1, <3>4, <3>5, <4>1, <5>1
        <5>2. CASE j # Len(t) + 1
          <6>1. j \in 1..Len(t)
            BY <3>4, <4>1, <5>2
          <6>2. PICK i \in 1..(n - 1) : s[i] = t[j] /\ s[i] \in stay /\ Len(t) - j <= n - 1 - i
            BY <6>1, <3>4
          <6>3. i \in 1..n /\ Len(u) - j <= n - i
            BY <3>1, <3>4, <4>1, <6>2
          <6> QED BY <4>1, <6>1, <6>2, <6>3
        <5> QED BY <5>1, <5>2
      <4>3. \A i \in 1..n : s[i] \in stay => \E j \in 1..Len(u) : u[j] = s[i]
        <5> SUFFICES ASSUME NEW i \in 1..n, s[i] \in stay PROVE \E j \in 1..Len(u) : u[j] = s[i]
          OBVIOUS
        <5>1. CASE i = n
          <6>1. Len(t) + 1 \in 1..Len(u)
            BY <3>4, <4>1
          <6> QED BY <4>1, <5>1, <6>1
        <5>2. CASE i # n
          <6>1. i \in 1..(n - 1)
            BY <3>1, <5>2
          <6>2. PICK j \in 1..Len(t) : t[j] = s[i]
            BY <6>1, <3>4
          <6>3. j \in 1..Len(u)
            BY <3>4, <4>1
          <6> QED BY <4>1, <6>2, <6>3
        <5> QED BY <5>1, <5>2
      <4>4. (\A i \in 1..n : s[i] \in stay) => Len(u) = n /\ \A i \in 1..n : u[i] = s[i]
        <5> SUFFICES ASSUME \A i \in 1..n : s[i] \in stay
                     PROVE  Len(u) = n /\ \A i \in 1..n : u[i] = s[i]
          OBVIOUS
        <5>1. \A i \in 1..(n - 1) : s[i] \in stay
          BY <3>1
        <5>2. Len(t) = n - 1 /\ \A i \in 1..(n - 1) : t[i] = s[i]
          BY <5>1, <3>4
        <5>3. \A i \in 1..n : i = n \/ i \in 1..(n - 1)
          BY <3>1
        <5> QED BY <3>1, <4>1, <5>2, <5>3
      <4>5. ASSUME NEW k \in 1..Len(u), NEW j \in 1..(k - 1)
            PROVE  \E l \in 1..n : \E i \in 1..(l - 1) : s[i] = u[j] /\ s[l] = u[k]
        <5>1. j \in 1..Len(t)
          BY <3>4, <4>1
        <5>2. CASE k = Len(t) + 1
          <6>1. PICK i \in 1..(n - 1) : s[i] = t[j]
            BY <3>4, <5>1
          <6>2. n \in 1..n
            BY <3>1
          <6> QED BY <4>1, <5>1, <5>2, <6>1, <6>2
        <5>3. CASE k # Len(t) + 1
          <6>0. Len(t) \in Nat /\ Len(u) = Len(t) + 1
            BY <3>4, <4>1
          <6>1. k \in 1..Len(t)
            BY <5>3, <6>0
          <6>2. PICK l \in 1..(n - 1) : \E i \in 1..(l - 1) : s[i] = t[j] /\ s[l] = t[k]
            BY <3>4, <6>1
          <6>3. l \in 1..n
            BY <3>1
          <6> QED BY <4>1, <5>1, <6>1, <6>2, <6>3
        <5> QED BY <5>2, <5>3
      <4>6. Filtered(u, s, n, stay, S)
        BY <3>1, <3>4, <4>1, <4>2, <4>3, <4>4, <4>5 DEF Filtered
      <4> QED BY <3>3, <3>5, <4>6, <1>1 DEF t, u
    <3>6. CASE s[n] \notin stay
      <4>1. \A i \in 1..n : i = n \/ i \in 1..(n - 1)
        BY <3>1
      <4>2. \A j \in 1..Len(t) : \E i \in 1..n : s[i] = t[j] /\ s[i] \in stay /\ Len(t) - j <= n - i
        <5> TAKE j \in 1..Len(t)
        <5>1. PICK i \in 1..(n - 1) : s[i] = t[j] /\ s[i] \in stay /\ Len(t) - j <= n - 1 - i
          BY <3>4
        <5>2. i \in 1..n /\ Len(t) - j <= n - i
          BY <3>1, <3>4, <5>1
        <5> QED BY <5>1, <5>2
      <4>3. \A i \in 1..n : s[i] \in stay => \E j \in 1..Len(t) : t[j] = s[i]
        BY <3>4, <3>6, <4>1
      <4>4. n \in 1..n
        BY <3>1
      <4>5. ASSUME NEW k \in 1..Len(t), NEW j \in 1..(k - 1)
            PROVE  \E l \in 1..n : \E i \in 1..(l - 1) : s[i] = t[j] /\ s[l] = t[k]
        <5>1. PICK l \in 1..(n - 1) : \E i \in 1..(l - 1) : s[i] = t[j] /\ s[l] = t[k]
          BY <3>4
        <5>2. l \in 1..n
          BY <3>1
        <5> QED BY <5>1, <5>2
      <4>6. Filtered(t, s, n, stay, S)
        BY <3>1, <3>4, <3>6, <4>2, <4>3, <4>4, <4>5 DEF Filtered
      <4> QED BY <3>3, <3>6, <4>6, <1>1 DEF t
    <3> QED BY <3>5, <3>6
  <2> QED BY <2>1, <2>2
<1>2. Wrong = {}
  <2>1. Wrong \in SUBSET Nat
    BY <1>0
  <2> HIDE DEF Wrong
  <2> QED BY <2>1, <1>1, LeastElement
<1>3. Filtered(p[Len(s)], s, Len(s), stay, S)
  BY <1>0, <1>2
<1> QED BY <1>3, WhereIsPrefix

\* A filter keeps what is to stay, and nothing else; all, if all is to stay.
LEMMA WhereKeeps ==
    ASSUME NEW S, NEW s \in Seq(S), NEW stay
    PROVE  /\ Where(s, stay) \in Seq(S) /\ Len(Where(s, stay)) <= Len(s)
           /\ ToSet(Where(s, stay)) = ToSet(s) \cap stay
           /\ ToSet(s) \subseteq stay => Where(s, stay) = s
<1> DEFINE t == Where(s, stay)
<1>1. Filtered(t, s, Len(s), stay, S) /\ Len(s) \in Nat
  BY WhereFiltered
<1> HIDE DEF t
<1>2. t \in Seq(S) /\ Len(t) <= Len(s)
  BY <1>1 DEF Filtered
<1>3. DOMAIN t = 1..Len(t) /\ DOMAIN s = 1..Len(s)
  BY <1>2
<1>4. ToSet(t) = ToSet(s) \cap stay
  <2>1. ASSUME NEW e \in ToSet(t) PROVE e \in ToSet(s) \cap stay
    <3>1. PICK j \in 1..Len(t) : e = t[j]
      BY <1>3 DEF ToSet
    <3>2. PICK i \in 1..Len(s) : s[i] = t[j] /\ s[i] \in stay
      BY <1>1 DEF Filtered
    <3> QED BY <1>3, <3>1, <3>2 DEF ToSet
  <2>2. ASSUME NEW e \in ToSet(s), e \in stay PROVE e \in ToSet(t)
    <3>1. PICK i \in 1..Len(s) : e = s[i]
      BY <1>3 DEF ToSet
    <3>2. PICK j \in 1..Len(t) : t[j] = s[i]
      BY <1>1, <2>2, <3>1 DEF Filtered
    <3> QED BY <1>3, <3>1, <3>2 DEF ToSet
  <2> QED BY <2>1, <2>2
<1>5. ToSet(s) \subseteq stay => t = s
  <2> SUFFICES ASSUME ToSet(s) \subseteq stay PROVE t = s
    OBVIOUS
  <2>1. \A i \in 1..Len(s) : s[i] \in stay
    BY <1>3 DEF ToSet
  <2>2. Len(t) = Len(s) /\ \A i \in 1..Len(s) : t[i] = s[i]
    BY <1>1, <2>1 DEF Filtered
  <2> QED BY <1>2, <2>2
<1> QED BY <1>2, <1>4, <1>5 DEF t

\* It keeps the order: an element has no more after it than it had.
LEMMA WhereKeepsOrder ==
    ASSUME NEW S, NEW s \in Seq(S), NEW stay, NEW j \in 1..Len(Where(s, stay))
    PROVE  \E i \in 1..Len(s) : /\ s[i] = Where(s, stay)[j] /\ s[i] \in stay
                                /\ Len(Where(s, stay)) - j <= Len(s) - i
  BY WhereFiltered DEF Filtered

\* What comes first in a filtered sequence came first.
InOrder(t, s) ==
    \A k \in 1..Len(t) : \A j \in 1..(k - 1) : \E l \in 1..Len(s) : \E i \in 1..(l - 1) : s[i] = t[j] /\ s[l] = t[k]

LEMMA WhereInOrder == ASSUME NEW S, NEW s \in Seq(S), NEW stay PROVE InOrder(Where(s, stay), s)
<1> DEFINE t == Where(s, stay)
<1>1. Filtered(t, s, Len(s), stay, S)
  BY WhereFiltered
<1> HIDE DEF t
<1>2. InOrder(t, s)
  BY <1>1 DEF Filtered, InOrder
<1> QED BY <1>2 DEF t

-----------------------------------------------------------------------------
(* Induction, and what is computed step by step *)

\* From a to b, one at a time
LEMMA Climb ==
    ASSUME NEW a \in Nat, NEW b \in Nat, NEW T, a \in T, \A k \in (a + 1)..b : k - 1 \in T => k \in T
    PROVE  a..b \subseteq T
<1> DEFINE Bad == (a..b) \ T
<1>1. ASSUME NEW k \in Bad, \A j \in Bad : k <= j PROVE FALSE
  <2>1. k \in (a + 1)..b /\ k - 1 \in a..b /\ ~ (k <= k - 1) /\ k \notin T
    OBVIOUS
  <2>2. k - 1 \in T
    BY <1>1, <2>1
  <2> QED BY <2>1, <2>2
<1>2. Bad = {}
  <2>1. Bad \in SUBSET Nat
    OBVIOUS
  <2> HIDE DEF Bad
  <2> QED BY <2>1, <1>1, LeastElement
<1> QED BY <1>2

\* From what is smaller to what is not
LEMMA Strongly ==
    ASSUME NEW b \in Nat, NEW T, \A k \in 0..b : (\A j \in 0..b : j < k => j \in T) => k \in T
    PROVE  0..b \subseteq T
<1> DEFINE Bad == (0..b) \ T
<1>1. ASSUME NEW k \in Bad, \A j \in Bad : k <= j PROVE FALSE
  <2>1. k \in 0..b /\ k \notin T
    OBVIOUS
  <2>2. \A j \in 0..b : j < k => j \in T
    BY <1>1
  <2> QED BY <2>1, <2>2
<1>2. Bad = {}
  <2>1. Bad \in SUBSET Nat
    OBVIOUS
  <2> HIDE DEF Bad
  <2> QED BY <2>1, <1>1, LeastElement
<1> QED BY <1>2

\* Induction over sequences, for the sequences that have a property.
LEMMA SequenceInduction ==
    ASSUME NEW S, NEW T, <<>> \in T, \A s \in T \cap Seq(S) : \A e \in S : Append(s, e) \in T
    PROVE  Seq(S) \subseteq T
<1> DEFINE Bad == {n \in Nat : \E s \in Seq(S) : Len(s) = n /\ s \notin T}
<1>1. ASSUME NEW n \in Bad, \A m \in Bad : n <= m PROVE FALSE
  <2>1. PICK s \in Seq(S) : Len(s) = n /\ s \notin T
    BY <1>1
  <2>2. s # <<>> /\ n \in Nat
    BY <2>1
  <2> DEFINE r == SubSeq(s, 1, n - 1)
  <2>3. r \in Seq(S) /\ Len(r) = n - 1 /\ s[n] \in S /\ s = Append(r, s[n]) /\ n - 1 \in Nat
    BY <2>1, <2>2
  <2>4. r \in T
    <3>1. n - 1 \notin Bad
      BY <1>1, <2>3
    <3> QED BY <3>1, <2>3
  <2> HIDE DEF r
  <2> QED BY <2>1, <2>3, <2>4
<1>2. Bad = {}
  <2>1. Bad \in SUBSET Nat
    OBVIOUS
  <2> HIDE DEF Bad
  <2> QED BY <2>1, <1>1, LeastElement
<1>3. ASSUME NEW s \in Seq(S) PROVE s \in T
  <2>1. Len(s) \in Nat /\ Len(s) \notin Bad
    BY <1>2
  <2> QED BY <2>1
<1> QED BY <1>3

\* f goes through k steps.
Iterates(f, k, base, step, S) == f \in [0..k -> S] /\ f[0] = base /\ \A n \in 1..k : f[n] = step[f[n - 1], n]

\* What is computed step by step exists.
LEMMA IterationExists ==
    ASSUME NEW S, NEW base \in S, NEW N \in Nat, NEW step \in [S \X (1..N) -> S]
    PROVE  \E f : Iterates(f, N, base, step, S)
<1> DEFINE Bad == {k \in 0..N : ~ \E f : Iterates(f, k, base, step, S)}
<1>0. Bad \in SUBSET Nat /\ Bad \subseteq 0..N
  OBVIOUS
<1>1. \A k \in 0..N : k \notin Bad <=> \E f : Iterates(f, k, base, step, S)
  OBVIOUS
<1> HIDE DEF Bad
<1>2. ASSUME NEW k \in Bad, \A m \in Bad : k <= m PROVE FALSE
  <2>0. k \in 0..N
    BY <1>0
  <2>1. CASE k = 0
    <3>1. Iterates([n \in {0} |-> base], 0, base, step, S)
      <4>1. 0..0 = {0} /\ 1..0 = {}
        OBVIOUS
      <4> QED BY <4>1 DEF Iterates
    <3> QED BY <1>1, <2>0, <2>1, <3>1
  <2>2. CASE k # 0
    <3>1. k - 1 \in 0..N /\ ~ (k <= k - 1) /\ k \in 1..N /\ k - 1 \in 0..(k - 1)
      BY <2>0, <2>2
    <3>2. \E h : Iterates(h, k - 1, base, step, S)
      BY <1>1, <1>2, <3>1
    <3>3. PICK h : Iterates(h, k - 1, base, step, S)
      BY <3>2
    <3> DEFINE next == step[h[k - 1], k]
               f == [n \in 0..k |-> IF n = k THEN next ELSE h[n]]
    <3>4. next \in S
      <4>1. h[k - 1] \in S
        BY <3>1, <3>3 DEF Iterates
      <4>2. <<h[k - 1], k>> \in S \X (1..N)
        BY <4>1, <3>1
      <4> QED BY <4>2
    <3> HIDE DEF next
    <3>5. \A n \in 0..k : n # k => n \in 0..(k - 1)
      BY <2>0
    <3>6. f \in [0..k -> S]
      BY <3>3, <3>4, <3>5 DEF Iterates
    <3>7. f[0] = base
      <4>1. 0 \in 0..k /\ 0 # k
        BY <2>0, <2>2
      <4> QED BY <4>1, <3>3 DEF Iterates
    <3>8. ASSUME NEW n \in 1..k PROVE f[n] = step[f[n - 1], n]
      <4>1. n \in 0..k /\ n - 1 \in 0..k /\ n - 1 # k /\ (n # k => n \in 1..(k - 1)) /\ (n = k => n - 1 = k - 1)
        BY <2>0
      <4>2. f[n - 1] = h[n - 1]
        BY <4>1
      <4>3. CASE n = k
        BY <4>1, <4>2, <4>3 DEF next
      <4>4. CASE n # k
        <5>1. f[n] = h[n]
          BY <4>1, <4>4
        <5>2. h[n] = step[h[n - 1], n]
          BY <4>1, <4>4, <3>3 DEF Iterates
        <5> QED BY <5>1, <5>2, <4>2
      <4> QED BY <4>3, <4>4
    <3> HIDE DEF f
    <3>9. Iterates(f, k, base, step, S)
      BY <3>6, <3>7, <3>8 DEF Iterates
    <3> QED BY <1>1, <2>0, <3>9
  <2> QED BY <2>1, <2>2
<1>3. Bad = {}
  BY <1>0, <1>2, LeastElement
<1>4. N \in 0..N
  OBVIOUS
<1> QED BY <1>1, <1>3, <1>4

Alike(f, g, n) == f[n] = g[n]
\* f and g begin in the same way and go on in the same way.
GoAlike(f, g, N) == Alike(f, g, 0) /\ \A n \in 1..N : Alike(f, g, n - 1) => Alike(f, g, n)

\* What takes the same steps from the same beginning is the same.
LEMMA IterationsAgree ==
    ASSUME NEW N \in Nat, NEW f, NEW g, GoAlike(f, g, N), NEW n \in 0..N
    PROVE  f[n] = g[n]
<1> DEFINE Bad == {k \in 0..N : ~ Alike(f, g, k)}
<1>1. ASSUME NEW k \in Bad, \A m \in Bad : k <= m PROVE FALSE
  <2>1. k # 0
    BY <1>1 DEF GoAlike
  <2>2. k \in 1..N /\ k - 1 \in 0..N /\ ~ (k <= k - 1)
    BY <2>1
  <2>3. Alike(f, g, k - 1)
    BY <1>1, <2>2
  <2> QED BY <2>2, <2>3 DEF GoAlike
<1>2. Bad = {}
  <2>1. Bad \in SUBSET Nat
    OBVIOUS
  <2> HIDE DEF Bad
  <2> QED BY <2>1, <1>1, LeastElement
<1> QED BY <1>2 DEF Alike

-----------------------------------------------------------------------------
(* Sequences that are joined, cut or filtered *)

LEMMA AppendToJoined ==
    ASSUME NEW S, NEW s \in Seq(S), NEW t \in Seq(S), NEW e \in S
    PROVE  /\ s \o t \in Seq(S) /\ t \o <<e>> = Append(t, e) /\ s \o Append(t, e) = Append(s \o t, e)
<1>1. s \o t \in Seq(S) /\ <<e>> \in Seq(S)
  BY ConcatProperties
<1>2. t \o <<e>> = Append(t, e)
  BY AppendIsConcat
<1>3. (s \o t) \o <<e>> = Append(s \o t, e)
  BY <1>1, AppendIsConcat
<1> DEFINE one == <<e>>
<1> HIDE DEF one
<1>4. one \in Seq(S)
  BY <1>1 DEF one
<1>5. (s \o t) \o one = s \o (t \o one)
  BY <1>4, ConcatAssociative
<1> QED BY <1>1, <1>2, <1>3, <1>5 DEF one

\* A sequence is what is in front of its last element and that element.
LEMMA FrontAndLast ==
    ASSUME NEW S, NEW s \in Seq(S), s # <<>>
    PROVE  /\ Front(s) \in Seq(S) /\ Last(s) \in S /\ Len(Front(s)) = Len(s) - 1 /\ Len(s) \in Nat \ {0}
           /\ \A i \in 1..(Len(s) - 1) : Front(s)[i] = s[i]
           /\ s = Front(s) \o <<Last(s)>> /\ s[Len(s)] = Last(s)
<1>1. Len(s) \in Nat \ {0}
  OBVIOUS
<1>2. /\ Front(s) \in Seq(S) /\ Last(s) \in S /\ Len(Front(s)) = Len(s) - 1
      /\ \A i \in 1..(Len(s) - 1) : Front(s)[i] = s[i]
  <2>1. Last(s) \in S
    BY <1>1 DEF Last
  <2> DEFINE k == Len(s) - 1
  <2>2. k \in Nat /\ k <= Len(s) /\ Front(s) = SubSeq(s, 1, k)
    BY <1>1 DEF Front
  <2> HIDE DEF k
  <2>3. /\ SubSeq(s, 1, k) \in Seq(S) /\ Len(SubSeq(s, 1, k)) = k
        /\ \A i \in 1..k : SubSeq(s, 1, k)[i] = s[i]
    BY <2>2
  <2> QED BY <2>1, <2>2, <2>3 DEF k
<1>3. s[Len(s)] = Last(s)
  BY DEF Last
<1> HIDE DEF Front, Last
<1>4. <<Last(s)>> \in Seq(S) /\ Len(<<Last(s)>>) = 1 /\ <<Last(s)>>[1] = Last(s)
  BY <1>2
<1> DEFINE r == <<Last(s)>>
<1> HIDE DEF r
<1>5. /\ Front(s) \o r \in Seq(S) /\ Len(Front(s) \o r) = Len(s)
      /\ \A i \in 1..Len(s) : (Front(s) \o r)[i] = IF i <= Len(s) - 1 THEN Front(s)[i] ELSE r[i - (Len(s) - 1)]
  BY <1>1, <1>2, <1>4, ConcatProperties DEF r
<1>6. \A i \in 1..Len(s) : (Front(s) \o r)[i] = s[i]
  <2> SUFFICES ASSUME NEW i \in 1..Len(s) PROVE (Front(s) \o r)[i] = s[i]
    OBVIOUS
  <2>1. CASE i = Len(s)
    BY <2>1, <1>1, <1>3, <1>4, <1>5 DEF r
  <2>2. CASE i # Len(s)
    BY <2>2, <1>1, <1>2, <1>5
  <2> QED BY <2>1, <2>2
<1>7. Front(s) \o r = s
  BY <1>5, <1>6, SeqEqual
<1> QED BY <1>1, <1>2, <1>3, <1>7 DEF r

\* One more element is kept or not.
LEMMA WhereOfMore ==
    ASSUME NEW S, NEW s \in Seq(S), NEW e \in S, NEW stay
    PROVE  Where(Append(s, e), stay) = IF e \in stay THEN Append(Where(s, stay), e) ELSE Where(s, stay)
<1> DEFINE N == Len(s)
           more == Append(s, e)
           f == WherePrefix(s, stay)
           g == WherePrefix(more, stay)
<1>1. /\ N \in Nat /\ more \in Seq(S) /\ Len(more) = N + 1 /\ more[N + 1] = e
      /\ \A n \in 1..N : more[n] = s[n]
  BY AppendProperties
<1>2. /\ f[0] = <<>> /\ Where(s, stay) = f[N]
      /\ \A n \in 1..N : f[n] = IF s[n] \in stay THEN Append(f[n - 1], s[n]) ELSE f[n - 1]
  BY PrefixUnfolds, WhereIsPrefix
<1> HIDE DEF more
<1>3. /\ g[0] = <<>> /\ Where(more, stay) = g[N + 1]
      /\ \A n \in 1..(N + 1) : g[n] = IF more[n] \in stay THEN Append(g[n - 1], more[n]) ELSE g[n - 1]
  BY <1>1, PrefixUnfolds, WhereIsPrefix
<1> HIDE DEF f, g, N
<1>4. GoAlike(f, g, N)
  <2>1. \A n \in 1..N : n \in 1..(N + 1)
    BY <1>1
  <2> QED BY <1>1, <1>2, <1>3, <2>1 DEF GoAlike, Alike
<1>5. N \in 0..N /\ N + 1 \in 1..(N + 1) /\ (N + 1) - 1 = N
  BY <1>1
<1>6. f[N] = g[N]
  BY <1>1, <1>4, <1>5, IterationsAgree
<1> QED BY <1>1, <1>2, <1>3, <1>5, <1>6 DEF more

\* What is kept of two sequences
LEMMA WhereJoined ==
    ASSUME NEW S, NEW s \in Seq(S), NEW t \in Seq(S), NEW stay
    PROVE  Where(s \o t, stay) = Where(s, stay) \o Where(t, stay)
<1> DEFINE Good == {u \in Seq(S) : Where(s \o u, stay) = Where(s, stay) \o Where(u, stay)}
<1>0. \A u \in Seq(S) : Where(u, stay) \in Seq(S)
  BY WhereKeeps
<1>1. <<>> \in Good
  <2>1. <<>> \in Seq(S) /\ s \o <<>> = s
    BY ConcatEmptySeq
  <2>2. Where(<<>>, stay) = <<>>
    <3>1. Where(<<>>, stay) \in Seq(S) /\ Len(Where(<<>>, stay)) <= Len(<<>>)
      BY <2>1, WhereKeeps
    <3> QED BY <3>1, EmptySeq
  <2>3. Where(s, stay) \o <<>> = Where(s, stay)
    BY <1>0, ConcatEmptySeq
  <2> QED BY <2>1, <2>2, <2>3
<1>2. ASSUME NEW u \in Good, NEW e \in S PROVE Append(u, e) \in Good
  <2>1. u \in Seq(S) /\ Append(u, e) \in Seq(S)
    BY AppendProperties
  <2>2. s \o u \in Seq(S) /\ s \o Append(u, e) = Append(s \o u, e)
    BY <2>1, AppendToJoined
  <2> DEFINE a == Where(s, stay)
             b == Where(u, stay)
  <2>3. a \in Seq(S) /\ b \in Seq(S) /\ Where(s \o u, stay) = a \o b
    BY <1>0, <2>1
  <2>4. Where(s \o Append(u, e), stay) = IF e \in stay THEN Append(a \o b, e) ELSE a \o b
    <3> DEFINE v == s \o u
    <3> HIDE DEF a, b, v
    <3>1. Where(Append(v, e), stay) = IF e \in stay THEN Append(Where(v, stay), e) ELSE Where(v, stay)
      <4>1. v \in Seq(S)
        BY <2>2 DEF v
      <4> QED BY <4>1, WhereOfMore
    <3> QED BY <2>2, <2>3, <3>1 DEF v
  <2>5. Where(Append(u, e), stay) = IF e \in stay THEN Append(b, e) ELSE b
    BY <2>1, WhereOfMore
  <2> HIDE DEF a, b
  <2> HIDE DEF Good
  <2>7. a \in Seq(S) /\ b \in Seq(S) /\ e \in S
    BY <2>3
  <2>6. a \o Append(b, e) = Append(a \o b, e)
    BY <2>7, AppendToJoined
  <2> USE DEF Good
  <2> QED BY <2>1, <2>4, <2>5, <2>6 DEF a
<1>3. t \in Good
  <2> HIDE DEF Good
  <2> QED BY <1>1, <1>2, SequenceInduction
<1> QED BY <1>3

\* The beginning of a sequence
LEMMA PrefixOfJoined ==
    ASSUME NEW S, NEW s \in Seq(S), NEW t \in Seq(S), NEW u \in Seq(S), IsPrefix(s, t)
    PROVE  IsPrefix(s, t \o u)
<1>1. /\ Len(s) \in Nat /\ Len(t) \in Nat /\ Len(u) \in Nat /\ Len(s) <= Len(t)
      /\ SubSeq(s, 1, Len(s)) = SubSeq(t, 1, Len(s)) /\ Len(t \o u) = Len(t) + Len(u)
  BY ConcatProperties DEF IsPrefix
<1>2. SubSeq(t \o u, 1, Len(s)) = SubSeq(t, 1, Len(s))
  <2>1. CASE Len(s) = 0
    <3>1. SubSeq(t \o u, 1, 0) = <<>> /\ SubSeq(t, 1, 0) = <<>>
      BY SubSeqEmpty
    <3> QED BY <2>1, <3>1
  <2>2. CASE Len(s) # 0
    <3>1. 1 \in 1..Len(t) /\ Len(s) \in 1..Len(t)
      BY <1>1, <2>2
    <3> QED BY <3>1, SubSeqOfConcat1
  <2> QED BY <2>1, <2>2
<1>3. Len(s) <= Len(t \o u)
  BY <1>1
<1> QED BY <1>1, <1>2, <1>3 DEF IsPrefix

LEMMA PrefixOfItself == ASSUME NEW S, NEW s \in Seq(S) PROVE IsPrefix(s, s)
  BY DEF IsPrefix

-----------------------------------------------------------------------------
FlattenSteps(seqs) ==
    CHOOSE f : f = [i \in 1..Len(seqs) |-> IF i = 1 THEN seqs[i] ELSE f[i - 1] \o seqs[i]]

\* f is the beginnings of what FlattenSeq makes of seqs.
Flattens(f, seqs, S) ==
    /\ f \in [0..Len(seqs) -> Seq(S)]
    /\ f[0] = <<>> /\ \A n \in 1..Len(seqs) : f[n] = f[n - 1] \o seqs[n]
    /\ FlattenSeq(seqs) = f[Len(seqs)]

LEMMA FlattenStep == ASSUME NEW S, NEW seqs \in Seq(Seq(S)) PROVE \E f : Flattens(f, seqs, S)
<1> DEFINE N == Len(seqs)
           step == [x \in Seq(S) \X (1..N) |-> x[1] \o seqs[x[2]]]
           g == FlattenSteps(seqs)
<1>1. N \in Nat /\ \A n \in 1..N : seqs[n] \in Seq(S)
  OBVIOUS
<1>2. <<>> \in Seq(S)
  OBVIOUS
<1>3. step \in [Seq(S) \X (1..N) -> Seq(S)]
  <2>1. ASSUME NEW x \in Seq(S) \X (1..N) PROVE x[1] \o seqs[x[2]] \in Seq(S)
    BY <1>1, ConcatProperties
  <2> QED BY <2>1
<1>4. \A s \in Seq(S), n \in 1..N : step[s, n] = s \o seqs[n]
  OBVIOUS
<1> HIDE DEF N, step
<1>5. PICK f : Iterates(f, N, <<>>, step, Seq(S))
  BY <1>1, <1>2, <1>3, IterationExists
<1>6. \A n \in 1..N : n \in 0..N /\ n - 1 \in 0..N /\ n # 0 /\ 0 \in 0..N /\ 1 - 1 = 0
                      /\ (n # 1 => n - 1 \in 1..N)
  BY <1>1
<1>7. f \in [0..N -> Seq(S)] /\ f[0] = <<>> /\ \A n \in 1..N : f[n] = f[n - 1] \o seqs[n]
  BY <1>4, <1>5, <1>6 DEF Iterates
<1> DEFINE h == [n \in 1..N |-> f[n]]
<1>8. h = [i \in 1..N |-> IF i = 1 THEN seqs[i] ELSE h[i - 1] \o seqs[i]]
  <2>1. ASSUME NEW i \in 1..N PROVE h[i] = IF i = 1 THEN seqs[i] ELSE h[i - 1] \o seqs[i]
    <3>1. f[i] = f[i - 1] \o seqs[i] /\ h[i] = f[i] /\ (i # 1 => h[i - 1] = f[i - 1])
      BY <1>6, <1>7
    <3>2. i = 1 => f[i - 1] = <<>>
      BY <1>7
    <3>3. <<>> \o seqs[i] = seqs[i]
      BY <1>1, ConcatEmptySeq
    <3> QED BY <3>1, <3>2, <3>3
  <2> HIDE DEF h
  <2>2. h \in [1..N -> Seq(S)]
    BY <1>6, <1>7 DEF h
  <2> QED BY <2>1, <2>2
<1> HIDE DEF h
<1>9. g = [i \in 1..N |-> IF i = 1 THEN seqs[i] ELSE g[i - 1] \o seqs[i]]
  BY ZenonT(40), <1>8 DEF FlattenSteps, N
<1> HIDE DEF g
<1> DEFINE k == [n \in 0..N |-> IF n = 0 THEN <<>> ELSE g[n]]
<1>10. ASSUME NEW n \in 1..N PROVE k[n] = k[n - 1] \o seqs[n]
  <2>1. k[n] = g[n] /\ (n # 1 => k[n - 1] = g[n - 1]) /\ (n = 1 => k[n - 1] = <<>>)
    BY <1>6
  <2>2. g[n] = IF n = 1 THEN seqs[n] ELSE g[n - 1] \o seqs[n]
    BY <1>9
  <2>3. <<>> \o seqs[n] = seqs[n]
    BY <1>1, ConcatEmptySeq
  <2> QED BY <2>1, <2>2, <2>3
<1>11. k[0] = <<>> /\ (N # 0 => k[N] = g[N])
  BY <1>1
<1> HIDE DEF k
<1>12. GoAlike(f, k, N)
  BY <1>7, <1>10, <1>11 DEF GoAlike, Alike
<1>13. N \in 0..N
  BY <1>1
<1>14. f[N] = k[N]
  BY <1>1, <1>12, <1>13, IterationsAgree
<1>15. FlattenSeq(seqs) = f[N]
  <2>1. CASE N = 0
    <3>1. seqs = <<>>
      BY <2>1 DEF N
    <3>2. FlattenSeq(seqs) = seqs
      BY <2>1 DEF FlattenSeq, N
    <3> QED BY <2>1, <3>1, <3>2, <1>7
  <2>2. CASE N # 0
    <3>1. FlattenSeq(seqs) = g[N]
      BY <2>2 DEF FlattenSeq, FlattenSteps, N, g
    <3> QED BY <2>2, <3>1, <1>11, <1>14
  <2> QED BY <2>1, <2>2
<1> QED BY <1>7, <1>15 DEF N, Flattens

LEMMA FlattenOfNone == FlattenSeq(<<>>) = <<>>
  BY DEF FlattenSeq

LEMMA FlattenOfMore ==
    ASSUME NEW S, NEW seqs \in Seq(Seq(S)), NEW s \in Seq(S)
    PROVE  FlattenSeq(seqs) \in Seq(S) /\ FlattenSeq(Append(seqs, s)) = FlattenSeq(seqs) \o s
<1> DEFINE N == Len(seqs)
           more == Append(seqs, s)
<1>1. /\ N \in Nat /\ more \in Seq(Seq(S)) /\ Len(more) = N + 1 /\ more[N + 1] = s
      /\ \A n \in 1..N : more[n] = seqs[n]
  BY AppendProperties
<1> HIDE DEF more
<1>a. PICK f : Flattens(f, seqs, S)
  BY FlattenStep
<1>b. PICK g : Flattens(g, more, S)
  BY <1>1, FlattenStep
<1>2. /\ f \in [0..N -> Seq(S)] /\ f[0] = <<>> /\ \A n \in 1..N : f[n] = f[n - 1] \o seqs[n]
      /\ FlattenSeq(seqs) = f[N]
  BY <1>a DEF Flattens
<1>3. /\ g[0] = <<>> /\ \A n \in 1..(N + 1) : g[n] = g[n - 1] \o more[n]
      /\ FlattenSeq(more) = g[N + 1]
  BY <1>1, <1>b DEF Flattens
<1> HIDE DEF N
<1>4. GoAlike(f, g, N)
  <2>1. \A n \in 1..N : n \in 1..(N + 1)
    BY <1>1
  <2> QED BY <1>1, <1>2, <1>3, <2>1 DEF GoAlike, Alike
<1>5. N \in 0..N /\ N + 1 \in 1..(N + 1) /\ (N + 1) - 1 = N
  BY <1>1
<1>6. f[N] = g[N]
  BY <1>1, <1>4, <1>5, IterationsAgree
<1>7. g[N + 1] = g[N] \o s
  BY <1>1, <1>3, <1>5
<1> QED BY <1>2, <1>3, <1>5, <1>6, <1>7 DEF more
=============================================================================
