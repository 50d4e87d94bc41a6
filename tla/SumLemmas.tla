----------------------------- MODULE SumLemmas -----------------------------
(* Sums over finite sets: what MapThenSumSet of the community modules        *)
(* returns, and how it changes when a summand or the set changes.  The       *)
(* inductions are by a minimal counterexample among the subsets of a finite  *)
(* set.                                                                     *)
EXTENDS Integers, FiniteSets, FiniteSetsExt, FiniteSetTheorems, TLAPS

\* The sum of a function's values; the sums of the models have this form.
SumOf(f, S) == MapThenSumSet(LAMBDA x : f[x], S)

Chosen(s) == CHOOSE x \in s : TRUE

\* g sums f over each subset of S, one chosen element at a time.
Sums(g, f, S) ==
  g = [s \in SUBSET S |-> IF s = {} THEN 0 ELSE f[Chosen(s)] + g[s \ {Chosen(s)}]]

\* No element of T is a strict subset of x.
Minimal(x, T) == \A y \in T : y \subseteq x => y = x

\* A non-empty set of subsets of a finite set has a minimal element.
LEMMA MinimalSubset ==
  ASSUME NEW S, IsFiniteSet(S), NEW T, T \subseteq SUBSET S, T # {}
  PROVE  \E x \in T : Minimal(x, T)
<1>1. IsWellFoundedOn(StrictSubsetOrdering(S), SUBSET S)
  BY FS_StrictSubsetOrderingWellFounded, FS_FiniteSubsetsOfFinite
<1>2. PICK x \in T : \A y \in T : ~ (<<y, x>> \in StrictSubsetOrdering(S))
  BY <1>1, WFMin
<1>3. ASSUME NEW y \in T, y \subseteq x, y # x
      PROVE  <<y, x>> \in StrictSubsetOrdering(S)
  BY <1>3 DEF StrictSubsetOrdering
<1>4. Minimal(x, T)
  BY <1>2, <1>3 DEF Minimal
<1> QED BY <1>4

\* A non-empty set of natural numbers has a least element.
LEMMA LeastNatural ==
  ASSUME NEW T, T \subseteq Nat, T # {}
  PROVE  \E n \in T : \A m \in T : n <= m
<1>1. PICK k \in T : TRUE
  OBVIOUS
<1> DEFINE Below == {n \in T : n <= k}
           Intervals == {1..n : n \in Below}
<1>2. IsFiniteSet(1..k)
  BY FS_Interval
<1>3. Intervals \subseteq SUBSET (1..k) /\ Intervals # {}
  BY <1>1
<1>4. \E x \in Intervals : Minimal(x, Intervals)
  <2> HIDE DEF Below, Intervals
  <2> QED BY <1>2, <1>3, MinimalSubset
<1>5. PICK n \in Below : \A y \in Intervals : y \subseteq 1..n => y = 1..n
  BY <1>4 DEF Minimal
<1>6. ASSUME NEW m \in Below, m < n
      PROVE  FALSE
  <2>1. 1..m \in Intervals /\ 1..m \subseteq 1..n /\ m \in Nat /\ n \in Nat
    BY <1>6
  <2>2. n \in 1..n /\ n \notin 1..m
    BY <1>6, <2>1
  <2> QED BY <1>5, <2>1, <2>2
<1>7. \A m \in T : n <= m
  BY <1>6, <1>1
<1> QED BY <1>7

\* MapThenSumSet is a recursive function over the subsets of its set.
LEMMA Unfold ==
  ASSUME NEW S, NEW f
  PROVE  SumOf(f, S) = (CHOOSE g : Sums(g, f, S))[S]
BY DEF SumOf, MapThenSumSet, MapThenFoldSet, Sums, Chosen

\* The element the recursion takes next.
LEMMA ChosenIn == ASSUME NEW s, s # {} PROVE Chosen(s) \in s
BY DEF Chosen

\* One unfolding of the recursion, of a function that satisfies it.
LEMMA SumsStep ==
  ASSUME NEW f, NEW S, NEW g, Sums(g, f, S)
  PROVE  /\ S = {} => g[S] = 0
         /\ S # {} => g[S] = f[Chosen(S)] + g[S \ {Chosen(S)}]
BY DEF Sums

\* The subsets of S with at most n elements.
Upto(S, n) == {s \in SUBSET S : Cardinality(s) <= n}

\* g sums f over the subsets of S with at most n elements.
SumsUpto(g, f, S, n) ==
  g = [s \in Upto(S, n) |-> IF s = {} THEN 0 ELSE f[Chosen(s)] + g[s \ {Chosen(s)}]]

\* A function that satisfies the recursion exists: it is built by size of the subsets.
LEMMA SumsExists ==
  ASSUME NEW S, IsFiniteSet(S), NEW f
  PROVE  \E g : Sums(g, f, S)
<1> DEFINE Good(n) == \E g : SumsUpto(g, f, S, n)
           Bad == {n \in Nat : ~ Good(n)}
<1>1. \A s \in SUBSET S : IsFiniteSet(s) /\ Cardinality(s) \in Nat
  BY FS_Subset, FS_CardinalityType
<1>2. Good(0)
  <2> DEFINE g == [s \in Upto(S, 0) |-> 0]
  <2>1. \A s \in Upto(S, 0) : s = {}
    BY <1>1, FS_EmptySet DEF Upto
  <2>2. SumsUpto(g, f, S, 0)
    BY <2>1 DEF SumsUpto
  <2> QED BY <2>2
<1>3. ASSUME NEW n \in Nat, Good(n)
      PROVE  Good(n + 1)
  <2>1. PICK g : SumsUpto(g, f, S, n)
    BY <1>3
  <2> DEFINE h == [s \in Upto(S, n + 1) |-> IF s = {} THEN 0 ELSE f[Chosen(s)] + g[s \ {Chosen(s)}]]
  <2>2. \A s \in Upto(S, n) : s \in Upto(S, n + 1) /\ h[s] = g[s]
    <3>1. \A s \in Upto(S, n) : s \in Upto(S, n + 1)
      BY <1>1 DEF Upto
    <3> QED BY <2>1, <3>1 DEF SumsUpto
  <2>3. ASSUME NEW s \in Upto(S, n + 1), s # {}
        PROVE  h[s \ {Chosen(s)}] = g[s \ {Chosen(s)}]
    <3>1. Chosen(s) \in s
      BY <2>3, ChosenIn
    <3>2. s \ {Chosen(s)} \in Upto(S, n)
      BY <1>1, <3>1, FS_RemoveElement DEF Upto
    <3> QED BY <2>2, <3>2
  <2>4. SumsUpto(h, f, S, n + 1)
    BY <2>3 DEF SumsUpto
  <2> QED BY <2>4
<1> HIDE DEF Good
<1>4. Bad = {}
  <2> SUFFICES ASSUME Bad # {} PROVE FALSE
    OBVIOUS
  <2>1. PICK n \in Bad : \A m \in Bad : n <= m
    <3> HIDE DEF Bad
    <3> SUFFICES Bad \subseteq Nat
      BY LeastNatural
    <3> QED BY DEF Bad
  <2>2. n \in Nat /\ n # 0 /\ ~ Good(n)
    BY <1>2
  <2>3. n - 1 \in Nat /\ ~ Good(n - 1)
    BY <1>3, <2>2
  <2> QED BY <2>1, <2>3
<1>5. Good(Cardinality(S))
  BY <1>1, <1>4
<1>6. Upto(S, Cardinality(S)) = SUBSET S
  BY <1>1, FS_Subset DEF Upto
<1> QED BY <1>5, <1>6 DEF Good, SumsUpto, Sums

\* The recursion of Sums determines its function.
LEMMA SumsUnique ==
  ASSUME NEW S, IsFiniteSet(S), NEW T \in SUBSET S, NEW f, NEW g, NEW h, Sums(g, f, S), Sums(h, f, T)
  PROVE  \A s \in SUBSET T : g[s] = h[s]
<1> DEFINE Bad == {s \in SUBSET T : g[s] # h[s]}
<1>1. SUFFICES ASSUME Bad # {} PROVE FALSE
  OBVIOUS
<1>2. PICK s \in Bad : Minimal(s, Bad)
  <2>1. IsFiniteSet(T) /\ Bad \subseteq SUBSET T
    BY FS_Subset
  <2> HIDE DEF Bad
  <2> QED BY <1>1, <2>1, MinimalSubset
<1>3. CASE s = {}
  BY <1>3, <1>2 DEF Sums
<1>4. CASE s # {}
  <2>1. Chosen(s) \in s
    BY <1>4, ChosenIn
  <2>2. g[s \ {Chosen(s)}] = h[s \ {Chosen(s)}]
    BY <1>2, <2>1 DEF Minimal
  <2> QED BY <1>2, <1>4, <2>2 DEF Sums
<1> QED BY <1>3, <1>4

-----------------------------------------------------------------------------
(* What a sum is, without its recursion.                                    *)

\* The sum over the empty set is 0.
LEMMA SumEmpty == ASSUME NEW f PROVE SumOf(f, {}) = 0
<1>1. PICK g : Sums(g, f, {})
  BY SumsExists, FS_EmptySet
<1>2. Sums(CHOOSE h : Sums(h, f, {}), f, {})
  BY <1>1
<1> QED BY <1>2, Unfold DEF Sums

\* A sum is that of the chosen element and of the rest.
LEMMA SumChosen ==
  ASSUME NEW S, IsFiniteSet(S), S # {}, NEW f
  PROVE  Chosen(S) \in S /\ SumOf(f, S) = f[Chosen(S)] + SumOf(f, S \ {Chosen(S)})
<1> DEFINE c == Chosen(S)
           R == S \ {c}
           g == CHOOSE h : Sums(h, f, S)
           r == CHOOSE h : Sums(h, f, R)
<1>1. IsFiniteSet(R) /\ R \in SUBSET S /\ c \in S
  BY FS_Subset, ChosenIn
<1>2. Sums(g, f, S) /\ Sums(r, f, R)
  <2> HIDE DEF R
  <2> QED BY <1>1, SumsExists
<1>3. SumOf(f, S) = g[S] /\ SumOf(f, R) = r[R]
  BY Unfold
<1> HIDE DEF g, r
<1>4. g[S] = f[c] + g[R]
  BY <1>2 DEF Sums
<1>5. g[R] = r[R]
  <2> HIDE DEF R
  <2> QED BY <1>1, <1>2, SumsUnique
<1> QED BY <1>1, <1>3, <1>4, <1>5

\* A sum of integers is one; of natural numbers, too.
LEMMA SumType ==
  ASSUME NEW S, IsFiniteSet(S), NEW f
  PROVE  /\ (\A x \in S : f[x] \in Int) => SumOf(f, S) \in Int
         /\ (\A x \in S : f[x] \in Nat) => SumOf(f, S) \in Nat
<1>1. ASSUME NEW N, N \in {Nat, Int}, \A x \in S : f[x] \in N
      PROVE  SumOf(f, S) \in N
  <2> DEFINE Bad == {s \in SUBSET S : SumOf(f, s) \notin N}
  <2>1. SUFFICES ASSUME Bad # {} PROVE FALSE
    OBVIOUS
  <2>2. PICK s \in Bad : Minimal(s, Bad)
    <3>1. Bad \subseteq SUBSET S
      OBVIOUS
    <3> HIDE DEF Bad
    <3> QED BY <2>1, <3>1, MinimalSubset
  <2>3. s # {}
    <3>1. SumOf(f, {}) \in N
      BY <1>1, SumEmpty
    <3> QED BY <2>2, <3>1
  <2>4. Chosen(s) \in s /\ SumOf(f, s) = f[Chosen(s)] + SumOf(f, s \ {Chosen(s)})
    BY <2>3, SumChosen, FS_Subset
  <2>5. SumOf(f, s \ {Chosen(s)}) \in N
    BY <2>2, <2>4 DEF Minimal
  <2> QED BY <1>1, <2>2, <2>4, <2>5
<1> QED BY <1>1

\* Any element may be taken out of a sum first.
LEMMA SumRemove ==
  ASSUME NEW S, IsFiniteSet(S), NEW f, \A y \in S : f[y] \in Int, NEW x \in S
  PROVE  SumOf(f, S) = f[x] + SumOf(f, S \ {x})
<1> DEFINE Splits(s) == \A y \in s : SumOf(f, s) = f[y] + SumOf(f, s \ {y})
           Bad == {s \in SUBSET S : ~ Splits(s)}
<1>1. SUFFICES ASSUME Bad # {} PROVE FALSE
  OBVIOUS
<1>2. PICK s \in Bad : Minimal(s, Bad)
  <2>1. Bad \subseteq SUBSET S
    OBVIOUS
  <2> HIDE DEF Bad
  <2> QED BY <1>1, <2>1, MinimalSubset
<1>3. PICK y \in s : SumOf(f, s) # f[y] + SumOf(f, s \ {y})
  BY <1>2
<1> DEFINE c == Chosen(s)
<1>4. /\ IsFiniteSet(s)
      /\ c \in s /\ SumOf(f, s) = f[c] + SumOf(f, s \ {c})
  BY <1>3, SumChosen, FS_Subset
<1> HIDE DEF c
<1>5. y # c
  BY <1>3, <1>4
<1>6. SumOf(f, s \ {c}) = f[y] + SumOf(f, (s \ {c}) \ {y})
  <2>1. s \ {c} \subseteq s /\ s \ {c} # s /\ s \ {c} \in SUBSET S
    BY <1>2, <1>4
  <2>2. Splits(s \ {c})
    BY <1>2, <2>1 DEF Minimal
  <2> QED BY <2>2, <1>5
<1>7. SumOf(f, s \ {y}) = f[c] + SumOf(f, (s \ {y}) \ {c})
  <2>1. s \ {y} \subseteq s /\ s \ {y} # s /\ s \ {y} \in SUBSET S
    BY <1>2, <1>3
  <2>2. Splits(s \ {y})
    BY <1>2, <2>1 DEF Minimal
  <2> QED BY <2>2, <1>4, <1>5
<1>8. /\ (s \ {y}) \ {c} = (s \ {c}) \ {y}
      /\ f[y] \in Int /\ f[c] \in Int
      /\ SumOf(f, (s \ {c}) \ {y}) \in Int
  <2>1. IsFiniteSet((s \ {c}) \ {y}) /\ \A z \in (s \ {c}) \ {y} : f[z] \in Int
    BY <1>2, <1>4, FS_Subset
  <2>2. SumOf(f, (s \ {c}) \ {y}) \in Int
    BY <2>1, SumType
  <2> QED BY <1>2, <1>4, <2>2
<1> DEFINE Rest == SumOf(f, (s \ {c}) \ {y})
<1>9. SumOf(f, s \ {c}) = f[y] + Rest /\ SumOf(f, s \ {y}) = f[c] + Rest /\ Rest \in Int
  BY <1>6, <1>7, <1>8
<1> HIDE DEF Rest
<1>10. SumOf(f, s) = f[y] + SumOf(f, s \ {y})
  BY <1>4, <1>8, <1>9
<1> QED BY <1>3, <1>10

\* A sum grows by the summand of the element that joins the set.
LEMMA SumAdd ==
  ASSUME NEW S, IsFiniteSet(S), NEW x, x \notin S, NEW f, \A y \in S \cup {x} : f[y] \in Int
  PROVE  SumOf(f, S \cup {x}) = SumOf(f, S) + f[x]
<1>1. IsFiniteSet(S \cup {x}) /\ (S \cup {x}) \ {x} = S
  BY FS_AddElement
<1>2. SumOf(f, S \cup {x}) = f[x] + SumOf(f, S)
  BY <1>1, SumRemove
<1>3. SumOf(f, S) \in Int
  BY SumType
<1> QED BY <1>2, <1>3

\* Equal summands give equal sums.
LEMMA SumSame ==
  ASSUME NEW S, IsFiniteSet(S), NEW f, NEW g, \A x \in S : f[x] = g[x]
  PROVE  SumOf(f, S) = SumOf(g, S)
<1> DEFINE Bad == {s \in SUBSET S : SumOf(f, s) # SumOf(g, s)}
<1>1. SUFFICES ASSUME Bad # {} PROVE FALSE
  OBVIOUS
<1>2. PICK s \in Bad : Minimal(s, Bad)
  <2>1. Bad \subseteq SUBSET S
    OBVIOUS
  <2> HIDE DEF Bad
  <2> QED BY <1>1, <2>1, MinimalSubset
<1>3. s # {}
  <2>1. SumOf(f, {}) = SumOf(g, {})
    BY SumEmpty
  <2> QED BY <1>2, <2>1
<1> DEFINE c == Chosen(s)
<1>4. c \in s /\ SumOf(f, s) = f[c] + SumOf(f, s \ {c}) /\ SumOf(g, s) = g[c] + SumOf(g, s \ {c})
  BY <1>2, <1>3, SumChosen, FS_Subset
<1> HIDE DEF c
<1>5. SumOf(f, s \ {c}) = SumOf(g, s \ {c})
  BY <1>2, <1>4 DEF Minimal
<1> QED BY <1>2, <1>4, <1>5

\* A sum changes by as much as its one summand that changes.
LEMMA SumChange ==
  ASSUME NEW S, IsFiniteSet(S), NEW f, NEW g, NEW x \in S,
         \A y \in S : f[y] \in Int, g[x] \in Int, \A y \in S \ {x} : g[y] = f[y]
  PROVE  SumOf(g, S) = SumOf(f, S) + (g[x] - f[x])
<1>1. SumOf(f, S) = f[x] + SumOf(f, S \ {x})
  BY SumRemove
<1>2. SumOf(g, S) = g[x] + SumOf(g, S \ {x})
  <2>1. \A y \in S : g[y] \in Int
    OBVIOUS
  <2> QED BY <2>1, SumRemove
<1>3. SumOf(g, S \ {x}) = SumOf(f, S \ {x}) /\ SumOf(f, S \ {x}) \in Int
  BY SumSame, SumType, FS_Subset
<1> QED BY <1>1, <1>2, <1>3

\* Nothing adds up to nothing.
LEMMA SumZero == ASSUME NEW S, IsFiniteSet(S), NEW f, \A x \in S : f[x] = 0 PROVE SumOf(f, S) = 0
<1> DEFINE Bad == {s \in SUBSET S : SumOf(f, s) # 0}
<1>1. SUFFICES ASSUME Bad # {} PROVE FALSE
  OBVIOUS
<1>2. PICK s \in Bad : Minimal(s, Bad)
  <2>1. Bad \subseteq SUBSET S
    OBVIOUS
  <2> HIDE DEF Bad
  <2> QED BY <1>1, <2>1, MinimalSubset
<1>3. s # {}
  BY <1>2, SumEmpty
<1> DEFINE c == Chosen(s)
<1>4. c \in s /\ SumOf(f, s) = f[c] + SumOf(f, s \ {c})
  BY <1>2, <1>3, SumChosen, FS_Subset
<1> HIDE DEF c
<1>5. SumOf(f, s \ {c}) = 0
  BY <1>2, <1>4 DEF Minimal
<1> QED BY <1>2, <1>4, <1>5

=============================================================================
