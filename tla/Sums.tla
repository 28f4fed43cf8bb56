---------------------------------- MODULE Sums ----------------------------------
(***************************************************************************)
(* Sums over finite sets, as MapThenSumSet computes them: amounts of rows, *)
(* prices of the steps of a climb.  The order in which CHOOSE takes the    *)
(* elements makes no difference; the proofs look at the smallest subset    *)
(* for which a claim would fail.                                           *)
(***************************************************************************)
EXTENDS Integers, FiniteSetsExt, FiniteSetTheorems, WellFoundedInduction, TLAPS

\* A set of subsets of a finite set has a smallest member: the induction of the
\* proofs below looks at the smallest counterexample.
LEMMA SmallestSubset ==
    ASSUME NEW S, IsFiniteSet(S), NEW T, T \subseteq SUBSET S, T # {}
    PROVE  \E s \in T : \A t \in T : t \subseteq s => t = s
<1>1. IsWellFoundedOn(StrictSubsetOrdering(S), SUBSET S)
    <2>1. FiniteSubsetsOf(S) = SUBSET S
        BY FS_FiniteSubsetsOfFinite
    <2>2. IsWellFoundedOn(StrictSubsetOrdering(S), FiniteSubsetsOf(S))
        BY FS_StrictSubsetOrderingWellFounded
    <2> QED BY <2>1, <2>2
<1>2. \E s \in T : \A t \in T : ~ (<<t, s>> \in StrictSubsetOrdering(S))
    BY <1>1, WFMin
<1> QED BY <1>2 DEF StrictSubsetOrdering

\* MapThenSumSet takes the elements one by one, in the order CHOOSE gives.
SumOf(f, S) == MapThenSumSet(LAMBDA x : f[x], S)
Some(S) == CHOOSE x \in S : TRUE
Adds(f, S, g) == g = [s \in SUBSET S |-> IF s = {} THEN 0 ELSE f[Some(s)] + g[s \ {Some(s)}]]

LEMMA SomeIn == ASSUME NEW S, S # {} PROVE Some(S) \in S
    BY DEF Some

LEMMA SumIs == ASSUME NEW f, NEW S PROVE SumOf(f, S) = (CHOOSE g : Adds(f, S, g))[S]
    BY DEF SumOf, MapThenSumSet, MapThenFoldSet, Adds, Some

\* There is one way to add, and each part of it is a sum.
LEMMA AddsOnce ==
    ASSUME NEW f, NEW S, NEW R, NEW g, NEW h, IsFiniteSet(S), Adds(f, S, g), Adds(f, R, h)
    PROVE  \A s \in SUBSET S : s \subseteq R => g[s] = h[s]
<1> DEFINE T == {s \in SUBSET S : s \subseteq R /\ g[s] # h[s]}
<1> SUFFICES ASSUME T # {} PROVE FALSE
    OBVIOUS
<1>1. PICK s \in T : \A t \in T : t \subseteq s => t = s
    <2>1. T \subseteq SUBSET S
        OBVIOUS
    <2> HIDE DEF T
    <2> QED BY <2>1, SmallestSubset
<1>2. g[s] = IF s = {} THEN 0 ELSE f[Some(s)] + g[s \ {Some(s)}]
    BY DEF Adds
<1>3. h[s] = IF s = {} THEN 0 ELSE f[Some(s)] + h[s \ {Some(s)}]
    BY DEF Adds
<1>4. s # {}
    BY <1>2, <1>3
<1>5. g[s \ {Some(s)}] = h[s \ {Some(s)}]
    BY <1>1, <1>4, SomeIn
<1> QED BY <1>2, <1>3, <1>5

LEMMA SumsAdd ==
    ASSUME NEW f, NEW S, IsFiniteSet(S), NEW g, Adds(f, S, g)
    PROVE  \A s \in SUBSET S : g[s] = SumOf(f, s)
<1> SUFFICES ASSUME NEW s \in SUBSET S PROVE g[s] = SumOf(f, s)
    OBVIOUS
<1> DEFINE gs == [t \in SUBSET s |-> g[t]]
<1>1. Adds(f, s, gs)
    <2> SUFFICES ASSUME NEW t \in SUBSET s
                 PROVE  g[t] = IF t = {} THEN 0 ELSE f[Some(t)] + gs[t \ {Some(t)}]
        BY DEF Adds
    <2>1. g[t] = IF t = {} THEN 0 ELSE f[Some(t)] + g[t \ {Some(t)}]
        BY DEF Adds
    <2>2. t \ {Some(t)} \in SUBSET s
        OBVIOUS
    <2> QED BY <2>1, <2>2
<1> HIDE DEF gs
<1> DEFINE h == CHOOSE a : Adds(f, s, a)
<1>2. Adds(f, s, h)
    BY <1>1
<1>3. SumOf(f, s) = h[s]
    BY SumIs
<1> HIDE DEF h
<1> QED BY <1>2, <1>3, AddsOnce

LEMMA SumsExist ==
    ASSUME NEW f, NEW S, IsFiniteSet(S)
    PROVE  \E g : Adds(f, S, g)
<1> DEFINE T == {s \in SUBSET S : \A g : ~ Adds(f, s, g)}
<1> SUFFICES ASSUME T # {} PROVE FALSE
    OBVIOUS
<1>1. PICK s \in T : \A t \in T : t \subseteq s => t = s
    <2>1. T \subseteq SUBSET S
        OBVIOUS
    <2> HIDE DEF T
    <2> QED BY <2>1, SmallestSubset
<1> DEFINE h == [t \in SUBSET s |-> IF t = {} THEN 0 ELSE f[Some(t)] + SumOf(f, t \ {Some(t)})]
<1>2. \A t \in SUBSET s : t # s => h[t] = SumOf(f, t)
    <2> SUFFICES ASSUME NEW t \in SUBSET s, t # s PROVE h[t] = SumOf(f, t)
        OBVIOUS
    <2>1. PICK g : Adds(f, t, g)
        BY <1>1
    <2>2. IsFiniteSet(t)
        BY FS_Subset
    <2>3. \A q \in SUBSET t : g[q] = SumOf(f, q)
        BY <2>1, <2>2, SumsAdd
    <2>4. g[t] = IF t = {} THEN 0 ELSE f[Some(t)] + g[t \ {Some(t)}]
        BY <2>1 DEF Adds
    <2> QED BY <2>3, <2>4
<1>3. ASSUME NEW t \in SUBSET s, t # {} PROVE SumOf(f, t \ {Some(t)}) = h[t \ {Some(t)}]
    <2>1. t \ {Some(t)} # s /\ t \ {Some(t)} \in SUBSET s
        BY <1>3, SomeIn
    <2> HIDE DEF h
    <2> QED BY <1>2, <2>1
<1>4. Adds(f, s, h)
    <2>1. h = [t \in SUBSET s |-> IF t = {} THEN 0 ELSE f[Some(t)] + h[t \ {Some(t)}]]
        BY <1>3
    <2> HIDE DEF h
    <2> QED BY <2>1 DEF Adds
<1> QED BY <1>1, <1>4

\* What the recursion says of the sum of a finite set.
LEMMA SumStep ==
    ASSUME NEW f, NEW S, IsFiniteSet(S)
    PROVE  SumOf(f, S) = IF S = {} THEN 0 ELSE f[Some(S)] + SumOf(f, S \ {Some(S)})
<1>1. PICK g : Adds(f, S, g)
    BY SumsExist
<1>2. \A s \in SUBSET S : g[s] = SumOf(f, s)
    BY <1>1, SumsAdd
<1>3. g[S] = IF S = {} THEN 0 ELSE f[Some(S)] + g[S \ {Some(S)}]
    BY <1>1 DEF Adds
<1> QED BY <1>2, <1>3

LEMMA SumType ==
    ASSUME NEW f, NEW S, IsFiniteSet(S), \A x \in S : f[x] \in Nat
    PROVE  SumOf(f, S) \in Nat
<1> DEFINE T == {s \in SUBSET S : SumOf(f, s) \notin Nat}
<1> SUFFICES ASSUME T # {} PROVE FALSE
    OBVIOUS
<1>1. PICK s \in T : \A t \in T : t \subseteq s => t = s
    <2>1. T \subseteq SUBSET S
        OBVIOUS
    <2> HIDE DEF T
    <2> QED BY <2>1, SmallestSubset
<1>2. IsFiniteSet(s)
    BY FS_Subset
<1>3. SumOf(f, s) = IF s = {} THEN 0 ELSE f[Some(s)] + SumOf(f, s \ {Some(s)})
    BY <1>2, SumStep
<1>4. s # {}
    BY <1>3
<1>5. SumOf(f, s \ {Some(s)}) \in Nat
    BY <1>1, <1>4, SomeIn
<1>6. f[Some(s)] \in Nat
    BY <1>4, SomeIn
<1> QED BY <1>3, <1>4, <1>5, <1>6

\* It does not matter which element is taken first.
LEMMA SumTake ==
    ASSUME NEW f, NEW S, IsFiniteSet(S), \A x \in S : f[x] \in Nat, NEW x \in S
    PROVE  SumOf(f, S) = f[x] + SumOf(f, S \ {x})
<1> DEFINE T == {s \in SUBSET S : \E y \in s : SumOf(f, s) # f[y] + SumOf(f, s \ {y})}
<1> SUFFICES ASSUME T # {} PROVE FALSE
    OBVIOUS
<1>1. PICK s \in T : \A t \in T : t \subseteq s => t = s
    <2>1. T \subseteq SUBSET S
        OBVIOUS
    <2> HIDE DEF T
    <2> QED BY <2>1, SmallestSubset
<1>2. PICK y \in s : SumOf(f, s) # f[y] + SumOf(f, s \ {y})
    OBVIOUS
<1> DEFINE z == Some(s)
<1>3. z \in s /\ IsFiniteSet(s)
    BY <1>2, FS_Subset, SomeIn
<1> HIDE DEF z
<1>4. SumOf(f, s) = f[z] + SumOf(f, s \ {z})
    BY <1>2, <1>3, SumStep DEF z
<1>5. y # z
    BY <1>2, <1>4
<1>51. \A t \in SUBSET s : t # s => \A w \in t : SumOf(f, t) = f[w] + SumOf(f, t \ {w})
    BY <1>1
<1>6. SumOf(f, s \ {z}) = f[y] + SumOf(f, (s \ {z}) \ {y})
    <2>1. s \ {z} \in SUBSET s /\ s \ {z} # s /\ y \in s \ {z}
        BY <1>3, <1>5
    <2> QED BY <1>51, <2>1
<1>7. SumOf(f, s \ {y}) = f[z] + SumOf(f, (s \ {y}) \ {z})
    <2>1. s \ {y} \in SUBSET s /\ s \ {y} # s /\ z \in s \ {y}
        BY <1>3, <1>5
    <2> QED BY <1>51, <2>1
<1>8. (s \ {y}) \ {z} = (s \ {z}) \ {y}
    OBVIOUS
<1>9. SumOf(f, (s \ {z}) \ {y}) \in Nat /\ f[y] \in Nat /\ f[z] \in Nat
    <2>1. IsFiniteSet((s \ {z}) \ {y})
        BY <1>3, FS_Subset
    <2>2. \A w \in (s \ {z}) \ {y} : f[w] \in Nat
        OBVIOUS
    <2> QED BY <1>3, <2>1, <2>2, SumType
<1> QED BY <1>2, <1>4, <1>6, <1>7, <1>8, <1>9

\* Only the values of the elements count.
LEMMA SumSame ==
    ASSUME NEW f, NEW g, NEW S, IsFiniteSet(S), \A x \in S : f[x] = g[x]
    PROVE  SumOf(f, S) = SumOf(g, S)
<1> DEFINE T == {s \in SUBSET S : SumOf(f, s) # SumOf(g, s)}
<1> SUFFICES ASSUME T # {} PROVE FALSE
    OBVIOUS
<1>1. PICK s \in T : \A t \in T : t \subseteq s => t = s
    <2>1. T \subseteq SUBSET S
        OBVIOUS
    <2> HIDE DEF T
    <2> QED BY <2>1, SmallestSubset
<1>2. IsFiniteSet(s)
    BY FS_Subset
<1>3. SumOf(f, s) = IF s = {} THEN 0 ELSE f[Some(s)] + SumOf(f, s \ {Some(s)})
    BY <1>2, SumStep
<1>4. SumOf(g, s) = IF s = {} THEN 0 ELSE g[Some(s)] + SumOf(g, s \ {Some(s)})
    BY <1>2, SumStep
<1>5. s # {}
    BY <1>3, <1>4
<1>6. SumOf(f, s \ {Some(s)}) = SumOf(g, s \ {Some(s)}) /\ f[Some(s)] = g[Some(s)]
    BY <1>1, <1>5, SomeIn
<1> QED BY <1>3, <1>4, <1>5, <1>6

\* One value changes.
LEMMA SumChange ==
    ASSUME NEW f, NEW g, NEW S, IsFiniteSet(S), \A x \in S : f[x] \in Nat /\ g[x] \in Nat,
           NEW x \in S, \A y \in S \ {x} : f[y] = g[y]
    PROVE  /\ SumOf(g, S) = SumOf(f, S) + g[x] - f[x]
           /\ SumOf(f, S) \in Nat /\ SumOf(g, S) \in Nat
<1>1. SumOf(f, S) = f[x] + SumOf(f, S \ {x})
    BY SumTake
<1>2. SumOf(g, S) = g[x] + SumOf(g, S \ {x})
    BY SumTake
<1>3. IsFiniteSet(S \ {x})
    BY FS_Subset
<1>4. SumOf(f, S \ {x}) = SumOf(g, S \ {x})
    BY <1>3, SumSame
<1>5. SumOf(f, S \ {x}) \in Nat
    BY <1>3, SumType
<1>6. SumOf(f, S) \in Nat /\ SumOf(g, S) \in Nat
    BY SumType
<1> QED BY <1>1, <1>2, <1>4, <1>5, <1>6

\* Zeros do not count.
LEMMA SumRest ==
    ASSUME NEW f, NEW S, NEW R, R \subseteq S, IsFiniteSet(S), \A x \in S : f[x] \in Nat,
           \A x \in S \ R : f[x] = 0
    PROVE  SumOf(f, S) = SumOf(f, R)
<1> DEFINE T == {s \in SUBSET S : R \subseteq s /\ SumOf(f, s) # SumOf(f, R)}
<1> SUFFICES ASSUME T # {} PROVE FALSE
    OBVIOUS
<1>1. PICK s \in T : \A t \in T : t \subseteq s => t = s
    <2>1. T \subseteq SUBSET S
        OBVIOUS
    <2> HIDE DEF T
    <2> QED BY <2>1, SmallestSubset
<1>2. IsFiniteSet(s) /\ s \in SUBSET S /\ R \subseteq s /\ SumOf(f, s) # SumOf(f, R)
    BY FS_Subset
<1>3. PICK x \in s : x \notin R
    BY <1>2
<1>4. SumOf(f, s) = f[x] + SumOf(f, s \ {x})
    <2>1. \A y \in s : f[y] \in Nat
        BY <1>2
    <2> QED BY <1>2, <2>1, SumTake
<1>5. SumOf(f, s \ {x}) = SumOf(f, R)
    <2>1. s \ {x} \in SUBSET S /\ R \subseteq s \ {x} /\ s \ {x} # s /\ s \ {x} \subseteq s
        BY <1>2, <1>3
    <2> QED BY <1>1, <2>1
<1>6. f[x] = 0 /\ SumOf(f, R) \in Nat
    <2>1. IsFiniteSet(R) /\ \A y \in R : f[y] \in Nat
        BY FS_Subset
    <2>2. SumOf(f, R) \in Nat
        BY <2>1, SumType
    <2> QED BY <1>2, <1>3, <2>2
<1> QED BY <1>2, <1>4, <1>5, <1>6

\* The same values under other names.
LEMMA SumRenamed ==
    ASSUME NEW f, NEW g, NEW h, NEW S, IsFiniteSet(S), \A x \in S : f[x] \in Nat,
           \A x, y \in S : h[x] = h[y] => x = y, \A x \in S : g[h[x]] = f[x]
    PROVE  SumOf(g, {h[x] : x \in S}) = SumOf(f, S)
<1> DEFINE N(s) == {h[x] : x \in s}
           T == {s \in SUBSET S : SumOf(g, N(s)) # SumOf(f, s)}
<1> SUFFICES ASSUME T # {} PROVE FALSE
    OBVIOUS
<1>1. PICK s \in T : \A t \in T : t \subseteq s => t = s
    <2>1. T \subseteq SUBSET S
        OBVIOUS
    <2> HIDE DEF T
    <2> QED BY <2>1, SmallestSubset
<1>2. IsFiniteSet(s) /\ s \in SUBSET S /\ SumOf(g, N(s)) # SumOf(f, s)
    BY FS_Subset
<1>3. s # {}
    <2> SUFFICES ASSUME s = {} PROVE FALSE
        OBVIOUS
    <2>1. N(s) = {}
        OBVIOUS
    <2>2. IsFiniteSet({})
        BY FS_EmptySet
    <2>3. SumOf(g, {}) = 0 /\ SumOf(f, {}) = 0
        BY <2>2, SumStep
    <2> HIDE DEF N
    <2> QED BY <1>2, <2>1, <2>3
<1>4. PICK x \in s : TRUE
    BY <1>3
<1>5. SumOf(f, s) = f[x] + SumOf(f, s \ {x})
    <2>1. \A y \in s : f[y] \in Nat
        BY <1>2
    <2> QED BY <1>2, <2>1, SumTake
<1>6. SumOf(g, N(s \ {x})) = SumOf(f, s \ {x})
    <2>1. s \ {x} \in SUBSET S /\ s \ {x} # s /\ s \ {x} \subseteq s
        BY <1>2
    <2> HIDE DEF N
    <2> QED BY <1>1, <2>1
<1>7. N(s \ {x}) = N(s) \ {h[x]} /\ h[x] \in N(s)
    BY <1>2
<1>8. IsFiniteSet(N(s)) /\ \A y \in N(s) : g[y] \in Nat
    <2>1. IsFiniteSet(N(s))
        <3> DEFINE hs == [y \in s |-> h[y]]
        <3>1. hs \in Surjection(s, N(s))
            BY DEF Surjection
        <3> HIDE DEF hs, N
        <3> QED BY <1>2, <3>1, FS_Surjection
    <2>2. \A y \in N(s) : g[y] \in Nat
        BY <1>2
    <2> QED BY <2>1, <2>2
<1>9. SumOf(g, N(s)) = g[h[x]] + SumOf(g, N(s) \ {h[x]})
    <2> HIDE DEF N
    <2> QED BY <1>7, <1>8, SumTake
<1>10. g[h[x]] = f[x]
    BY <1>2
<1> HIDE DEF N
<1> QED BY <1>2, <1>5, <1>6, <1>7, <1>9, <1>10

\* A set of natural numbers has a least one.
LEMMA LeastNatural ==
    ASSUME NEW T, T \subseteq Nat, T # {}
    PROVE  \E n \in T : \A m \in T : n <= m
<1>1. PICK top \in T : TRUE
    OBVIOUS
<1> DEFINE below == {k \in T : k <= top}
           initials == {1..k : k \in below}
<1>2. top \in Nat /\ top <= top
    OBVIOUS
<1>3. /\ below \subseteq T /\ top \in below
      /\ \A k \in below : k \in Nat /\ k <= top
    BY <1>2
<1>4. PICK s \in initials : \A t \in initials : t \subseteq s => t = s
    <2>1. \A k \in below : 1..k \subseteq 1..top
        BY <1>2, <1>3
    <2>2. initials \subseteq SUBSET (1..top)
        <3> HIDE DEF below
        <3> QED BY <2>1
    <2>3. initials # {}
        <3> HIDE DEF below
        <3> QED BY <1>3
    <2>4. IsFiniteSet(1..top)
        BY <1>2, FS_Interval
    <2> DEFINE range == 1..top
    <2>5. initials \subseteq SUBSET range /\ IsFiniteSet(range)
        BY <2>2, <2>4
    <2> HIDE DEF initials, range
    <2> QED BY <2>3, <2>5, SmallestSubset
<1>5. PICK n \in below : s = 1..n
    OBVIOUS
<1>6. ASSUME NEW m \in T, m < n PROVE FALSE
    <2>1. m \in below /\ m \in Nat /\ n \in Nat
        BY <1>2, <1>3, <1>6
    <2>2. 1..m \subseteq 1..n /\ n \in 1..n /\ n \notin 1..m
        BY <1>6, <2>1
    <2>3. 1..m \in initials
        BY <2>1
    <2> QED BY <1>4, <1>5, <2>2, <2>3
<1>7. n \in T /\ n \in Nat
    BY <1>3
<1> QED BY <1>6, <1>7
================================================================================
