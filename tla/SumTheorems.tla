---------------------------- MODULE SumTheorems ----------------------------
(***************************************************************************)
(* What the proofs about money and ratings need to know of sums: which     *)
(* element is taken out first does not matter, a sum follows a change of   *)
(* one of its terms, and sums keep the order of their terms.               *)
(*                                                                         *)
(* Total is defined by a recursion over the subsets of a set, which take   *)
(* out a chosen element at a time.  No induction rule is used: the strict  *)
(* subsets of a finite set are well founded, so a set of counterexamples   *)
(* has a minimal one (MinimalSubset), and every proof refutes that.        *)
(***************************************************************************)
EXTENDS Sums, FiniteSetTheorems, TLAPS

\* The element a sum over s takes out.
Chosen(s) == CHOOSE x \in s : TRUE

\* g holds the sums of f over all the subsets of S.
AreSums(g, f, S) ==
    g = [s \in SUBSET S |-> IF s = {} THEN 0 ELSE f[Chosen(s)] + g[s \ {Chosen(s)}]]

\* A finite number of whole amounts.
Amounts(f, S) == IsFiniteSet(S) /\ \A x \in S : f[x] \in Int

\* Among the subsets of a finite set that are bad, one is minimal.
LEMMA MinimalSubset ==
    ASSUME NEW S, IsFiniteSet(S), NEW Bad \in SUBSET SUBSET S, Bad # {}
    PROVE  \E T \in Bad : \A U \in Bad : U \subseteq T => U = T
<1>1. IsWellFoundedOn(StrictSubsetOrdering(S), SUBSET S)
  BY FS_StrictSubsetOrderingWellFounded, FS_FiniteSubsetsOfFinite
<1>2. PICK T \in Bad : \A U \in Bad : ~ (<<U, T>> \in StrictSubsetOrdering(S))
  BY <1>1, WFMin, Zenon
<1>3. QED
  BY <1>2 DEF StrictSubsetOrdering

\* Among some numbers up to n, one is the least.
LEMMA LeastNumber ==
    ASSUME NEW n \in Nat, NEW Bad \in SUBSET (0..n), Bad # {}
    PROVE  \E m \in Bad : \A i \in Bad : m <= i
<1> DEFINE Below == {0..m : m \in Bad}
<1>1. IsFiniteSet(0..n)
  BY FS_Interval
<1>2. Below \in SUBSET SUBSET (0..n) /\ Below # {}
  <2>1. \A m \in Bad : 0..m \in SUBSET (0..n)
    OBVIOUS
  <2>2. PICK m \in Bad : TRUE
    OBVIOUS
  <2>3. 0..m \in Below
    OBVIOUS
  <2> QED BY <2>1, <2>3, Zenon
<1>3. PICK T \in Below : \A U \in Below : U \subseteq T => U = T
  <2> DEFINE all == 0..n
  <2>1. IsFiniteSet(all) /\ Below \in SUBSET SUBSET all /\ Below # {}
    BY <1>1, <1>2
  <2> HIDE DEF Below, all
  <2> QED BY <2>1, MinimalSubset
<1>4. PICK m \in Bad : T = 0..m
  OBVIOUS
<1>5. ASSUME NEW i \in Bad, i < m PROVE FALSE
  <2>1. 0..i \in Below /\ 0..i \subseteq 0..m
    BY <1>5
  <2>2. 0..i = 0..m
    BY <1>3, <1>4, <2>1
  <2>3. m \in 0..m /\ m \notin 0..i
    BY <1>5
  <2> QED BY <2>2, <2>3
<1> QED BY <1>5

\* g takes n steps from first, the i-th of them by F[i].
Stepwise(g, n, D, first, F) ==
    /\ g \in [0..n -> D] /\ g[0] = first
    /\ \A i \in 1..n : g[i] = F[i][g[i - 1]]

\* Steps can be taken one after the other, any number of them.
LEMMA StepwiseExists ==
    ASSUME NEW n \in Nat, NEW D, NEW first \in D, NEW F \in [1..n -> [D -> D]]
    PROVE  \E g : Stepwise(g, n, D, first, F)
<1> DEFINE Run(m, g) == /\ g \in [0..m -> D] /\ g[0] = first
                        /\ \A i \in 1..m : g[i] = F[i][g[i - 1]]
           Bad == {m \in 0..n : ~ \E g : Run(m, g)}
<1>1. ASSUME n \in Bad PROVE FALSE
  <2>1. PICK m \in Bad : \A i \in Bad : m <= i
    <3>1. Bad \in SUBSET (0..n) /\ Bad # {}
      BY <1>1
    <3> HIDE DEF Bad
    <3> QED BY <3>1, LeastNumber
  <2>2. m \in 0..n /\ ~ \E g : Run(m, g)
    OBVIOUS
  <2>3. CASE m = 0
    <3>1. Run(0, [i \in 0..0 |-> first])
      OBVIOUS
    <3> HIDE DEF Run
    <3> QED BY <2>2, <2>3, <3>1
  <2>4. CASE m # 0
    <3> DEFINE k == m - 1
    <3>1. k \in 0..n /\ k < m /\ m = k + 1
      BY <2>2, <2>4
    <3>2. k \notin Bad
      <4> HIDE DEF Bad, k
      <4> QED BY <2>1, <2>2, <3>1
    <3>3. PICK g : Run(k, g)
      BY <3>1, <3>2
    <3> DEFINE h == [i \in 0..m |-> IF i = m THEN F[m][g[k]] ELSE g[i]]
    <3>4. g[k] \in D /\ m \in 1..n
      <4> HIDE DEF k
      <4> QED BY <2>2, <3>1, <3>3
    <3>5. F[m][g[k]] \in D
      <4> HIDE DEF k
      <4> QED BY <3>4
    <3> HIDE DEF k
    <3>6. h \in [0..m -> D] /\ h[0] = first
      BY <2>2, <3>1, <3>3, <3>5
    <3>7. ASSUME NEW i \in 1..m PROVE h[i] = F[i][h[i - 1]]
      <4>1. i - 1 \in 0..m /\ h[i - 1] = g[i - 1]
        BY <2>2, <3>1
      <4>2. CASE i = m
        BY <4>1, <4>2, <3>1, <2>2
      <4>3. CASE i # m
        <5>1. i \in 1..k /\ i \in 0..m
          BY <4>3, <3>1, <2>2
        <5>2. h[i] = g[i]
          BY <4>3, <5>1
        <5>3. g[i] = F[i][g[i - 1]]
          BY <3>3, <5>1
        <5> HIDE DEF h
        <5> QED BY <4>1, <5>2, <5>3
      <4> QED BY <4>2, <4>3
    <3>8. Run(m, h)
      <4> HIDE DEF h
      <4> QED BY <3>6, <3>7
    <3> HIDE DEF Run
    <3> QED BY <2>2, <3>8
  <2> QED BY <2>3, <2>4
<1>2. PICK g : Run(n, g)
  <2> HIDE DEF Run
  <2> QED BY <1>1
<1> QED BY <1>2 DEF Stepwise

\* Sums over the subsets of two sets agree where both are given.
LEMMA SumsAgree ==
    ASSUME NEW f, NEW S, Amounts(f, S), NEW T \in SUBSET S,
           NEW g, NEW h, AreSums(g, f, S), AreSums(h, f, T)
    PROVE  \A s \in SUBSET T : g[s] = h[s] /\ g[s] \in Int
<1> DEFINE Bad == {s \in SUBSET T : ~(g[s] = h[s] /\ g[s] \in Int)}
<1>1. SUFFICES ASSUME Bad # {} PROVE FALSE
  OBVIOUS
<1>2. PICK s \in Bad : \A t \in Bad : t \subseteq s => t = s
  <2>1. Bad \in SUBSET SUBSET S
    OBVIOUS
  <2> HIDE DEF Bad
  <2>2. QED BY <1>1, <2>1, MinimalSubset DEF Amounts
<1>3. g[s] = IF s = {} THEN 0 ELSE f[Chosen(s)] + g[s \ {Chosen(s)}]
  BY Zenon DEF AreSums
<1>4. h[s] = IF s = {} THEN 0 ELSE f[Chosen(s)] + h[s \ {Chosen(s)}]
  BY Zenon DEF AreSums
<1>5. s # {}
  BY <1>3, <1>4
<1>6. Chosen(s) \in s
  BY <1>5 DEF Chosen
<1>7. s \ {Chosen(s)} \notin Bad
  BY <1>2, <1>6
<1>8. g[s \ {Chosen(s)}] = h[s \ {Chosen(s)}] /\ g[s \ {Chosen(s)}] \in Int
  BY <1>7
<1>9. f[Chosen(s)] \in Int
  BY <1>6 DEF Amounts
<1>10. QED
  BY <1>3, <1>4, <1>5, <1>8, <1>9

\* Every finite number of amounts has its sums: the recursion is well defined.
LEMMA SumsExist ==
    ASSUME NEW f, NEW S, Amounts(f, S)
    PROVE  \E g : AreSums(g, f, S)
<1> DEFINE Bad == {T \in SUBSET S : ~ \E g : AreSums(g, f, T)}
<1>1. SUFFICES ASSUME Bad # {} PROVE FALSE
  OBVIOUS
<1>2. PICK T \in Bad : \A U \in Bad : U \subseteq T => U = T
  <2>1. Bad \in SUBSET SUBSET S
    OBVIOUS
  <2> HIDE DEF Bad
  <2>2. QED BY <1>1, <2>1, MinimalSubset DEF Amounts
<1> DEFINE G(U) == CHOOSE g : AreSums(g, f, U)
           c == Chosen(T)
           h == [s \in SUBSET T |-> IF s = T
                                    THEN IF T = {} THEN 0 ELSE f[c] + G(T \ {c})[T \ {c}]
                                    ELSE G(s)[s]]
<1>3. \A U \in SUBSET T : U # T => AreSums(G(U), f, U)
  BY <1>2
<1> HIDE DEF G
<1>4. T # {} => c \in T
  BY DEF Chosen
<1>5. ASSUME NEW s \in SUBSET T
      PROVE  h[s] = IF s = {} THEN 0 ELSE f[Chosen(s)] + h[s \ {Chosen(s)}]
  <2>1. CASE s = T
    <3>1. T # {} => T \ {c} # T /\ T \ {c} \in SUBSET T
      BY <1>4
    <3>2. QED BY <2>1, <3>1
  <2>2. CASE s # T
    <3> DEFINE d == Chosen(s)
    <3>1. AreSums(G(s), f, s)
      BY <1>3, <2>2
    <3>2. h[s] = IF s = {} THEN 0 ELSE f[d] + G(s)[s \ {d}]
      BY <2>2, <3>1, Zenon DEF AreSums
    <3>3. CASE s = {}
      BY <3>2, <3>3
    <3>4. CASE s # {}
      <4>1. d \in s
        BY <3>4 DEF Chosen
      <4>2. s \ {d} \in SUBSET s /\ s \ {d} \in SUBSET T /\ s \ {d} # T
        BY <4>1, <2>2
      <4>3. AreSums(G(s \ {d}), f, s \ {d})
        BY <4>2, <1>3
      <4>4. Amounts(f, s)
        BY FS_Subset DEF Amounts
      <4>5. G(s)[s \ {d}] = G(s \ {d})[s \ {d}]
        BY <4>2, <4>3, <4>4, <3>1, SumsAgree
      <4>6. h[s \ {d}] = G(s \ {d})[s \ {d}]
        BY <4>2
      <4>7. QED BY <3>2, <3>4, <4>5, <4>6
    <3>5. QED BY <3>3, <3>4
  <2>3. QED BY <2>1, <2>2
<1>6. AreSums(h, f, T)
  <2> DEFINE k == [s \in SUBSET T |-> IF s = {} THEN 0 ELSE f[Chosen(s)] + h[s \ {Chosen(s)}]]
  <2>1. \A s \in SUBSET T : h[s] = k[s]
    BY <1>5
  <2>2. h = k
    BY <2>1
  <2>3. QED BY <2>2 DEF AreSums
<1>7. QED
  BY <1>2, <1>6

\* Total is the sum, on a set and on each of its subsets.
LEMMA TotalIsSum ==
    ASSUME NEW f, NEW S, Amounts(f, S), NEW g, AreSums(g, f, S)
    PROVE  \A T \in SUBSET S : Total(f, T) = g[T] /\ g[T] \in Int
<1> SUFFICES ASSUME NEW T \in SUBSET S PROVE Total(f, T) = g[T] /\ g[T] \in Int
  OBVIOUS
<1>1. Total(f, T) = (CHOOSE h : AreSums(h, f, T))[T]
  BY DEF Total, FoldFunctionOnSet, MapThenFoldSet, AreSums, Chosen
<1>2. Amounts(f, T)
  BY FS_Subset DEF Amounts
<1>3. PICK h : AreSums(h, f, T) /\ Total(f, T) = h[T]
  BY <1>1, <1>2, SumsExist
<1>4. QED
  BY <1>2, <1>3, SumsAgree

\* Total takes out its chosen element first.
LEMMA TotalUnfolds ==
    ASSUME NEW f, NEW S, Amounts(f, S)
    PROVE  /\ Total(f, {}) = 0
           /\ \A T \in SUBSET S : Total(f, T) \in Int
           /\ \A T \in SUBSET S : T # {} =>
                  Total(f, T) = f[Chosen(T)] + Total(f, T \ {Chosen(T)})
<1>1. PICK g : AreSums(g, f, S)
  BY SumsExist
<1>2. \A T \in SUBSET S : Total(f, T) = g[T] /\ g[T] \in Int
  BY <1>1, TotalIsSum
<1>3. \A T \in SUBSET S : g[T] = IF T = {} THEN 0 ELSE f[Chosen(T)] + g[T \ {Chosen(T)}]
  BY <1>1, Zenon DEF AreSums
<1>4. \A T \in SUBSET S : T \ {Chosen(T)} \in SUBSET S
  OBVIOUS
<1>5. QED
  BY <1>2, <1>3, <1>4

\* Any element may be taken out of a sum first.
THEOREM TotalRemoves ==
    ASSUME NEW f, NEW S, Amounts(f, S), NEW x \in S
    PROVE  /\ Total(f, S) = f[x] + Total(f, S \ {x})
           /\ Total(f, S) \in Int /\ Total(f, S \ {x}) \in Int
<1> DEFINE Bad == {T \in SUBSET S : \E y \in T : Total(f, T) # f[y] + Total(f, T \ {y})}
<1>1. Bad = {}
  <2>1. SUFFICES ASSUME Bad # {} PROVE FALSE
    OBVIOUS
  <2>2. PICK T \in Bad : \A U \in Bad : U \subseteq T => U = T
    <3>1. Bad \in SUBSET SUBSET S
      OBVIOUS
    <3> HIDE DEF Bad
    <3>2. QED BY <2>1, <3>1, MinimalSubset DEF Amounts
  <2>3. PICK y \in T : Total(f, T) # f[y] + Total(f, T \ {y})
    OBVIOUS
  <2> DEFINE c == Chosen(T)
  <2>4. c \in T
    BY DEF Chosen
  <2>5. Total(f, T) = f[c] + Total(f, T \ {c})
    BY <2>3, TotalUnfolds
  <2> HIDE DEF c
  <2>6. y # c
    BY <2>3, <2>5
  <2>7. T \ {c} \notin Bad /\ T \ {y} \notin Bad
    BY <2>2, <2>3, <2>4
  <2>8. Total(f, T \ {c}) = f[y] + Total(f, (T \ {c}) \ {y})
    BY <2>3, <2>6, <2>7
  <2>9. Total(f, T \ {y}) = f[c] + Total(f, (T \ {y}) \ {c})
    BY <2>4, <2>6, <2>7
  <2>10. (T \ {c}) \ {y} = (T \ {y}) \ {c}
    OBVIOUS
  <2>11. f[c] \in Int /\ f[y] \in Int /\ Total(f, (T \ {y}) \ {c}) \in Int
    BY <2>3, <2>4, TotalUnfolds DEF Amounts
  <2> DEFINE rest == Total(f, (T \ {y}) \ {c})
             least == Total(f, T)
  <2>12. least # f[y] + (f[c] + rest) /\ least = f[c] + (f[y] + rest)
    BY <2>3, <2>5, <2>8, <2>9, <2>10
  <2>13. f[c] \in Int /\ f[y] \in Int /\ rest \in Int
    BY <2>11
  <2> HIDE DEF rest, least
  <2>14. QED
    BY <2>12, <2>13
<1>2. S \notin Bad /\ S \ {x} \in SUBSET S
  BY <1>1
<1>3. Total(f, S) = f[x] + Total(f, S \ {x})
  BY <1>2
<1>4. QED
  BY <1>2, <1>3, TotalUnfolds

\* Larger terms have a larger sum.
THEOREM TotalLeq ==
    ASSUME NEW f, NEW h, NEW S, Amounts(f, S), Amounts(h, S), \A x \in S : f[x] <= h[x]
    PROVE  Total(f, S) <= Total(h, S)
<1> DEFINE Bad == {T \in SUBSET S : ~(Total(f, T) <= Total(h, T))}
<1>1. SUFFICES ASSUME Bad # {} PROVE FALSE
  OBVIOUS
<1>2. PICK T \in Bad : \A U \in Bad : U \subseteq T => U = T
  <2>1. Bad \in SUBSET SUBSET S
    OBVIOUS
  <2> HIDE DEF Bad
  <2>2. QED BY <1>1, <2>1, MinimalSubset DEF Amounts
<1>3. T # {}
  BY TotalUnfolds
<1> DEFINE c == Chosen(T)
           U == T \ {c}
<1>4. c \in T
  BY <1>3 DEF Chosen
<1>5. Total(f, T) = f[c] + Total(f, U) /\ Total(h, T) = h[c] + Total(h, U)
  BY <1>3, TotalUnfolds
<1>6. U \in SUBSET S /\ U \notin Bad
  BY <1>2, <1>4
<1>7. Total(f, U) \in Int /\ Total(h, U) \in Int
  BY <1>6, TotalUnfolds
<1>8. Total(f, U) <= Total(h, U) /\ ~(Total(f, T) <= Total(h, T))
  BY <1>6
<1>9. f[c] \in Int /\ h[c] \in Int /\ f[c] <= h[c]
  BY <1>4 DEF Amounts
<1> HIDE DEF c, U, Bad
<1>10. QED
  BY <1>5, <1>7, <1>8, <1>9

\* Equal terms have the same sum.
THEOREM TotalEqual ==
    ASSUME NEW f, NEW h, NEW S, Amounts(f, S), \A x \in S : f[x] = h[x]
    PROVE  Total(f, S) = Total(h, S)
<1>1. Amounts(h, S)
  BY DEF Amounts
<1>2. \A x \in S : f[x] <= h[x] /\ h[x] <= f[x]
  BY DEF Amounts
<1>3. Total(f, S) <= Total(h, S) /\ Total(h, S) <= Total(f, S)
  BY <1>1, <1>2, TotalLeq
<1>4. Total(f, S) \in Int /\ Total(h, S) \in Int
  BY <1>1, TotalUnfolds
<1>5. QED
  BY <1>3, <1>4

\* A sum changes with one of its terms by as much as that term does.
THEOREM TotalChanges ==
    ASSUME NEW f, NEW h, NEW S, Amounts(f, S), Amounts(h, S), NEW x \in S,
           \A y \in S \ {x} : f[y] = h[y]
    PROVE  Total(h, S) = Total(f, S) - f[x] + h[x]
<1>1. Amounts(f, S \ {x})
  BY FS_Subset DEF Amounts
<1>2. Total(f, S \ {x}) = Total(h, S \ {x})
  BY <1>1, TotalEqual
<1>3. /\ Total(f, S) = f[x] + Total(f, S \ {x})
      /\ Total(h, S) = h[x] + Total(h, S \ {x})
      /\ Total(f, S \ {x}) \in Int
  BY TotalRemoves
<1>4. f[x] \in Int /\ h[x] \in Int
  BY DEF Amounts
<1>5. QED
  BY <1>2, <1>3, <1>4

\* The same of a function that is changed at one place.
THEOREM TotalExcept ==
    ASSUME NEW S, IsFiniteSet(S), NEW f \in [S -> Int], NEW x \in S, NEW n \in Int
    PROVE  /\ Total([f EXCEPT ![x] = n], S) = Total(f, S) - f[x] + n
           /\ Total(f, S) \in Int
<1> DEFINE h == [f EXCEPT ![x] = n]
<1>1. Amounts(f, S) /\ Amounts(h, S) /\ h[x] = n
  BY DEF Amounts
<1>2. \A y \in S \ {x} : f[y] = h[y]
  OBVIOUS
<1> HIDE DEF h
<1>3. Total(h, S) = Total(f, S) - f[x] + h[x] /\ Total(f, S) \in Int
  BY <1>1, <1>2, TotalChanges, TotalUnfolds
<1> QED BY <1>1, <1>3 DEF h

\* Equal terms add up to their number times one of them.
THEOREM TotalConstant ==
    ASSUME NEW f, NEW S, IsFiniteSet(S), NEW n \in Int, \A x \in S : f[x] = n
    PROVE  Total(f, S) = Cardinality(S) * n
<1>1. Amounts(f, S)
  BY DEF Amounts
<1> DEFINE Bad == {T \in SUBSET S : Total(f, T) # Cardinality(T) * n}
<1>2. SUFFICES ASSUME Bad # {} PROVE FALSE
  OBVIOUS
<1>3. PICK T \in Bad : \A U \in Bad : U \subseteq T => U = T
  <2>1. Bad \in SUBSET SUBSET S
    OBVIOUS
  <2> HIDE DEF Bad
  <2>2. QED BY <1>2, <2>1, MinimalSubset
<1>4. T # {}
  <2>1. Total(f, {}) = 0 /\ Cardinality({}) = 0 /\ 0 * n = 0
    BY <1>1, TotalUnfolds, FS_EmptySet
  <2>2. QED BY <2>1
<1> DEFINE c == Chosen(T)
           U == T \ {c}
<1>5. c \in T
  BY <1>4 DEF Chosen
<1>6. Total(f, T) = n + Total(f, U)
  BY <1>1, <1>4, <1>5, TotalUnfolds
<1>7. Total(f, U) = Cardinality(U) * n
  BY <1>3, <1>5
<1>8. Cardinality(U) = Cardinality(T) - 1 /\ Cardinality(T) \in Nat
  BY <1>5, FS_Subset, FS_RemoveElement, FS_CardinalityType
<1>9. (Cardinality(T) - 1) * n = Cardinality(T) * n - n
  BY <1>8
<1>10. Cardinality(T) * n \in Int
  BY <1>8
<1>11. QED
  BY <1>6, <1>7, <1>8, <1>9, <1>10

\* Natural numbers have a natural sum.
THEOREM TotalNat ==
    ASSUME NEW f, NEW S, IsFiniteSet(S), \A x \in S : f[x] \in Nat
    PROVE  Total(f, S) \in Nat
<1> DEFINE zero == [x \in S |-> 0]
<1>1. Amounts(f, S) /\ Amounts(zero, S)
  BY DEF Amounts
<1>2. Total(zero, S) = Cardinality(S) * 0
  <2>1. \A x \in S : zero[x] = 0
    OBVIOUS
  <2> HIDE DEF zero
  <2>2. QED BY <2>1, TotalConstant
<1>3. Cardinality(S) * 0 = 0
  BY FS_CardinalityType
<1>4. Total(zero, S) <= Total(f, S)
  <2>1. \A x \in S : zero[x] <= f[x]
    OBVIOUS
  <2> HIDE DEF zero
  <2>2. QED BY <1>1, <2>1, TotalLeq
<1>5. Total(f, S) \in Int
  BY <1>1, TotalUnfolds
<1> HIDE DEF zero
<1>6. QED
  BY <1>2, <1>3, <1>4, <1>5
=============================================================================
