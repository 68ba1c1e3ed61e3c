---------------------------- MODULE CircleProofs ----------------------------
(***************************************************************************)
(* Theorems about the payout order (PayoutOrder), its configuration        *)
(* (PayoutConfig) and the life of a circle (Circle), for any number of     *)
(* members, users, slots and requests.                                     *)
(***************************************************************************)
EXTENDS Circle, PayoutConfig, SumTheorems

-----------------------------------------------------------------------------
(* The payout sorter returns the members it was given, each once, in an    *)
(* order the comparator agrees with.                                       *)

-----------------------------------------------------------------------------
(* Comparators.                                                            *)

\* What the comparators read of a member.
Keyed(m) == m.joinedAt \in Nat /\ m.position \in Nat /\ m.score \in Int

\* Every comparator is a strict weak order: no two members are both before each
\* other.
LEMMA PrecedesIsAsymmetric ==
    ASSUME NEW logic, NEW a, NEW b, Keyed(a), Keyed(b), Precedes(logic, a, b)
    PROVE  ~Precedes(logic, b, a)
<1>1. Score(a) \in Int /\ Score(b) \in Int
  BY DEF Keyed, Score
<1> QED BY <1>1 DEF Precedes, Earlier, Keyed

\* Whoever stands between two members is on one side of one of them.
LEMMA PrecedesIsNegativelyTransitive ==
    ASSUME NEW logic, NEW a, NEW b, NEW c, Keyed(a), Keyed(b), Keyed(c), Precedes(logic, a, c)
    PROVE  Precedes(logic, a, b) \/ Precedes(logic, b, c)
<1>1. Score(a) \in Int /\ Score(b) \in Int /\ Score(c) \in Int
  BY DEF Keyed, Score
<1> QED BY <1>1 DEF Precedes, Earlier, Keyed

-----------------------------------------------------------------------------
(* Ranks.                                                                  *)

\* If before[i] are the predecessors of i in a strict total order of 1..n, then
\* 1 + Cardinality(before[i]) numbers 1..n without gaps, in that order.
LEMMA RanksArePositions ==
    ASSUME NEW n \in Nat, NEW before \in [1..n -> SUBSET (1..n)],
           \A i \in 1..n : i \notin before[i],
           \A i, j \in 1..n : i # j => i \in before[j] \/ j \in before[i],
           \A i, j \in 1..n : j \in before[i] => before[j] \subseteq before[i]
    PROVE  LET rank == [i \in 1..n |-> 1 + Cardinality(before[i])]
           IN  /\ rank \in Injection(1..n, 1..n)
               /\ rank \in Surjection(1..n, 1..n)
               /\ \A i, j \in 1..n : j \in before[i] => rank[j] < rank[i]
<1> DEFINE rank == [i \in 1..n |-> 1 + Cardinality(before[i])]
<1>1. IsFiniteSet(1..n) /\ Cardinality(1..n) = n
  BY FS_Interval
<1>2. \A i \in 1..n : IsFiniteSet(before[i]) /\ Cardinality(before[i]) \in Nat
  BY <1>1, FS_Subset, FS_CardinalityType
<1>3. ASSUME NEW i \in 1..n PROVE Cardinality(before[i]) < n
  <2>1. before[i] \in SUBSET (1..n) /\ before[i] # 1..n
    OBVIOUS
  <2>2. Cardinality(before[i]) <= n /\ Cardinality(before[i]) # n
    BY <1>1, <2>1, FS_Subset
  <2> QED BY <1>2, <2>2
<1>4. rank \in [1..n -> 1..n]
  BY <1>2, <1>3
<1>5. ASSUME NEW i \in 1..n, NEW j \in 1..n, j \in before[i] PROVE rank[j] < rank[i]
  <2>1. before[j] \in SUBSET before[i] /\ before[j] # before[i]
    BY <1>5
  <2>2. Cardinality(before[j]) <= Cardinality(before[i])
        /\ Cardinality(before[j]) # Cardinality(before[i])
    BY <1>2, <2>1, FS_Subset
  <2> QED BY <1>2, <2>2
<1>6. IsInjective(rank)
  <2>1. \A i, j \in 1..n : rank[i] = rank[j] => i = j
    <3> SUFFICES ASSUME NEW i \in 1..n, NEW j \in 1..n, rank[i] = rank[j], i # j PROVE FALSE
      OBVIOUS
    <3>1. rank[i] \in Int /\ rank[j] \in Int
      BY <1>4
    <3>2. rank[i] < rank[j] \/ rank[j] < rank[i]
      BY <1>5
    <3> HIDE DEF rank
    <3> QED BY <3>1, <3>2
  <2> QED BY <1>4, <2>1 DEF IsInjective
<1>7. rank \in Injection(1..n, 1..n)
  BY <1>4, <1>6 DEF Injection
<1>8. rank \in Surjection(1..n, 1..n)
  <2> HIDE DEF rank
  <2> QED BY <1>1, <1>7, FS_Injection
<1> QED BY <1>5, <1>7, <1>8

-----------------------------------------------------------------------------
(* The sorter.                                                             *)

\* A list of n members.
AreMembers(members, n) == DOMAIN members = 1..n /\ \A i \in 1..n : Keyed(members[i])

\* Theorem: whatever the logic that compares, sort() returns a permutation of
\* the members it was given, nobody comes after someone the comparator puts
\* behind them, and members that compare equal keep the order of the query.
THEOREM SortedIsStablePermutation ==
    ASSUME NEW n \in Nat, NEW members, AreMembers(members, n), NEW logic
    PROVE  \E p \in Injection(1..n, 1..n) :
              /\ p \in Surjection(1..n, 1..n)
              /\ Sorted(members, logic) = [k \in 1..n |-> members[p[k]]]
              /\ \A k, l \in 1..n : k < l =>
                    /\ ~Precedes(logic, members[p[l]], members[p[k]])
                    /\ Precedes(logic, members[p[k]], members[p[l]]) \/ p[k] < p[l]
<1> DEFINE Before(i) == {j \in 1..n : \/ Precedes(logic, members[j], members[i])
                                      \/ j < i /\ ~Precedes(logic, members[i], members[j])}
           before == [i \in 1..n |-> Before(i)]
           rank == [i \in 1..n |-> 1 + Cardinality(before[i])]
           Rank(i) == 1 + Cardinality({j \in DOMAIN members :
                              \/ Precedes(logic, members[j], members[i])
                              \/ j < i /\ ~Precedes(logic, members[i], members[j])})
           Place(k) == CHOOSE i \in DOMAIN members : Rank(i) = k
           p == [k \in 1..n |-> Place(k)]
<1>a. DOMAIN members = 1..n /\ \A i \in 1..n : Keyed(members[i])
  BY DEF AreMembers
<1>1. before \in [1..n -> SUBSET (1..n)]
  OBVIOUS
<1>2. \A i \in 1..n : i \notin before[i]
  BY <1>a, PrecedesIsAsymmetric
<1>3. \A i, j \in 1..n : i # j => i \in before[j] \/ j \in before[i]
  OBVIOUS
<1>4. \A i, j \in 1..n : j \in before[i] => before[j] \subseteq before[i]
  <2> SUFFICES ASSUME NEW i \in 1..n, NEW j \in Before(i), NEW k \in Before(j)
               PROVE  k \in Before(i)
    OBVIOUS
  <2>1. \/ Precedes(logic, members[j], members[i])
        \/ j < i /\ ~Precedes(logic, members[i], members[j])
    OBVIOUS
  <2>2. \/ Precedes(logic, members[k], members[j])
        \/ k < j /\ ~Precedes(logic, members[j], members[k])
    OBVIOUS
  <2>3. ~Precedes(logic, members[i], members[j]) /\ ~Precedes(logic, members[j], members[k])
    BY <1>a, <2>1, <2>2, PrecedesIsAsymmetric
  <2>4. ~Precedes(logic, members[i], members[k])
    BY <1>a, <2>3, PrecedesIsNegativelyTransitive
  <2>5. CASE Precedes(logic, members[j], members[i])
    BY <1>a, <2>3, <2>5, PrecedesIsNegativelyTransitive
  <2>6. CASE Precedes(logic, members[k], members[j])
    BY <1>a, <2>3, <2>6, PrecedesIsNegativelyTransitive
  <2>7. CASE j < i /\ k < j
    BY <2>4, <2>7
  <2> QED BY <2>1, <2>2, <2>5, <2>6, <2>7
<1>5. /\ rank \in Injection(1..n, 1..n)
      /\ rank \in Surjection(1..n, 1..n)
      /\ \A i, j \in 1..n : j \in before[i] => rank[j] < rank[i]
  <2> HIDE DEF before
  <2> QED BY <1>1, <1>2, <1>3, <1>4, RanksArePositions
<1>6. \A k \in 1..n : p[k] \in 1..n /\ rank[p[k]] = k
  <2>1. \A i \in 1..n : Rank(i) = rank[i]
    BY <1>a
  <2>2. \A k \in 1..n : \E i \in 1..n : rank[i] = k
    <3> HIDE DEF rank
    <3> QED BY <1>5 DEF Surjection
  <2> HIDE DEF rank, Rank
  <2>3. \A k \in 1..n : Place(k) \in 1..n /\ Rank(Place(k)) = k
    BY <1>a, <2>1, <2>2
  <2> HIDE DEF Place
  <2> QED BY <2>1, <2>3
<1>7. \A i \in 1..n : p[rank[i]] = i
  <2>1. \A i \in 1..n : rank[i] \in 1..n
    <3> HIDE DEF rank
    <3> QED BY <1>5 DEF Injection
  <2> HIDE DEF rank, p
  <2> QED BY <1>5, <1>6, <2>1 DEF Injection, IsInjective
<1>8. p \in Injection(1..n, 1..n) /\ p \in Surjection(1..n, 1..n)
  <2>1. p \in [1..n -> 1..n]
    BY <1>6
  <2>2. \A i \in 1..n : rank[i] \in 1..n
    <3> HIDE DEF rank
    <3> QED BY <1>5 DEF Injection
  <2> HIDE DEF rank, p
  <2> QED BY <1>6, <1>7, <2>1, <2>2 DEF Injection, Surjection, IsInjective
<1>9. Sorted(members, logic) = [k \in 1..n |-> members[p[k]]]
  <2>1. Sorted(members, logic) = [k \in DOMAIN members |-> members[Place(k)]]
    BY DEF Sorted
  <2> HIDE DEF Place
  <2> QED BY <1>a, <2>1
<1>10. ASSUME NEW k \in 1..n, NEW l \in 1..n, k < l
       PROVE  /\ ~Precedes(logic, members[p[l]], members[p[k]])
              /\ Precedes(logic, members[p[k]], members[p[l]]) \/ p[k] < p[l]
  <2>1. p[k] \in 1..n /\ p[l] \in 1..n /\ rank[p[k]] = k /\ rank[p[l]] = l
    BY <1>6
  <2>2. p[l] \notin before[p[k]]
    <3> HIDE DEF rank, p, before
    <3> QED BY <1>5, <1>10, <2>1
  <2>3. p[k] # p[l]
    <3> HIDE DEF rank, p, before
    <3> QED BY <1>10, <2>1
  <2>4. p[k] \in before[p[l]]
    <3> HIDE DEF rank, p, before
    <3> QED BY <1>3, <2>1, <2>2, <2>3
  <2> HIDE DEF p
  <2> QED BY <2>1, <2>2, <2>4
<1> QED
  <2> HIDE DEF p
  <2> QED BY <1>8, <1>9, <1>10

\* In particular nobody is lost and nobody is named twice.
COROLLARY SortedIsPermutation ==
    ASSUME NEW n \in Nat, NEW members, AreMembers(members, n), NEW logic
    PROVE  \E p \in Injection(1..n, 1..n) :
              \A k \in 1..n : Sorted(members, logic)[k] = members[p[k]]
<1>1. PICK p \in Injection(1..n, 1..n) :
              /\ p \in Surjection(1..n, 1..n)
              /\ Sorted(members, logic) = [k \in 1..n |-> members[p[k]]]
              /\ \A k, l \in 1..n : k < l =>
                    /\ ~Precedes(logic, members[p[l]], members[p[k]])
                    /\ Precedes(logic, members[p[k]], members[p[l]]) \/ p[k] < p[l]
  BY SortedIsStablePermutation
<1> QED BY <1>1
-----------------------------------------------------------------------------
(* The shuffle.                                                            *)

\* p names each of 1..n once.
Permutes(p, n) == p \in Injection(1..n, 1..n) /\ p \in Surjection(1..n, 1..n)

\* Naming two of them in each other's place leaves it so.
LEMMA SwapPermutes ==
    ASSUME NEW n \in Nat, NEW p, Permutes(p, n), NEW a \in 1..n, NEW b \in 1..n,
           NEW q, q = [i \in 1..n |-> IF i = b THEN p[a] ELSE IF i = a THEN p[b] ELSE p[i]]
    PROVE  Permutes(q, n)
<1>1. p \in [1..n -> 1..n] /\ \A i, j \in 1..n : p[i] = p[j] => i = j
  BY DEF Permutes, Injection, IsInjective
<1>2. q \in [1..n -> 1..n]
  BY <1>1
<1>3. \A i, j \in 1..n : q[i] = q[j] => i = j
  BY <1>1
<1>4. q \in Injection(1..n, 1..n)
  BY <1>2, <1>3 DEF Injection, IsInjective
<1>5. q \in Surjection(1..n, 1..n)
  <2>1. IsFiniteSet(1..n)
    BY FS_Interval
  <2> QED BY <1>4, <2>1, FS_Injection
<1> QED BY <1>4, <1>5 DEF Permutes

\* Some order of the members.
Reordered(list, members, n) ==
    \E p : Permutes(p, n) /\ list = [k \in 1..n |-> members[p[k]]]

\* A swap of two of the list leaves it an order of the members.
LEMMA SwapReorders ==
    ASSUME NEW n \in Nat, NEW members, NEW list, Reordered(list, members, n),
           NEW a \in 1..n, NEW b \in 1..n
    PROVE  Reordered([list EXCEPT ![a] = list[b], ![b] = list[a]], members, n)
<1>1. PICK p : Permutes(p, n) /\ list = [k \in 1..n |-> members[p[k]]]
  BY DEF Reordered
<1> DEFINE q == [i \in 1..n |-> IF i = b THEN p[a] ELSE IF i = a THEN p[b] ELSE p[i]]
           swapped == [list EXCEPT ![a] = list[b], ![b] = list[a]]
<1>2. Permutes(q, n)
  BY <1>1, SwapPermutes
<1>3. swapped = [k \in 1..n |-> members[q[k]]]
  <2>1. \A k \in 1..n : list[k] = members[p[k]]
    BY <1>1
  <2>2. DOMAIN list = 1..n /\ list = [k \in 1..n |-> list[k]]
    BY <1>1
  <2>3. swapped = [k \in 1..n |-> IF k = b THEN list[a] ELSE IF k = a THEN list[b] ELSE list[k]]
    <3> DEFINE x == list[a]
               y == list[b]
    <3>1. swapped = [[list EXCEPT ![a] = y] EXCEPT ![b] = x]
      OBVIOUS
    <3>2. [[list EXCEPT ![a] = y] EXCEPT ![b] = x]
            = [k \in 1..n |-> IF k = b THEN x ELSE IF k = a THEN y ELSE list[k]]
      <4> HIDE DEF x, y
      <4> QED BY <2>2
    <3> QED BY <3>1, <3>2
  <2>4. \A k \in 1..n : (IF k = b THEN list[a] ELSE IF k = a THEN list[b] ELSE list[k])
                          = members[q[k]]
    BY <2>1
  <2> HIDE DEF swapped, q
  <2> QED BY <2>3, <2>4
<1> HIDE DEF q, swapped
<1>4. Reordered(swapped, members, n)
  BY <1>2, <1>3 DEF Reordered
<1> QED BY <1>4 DEF swapped

\* Theorem: whatever numbers the shuffle draws, it returns the members it was
\* given, each once.
THEOREM ShuffledIsPermutation ==
    ASSUME NEW n \in Nat, NEW S, NEW members \in [1..n -> S], Len(members) = n,
           NEW draw \in Draws(n)
    PROVE  Reordered(Shuffled(members, draw), members, n)
<1> DEFINE M == [1..n -> S]
           Swap(list, k) == [list EXCEPT ![k] = list[draw[k]], ![draw[k]] = list[k]]
           Down(g) == [k \in 1..(n + 1) |-> IF k = n + 1 THEN members
                                            ELSE IF k = 1 THEN g[2]
                                            ELSE Swap(g[k + 1], k)]
           step == CHOOSE g : g = Down(g)
<1>1. \A i \in 2..n : draw[i] \in 1..n
  BY DEF Draws
<1>2. \A list \in M : \A k \in 2..n : Swap(list, k) \in M
  BY <1>1
<1>3. Reordered(members, members, n)
  <2> DEFINE p == [k \in 1..n |-> k]
  <2>1. Permutes(p, n)
    BY DEF Permutes, Injection, Surjection, IsInjective
  <2>2. members = [k \in 1..n |-> members[p[k]]]
    OBVIOUS
  <2> HIDE DEF p
  <2> QED BY <2>1, <2>2 DEF Reordered
<1>4. \E g : g = Down(g)
  <2> DEFINE Step(list, k) == IF k = 1 THEN list ELSE Swap(list, k)
             F == [i \in 1..n |-> [list \in M |-> Step(list, n + 1 - i)]]
  <2>1. F \in [1..n -> [M -> M]]
    <3>1. ASSUME NEW i \in 1..n, NEW list \in M PROVE Step(list, n + 1 - i) \in M
      <4> DEFINE k == n + 1 - i
      <4>1. k \in 1..n
        OBVIOUS
      <4>2. CASE k = 1
        BY <4>2
      <4>3. CASE k # 1
        <5>1. k \in 2..n
          BY <4>1, <4>3
        <5> HIDE DEF k, Swap, M
        <5>2. Swap(list, k) \in M
          BY <1>2, <5>1
        <5>3. Step(list, k) \in M
          BY <4>3, <5>2
        <5> QED BY <5>3 DEF k
      <4> QED BY <4>2, <4>3
    <3> HIDE DEF Step, M
    <3> QED BY <3>1
  <2>2. \A i \in 1..n, list \in M : F[i][list] = Step(list, n + 1 - i)
    <3> HIDE DEF Step, M
    <3> QED OBVIOUS
  <2> HIDE DEF F, M, Swap
  <2>3. members \in M
    BY DEF M
  <2>4. PICK run : Stepwise(run, n, M, members, F)
    BY <2>1, <2>3, StepwiseExists, Zenon
  <2>5. /\ run \in [0..n -> M] /\ run[0] = members
        /\ \A i \in 1..n : run[i] = F[i][run[i - 1]]
    BY <2>4 DEF Stepwise
  <2> DEFINE g == [k \in 1..(n + 1) |-> run[n + 1 - k]]
  <2>6. ASSUME NEW k \in 1..(n + 1)
        PROVE  g[k] = IF k = n + 1 THEN members ELSE IF k = 1 THEN g[2] ELSE Swap(g[k + 1], k)
    <3>1. CASE k = n + 1
      BY <2>5, <3>1
    <3>2. CASE k # n + 1
      <4> DEFINE i == n + 1 - k
      <4>1. i \in 1..n /\ i - 1 \in 0..n /\ n + 1 - i = k /\ n + 1 - (k + 1) = i - 1
            /\ k + 1 \in 1..(n + 1)
        BY <3>2
      <4>2. g[k] = run[i] /\ g[k + 1] = run[i - 1]
        BY <4>1
      <4> HIDE DEF i, g
      <4>3. run[i] = F[i][run[i - 1]] /\ run[i - 1] \in M
        BY <2>5, <4>1
      <4>4. F[i][run[i - 1]] = Step(run[i - 1], n + 1 - i)
        <5> HIDE DEF Step
        <5> QED BY <2>2, <4>1, <4>3
      <4>5. g[k] = Step(g[k + 1], k)
        <5> HIDE DEF Step
        <5> QED BY <4>1, <4>2, <4>3, <4>4
      <4> QED BY <3>2, <4>5
    <3> QED BY <3>1, <3>2
  <2>7. g = [k \in 1..(n + 1) |-> g[k]]
    OBVIOUS
  <2> HIDE DEF g
  <2>8. g = Down(g)
    BY <2>6, <2>7
  <2> QED BY <2>8
<1>5. step = Down(step)
  <2> HIDE DEF Down
  <2> QED BY <1>4
<1>6. Shuffled(members, draw) = IF n = 0 THEN members ELSE step[1]
  BY DEF Shuffled
<1> HIDE DEF step
<1>7. \A k \in 1..(n + 1) : step[k] = IF k = n + 1 THEN members
                                      ELSE IF k = 1 THEN step[2]
                                      ELSE Swap(step[k + 1], k)
  <2> HIDE DEF Swap
  <2> QED BY <1>5
<1> HIDE DEF Down
<1>8. ASSUME NEW k \in 1..(n + 1) PROVE Reordered(step[k], members, n)
  <2> DEFINE Bad == {j \in 0..n : ~Reordered(step[n + 1 - j], members, n)}
  <2>1. SUFFICES ASSUME ~Reordered(step[k], members, n) PROVE FALSE
    OBVIOUS
  <2>2. n + 1 - k \in Bad
    <3>1. n + 1 - k \in 0..n /\ n + 1 - (n + 1 - k) = k
      OBVIOUS
    <3> QED BY <2>1, <3>1
  <2>3. PICK m \in Bad : \A j \in Bad : m <= j
    <3>1. Bad \in SUBSET (0..n) /\ Bad # {}
      BY <2>2
    <3> HIDE DEF Bad
    <3> QED BY <3>1, LeastNumber
  <2> DEFINE l == n + 1 - m
  <2>4. m \in 0..n /\ ~Reordered(step[l], members, n)
    OBVIOUS
  <2>5. CASE m = 0
    <3>1. l = n + 1 /\ l \in 1..(n + 1)
      BY <2>5
    <3>2. step[l] = members
      <4> HIDE DEF l
      <4> QED BY <1>7, <3>1
    <3> QED BY <1>3, <2>4, <3>2
  <2>6. CASE m # 0
    <3>1. /\ l \in 1..n /\ l \in 1..(n + 1) /\ l # n + 1
          /\ m - 1 \in 0..n /\ m - 1 < m /\ n + 1 - (m - 1) = l + 1
      BY <2>4, <2>6
    <3>2. m - 1 \notin Bad
      <4> HIDE DEF Bad, l
      <4> QED BY <2>3, <2>4, <3>1
    <3>3. Reordered(step[l + 1], members, n)
      <4> HIDE DEF l
      <4> QED BY <3>1, <3>2
    <3> HIDE DEF l, Bad
    <3>4. CASE l = 1
      <4>1. step[l] = step[2] /\ l + 1 = 2
        <5> HIDE DEF Swap
        <5> QED BY <1>7, <3>1, <3>4
      <4> QED BY <2>4, <3>3, <4>1
    <3>5. CASE l # 1
      <4>1. step[l] = Swap(step[l + 1], l)
        <5> HIDE DEF Swap
        <5> QED BY <1>7, <3>1, <3>5
      <4>2. l \in 2..n
        BY <3>1, <3>5
      <4>3. draw[l] \in 1..n
        BY <1>1, <4>2
      <4>4. Reordered(Swap(step[l + 1], l), members, n)
        BY <3>1, <3>3, <4>3, SwapReorders, Zenon
      <4> HIDE DEF Swap
      <4> QED BY <2>4, <4>1, <4>4
    <3> QED BY <3>4, <3>5
  <2> QED BY <2>5, <2>6
<1>9. CASE n = 0
  BY <1>3, <1>6, <1>9
<1>10. CASE n # 0
  <2>1. 1 \in 1..(n + 1)
    OBVIOUS
  <2> QED BY <1>6, <1>8, <1>10, <2>1
<1> QED BY <1>9, <1>10

-----------------------------------------------------------------------------
(* Positions set by the admin, and who is paid when.                        *)

-----------------------------------------------------------------------------
\* What the sorter reads of the members.
RowsInv ==
    /\ payoutPosition \in [Members -> Nat]
    /\ joinedAt \in [Members -> Nat]
    /\ trustScore \in [Members -> Int]
    /\ payoutLogic \in OrderLogics

\* The members are listed, each once.
LEMMA RosterFacts ==
    /\ Len(Roster) \in Nat /\ DOMAIN Roster = 1..Len(Roster)
    /\ \A i \in 1..Len(Roster) : Roster[i] \in Members
    /\ \A u \in Members : \E i \in 1..Len(Roster) : Roster[i] = u
    /\ \A i, j \in 1..Len(Roster) : Roster[i] = Roster[j] => i = j
<1>1. Len(Roster) \in Nat /\ DOMAIN Roster = 1..Len(Roster)
  BY PayoutConfigAssumption
<1> QED BY <1>1, PayoutConfigAssumption DEF Members, IsInjective

\* The rows that are read are the members, in the order of the query.
LEMMA RowsFacts ==
    RowsInv => /\ AreMembers(Rows, Len(Roster))
               /\ \A i \in 1..Len(Roster) : Rows[i].user = Roster[i]
<1> SUFFICES ASSUME RowsInv
             PROVE  /\ AreMembers(Rows, Len(Roster))
                    /\ \A i \in 1..Len(Roster) : Rows[i].user = Roster[i]
  OBVIOUS
<1>1. DOMAIN Rows = 1..Len(Roster)
  BY RosterFacts DEF Rows
<1>2. ASSUME NEW i \in 1..Len(Roster) PROVE Rows[i].user = Roster[i] /\ Keyed(Rows[i])
  <2>1. Rows[i] = [user |-> Roster[i], joinedAt |-> joinedAt[Roster[i]],
                   score |-> trustScore[Roster[i]], position |-> payoutPosition[Roster[i]]]
    BY RosterFacts DEF Rows
  <2>2. /\ joinedAt[Roster[i]] \in Nat /\ trustScore[Roster[i]] \in Int
        /\ payoutPosition[Roster[i]] \in Nat
    BY RosterFacts DEF RowsInv
  <2> QED BY <2>1, <2>2 DEF Keyed
<1> QED BY <1>1, <1>2 DEF AreMembers

\* The sorted rows name every member in one place.
LEMMA OrderFacts ==
    ASSUME RowsInv, NEW order \in PayoutOrders(Rows, payoutLogic)
    PROVE  /\ DOMAIN order = 1..Len(Roster) /\ Len(order) = Len(Roster)
           /\ \A u \in Members : \E k \in 1..Len(Roster) : order[k].user = u
           /\ \A k, l \in 1..Len(Roster) : order[k].user = order[l].user => k = l
<1> DEFINE n == Len(Roster)
<1>2. n \in Nat
  BY RosterFacts
<1>3. AreMembers(Rows, n) /\ \A i \in 1..n : Rows[i].user = Roster[i]
  BY RowsFacts
<1> HIDE DEF n
<1>1. Reordered(order, Rows, n)
  <2>1. CASE payoutLogic = "RANDOM_DRAW"
    <3> DEFINE S == {Rows[i] : i \in 1..n}
    <3>1. DOMAIN Rows = 1..n /\ Rows = [i \in DOMAIN Rows |-> Rows[i]]
      BY <1>3 DEF AreMembers, Rows
    <3>2. Rows \in [1..n -> S]
      BY <3>1
    <3>3. Rows \in Seq(S)
      BY <1>2, <3>2
    <3>4. Len(Rows) = n
      BY <1>2, <3>1, <3>3
    <3>5. PICK draw \in Draws(n) : order = Shuffled(Rows, draw)
      BY <2>1, <3>4 DEF PayoutOrders
    <3> HIDE DEF S
    <3> QED BY <1>2, <3>2, <3>4, <3>5, ShuffledIsPermutation
  <2>2. CASE payoutLogic # "RANDOM_DRAW"
    <3>1. order = Sorted(Rows, payoutLogic)
      BY <2>2 DEF PayoutOrders
    <3>2. PICK p \in Injection(1..n, 1..n) :
            /\ p \in Surjection(1..n, 1..n)
            /\ order = [k \in 1..n |-> Rows[p[k]]]
      BY <1>2, <1>3, <3>1, SortedIsStablePermutation
    <3> QED BY <3>2 DEF Reordered, Permutes
  <2> QED BY <2>1, <2>2
<1>4. PICK p \in Injection(1..n, 1..n) :
        /\ p \in Surjection(1..n, 1..n)
        /\ order = [k \in 1..n |-> Rows[p[k]]]
  BY <1>1 DEF Reordered, Permutes
<1> USE DEF n
<1>5. \A k \in 1..n : p[k] \in 1..n /\ order[k].user = Roster[p[k]]
  BY <1>3, <1>4 DEF Injection
<1>6. \A u \in Members : \E k \in 1..n : order[k].user = u
  <2> SUFFICES ASSUME NEW u \in Members PROVE \E k \in 1..n : order[k].user = u
    OBVIOUS
  <2>1. PICK i \in 1..n : Roster[i] = u
    BY RosterFacts
  <2>2. PICK k \in 1..n : p[k] = i
    BY <1>4 DEF Surjection
  <2> QED BY <1>5, <2>1, <2>2
<1>7. \A k, l \in 1..n : order[k].user = order[l].user => k = l
  BY <1>4, <1>5, RosterFacts DEF Injection, IsInjective
<1>8. Len(order) = n
  <2>1. order \in Seq({Rows[p[k]] : k \in 1..n})
    BY <1>2, <1>4
  <2> QED BY <1>2, <1>4, <2>1
<1> QED BY <1>4, <1>6, <1>7, <1>8

\* approveMember numbered the members with numbers.
LEMMA DraftInitRows == DraftInit => RowsInv
<1> SUFFICES ASSUME DraftInit PROVE RowsInv
  OBVIOUS
<1>1. \A u \in Members : (CHOOSE i \in DOMAIN Roster : Roster[i] = u) \in Nat
  BY RosterFacts
<1>2. payoutPosition \in [Members -> Nat]
  BY <1>1 DEF DraftInit
<1> QED BY <1>2, PayoutConfigAssumption DEF DraftInit, RowsInv

\* A configuration request leaves every member a position that is a number.
LEMMA ConfigureDraftRows == RowsInv /\ ConfigureDraft => RowsInv'
<1> SUFFICES ASSUME RowsInv, NEW newLogic \in OrderLogics, NEW assigned \in PositionRequests,
                    NEW holder \in PositionHolders(payoutPosition, Members),
                    UpdatePayoutConfiguration(newLogic, assigned, holder)
             PROVE  RowsInv'
  BY DEF ConfigureDraft
<1> DEFINE writes == AssignmentWrites(assigned, payoutPosition, Members, holder)
           displacer(d) == {u \in DOMAIN assigned \cap Members :
                               /\ assigned[u] \in DOMAIN holder
                               /\ holder[assigned[u]] = d /\ payoutPosition[u] # 0}
           displaced == {d \in Members \ DOMAIN assigned : displacer(d) # {}}
<1>1. writes = [u \in DOMAIN assigned \cup displaced |->
                   IF u \in DOMAIN assigned THEN assigned[u]
                   ELSE payoutPosition[CHOOSE a \in displacer(u) : TRUE]]
  BY DEF AssignmentWrites
<1>2. \A u \in displaced : (CHOOSE a \in displacer(u) : TRUE) \in Members
  <2>1. \A u \in displaced : displacer(u) # {} /\ displacer(u) \subseteq Members
    OBVIOUS
  <2> HIDE DEF displacer, displaced
  <2> QED BY <2>1
<1>3. \A u \in DOMAIN writes : writes[u] \in Nat
  <2> HIDE DEF writes, displacer, displaced
  <2> QED BY <1>1, <1>2, PayoutConfigAssumption DEF RowsInv
<1>4. payoutPosition' = [u \in Members |->
                           IF u \in DOMAIN writes THEN writes[u] ELSE payoutPosition[u]]
  BY DEF UpdatePayoutConfiguration
<1> HIDE DEF writes
<1>5. payoutPosition' \in [Members -> Nat]
  BY <1>3, <1>4 DEF RowsInv
<1> QED BY <1>5 DEF UpdatePayoutConfiguration, RowsInv

\* With as many cycles as members, counting round never comes round.
LEMMA NoWrapping ==
    ASSUME NEW n \in Nat, NEW i \in 1..n PROVE ((i - 1) % n) + 1 = i
<1>1. i - 1 \in 0..(n - 1)
  OBVIOUS
<1>2. \A j \in 0..(n - 1) : j % n = j
  OBVIOUS
<1> QED BY <1>1, <1>2

\* Activation gives every member one cycle.
LEMMA ActivatePaysOnce ==
    ASSUME RowsInv, ActivateDraft
    PROVE  RowsInv' /\ EveryMemberPaidOnce'
<1>1. PICK firstDeadline \in FirstDeadlines, frequency \in Frequencies,
           order \in PayoutOrders(Rows, payoutLogic) :
        WriteSchedules(order, firstDeadline, frequency)
  BY DEF ActivateDraft
<1> DEFINE n == Len(Roster)
<1>2. /\ n \in Nat /\ DOMAIN order = 1..n /\ Len(order) = n
      /\ \A u \in Members : \E k \in 1..n : order[k].user = u
      /\ \A k, l \in 1..n : order[k].user = order[l].user => k = l
  BY OrderFacts, RosterFacts
<1> HIDE DEF n
<1>3. DOMAIN schedules' = 1..n /\ \A i \in 1..n : schedules'[i].recipient = order[i].user
  <2>1. schedules' = Schedules(order, n, firstDeadline, frequency)
    BY <1>1 DEF WriteSchedules, n
  <2>2. /\ DOMAIN schedules' = 1..n
        /\ \A i \in 1..n : schedules'[i].recipient = order[((i - 1) % Len(order)) + 1].user
    BY <2>1 DEF Schedules
  <2>3. \A i \in 1..n : ((i - 1) % Len(order)) + 1 = i
    BY <1>2, NoWrapping
  <2> QED BY <2>2, <2>3
<1>4. ASSUME NEW u \in Members
      PROVE  Cardinality({i \in DOMAIN schedules' : schedules'[i].recipient = u}) = 1
  <2>1. PICK k \in 1..n : order[k].user = u
    BY <1>2
  <2>2. {i \in DOMAIN schedules' : schedules'[i].recipient = u} = {k}
    BY <1>2, <1>3, <2>1
  <2> QED BY <2>2, FS_Singleton
<1>5. EveryMemberPaidOnce'
  BY <1>4 DEF EveryMemberPaidOnce, Members
<1>6. payoutPosition' \in [Members -> Nat]
  <2>1. payoutPosition' = [u \in Members |-> CHOOSE k \in DOMAIN order : order[k].user = u]
    BY <1>1 DEF WriteSchedules
  <2>2. \A u \in Members : (CHOOSE k \in DOMAIN order : order[k].user = u) \in 1..n
    BY <1>2
  <2>3. \A k \in 1..n : k \in Nat
    BY <1>2
  <2> QED BY <2>1, <2>2, <2>3, Zenon
<1>7. UNCHANGED <<joinedAt, trustScore, payoutLogic>>
  BY <1>1 DEF WriteSchedules
<1> QED BY <1>5, <1>6, <1>7 DEF RowsInv, Members

\* Theorem: whatever positions the admin gave the members, whichever logic was
\* chosen and whatever the random draw, every member is paid in exactly one cycle.
THEOREM EveryonePaidOnce == DraftSpec => []EveryMemberPaidOnce
<1> DEFINE Inv == RowsInv /\ EveryMemberPaidOnce
<1>1. DraftInit => Inv
  BY DraftInitRows DEF DraftInit, EveryMemberPaidOnce
<1>2. Inv /\ [DraftNext]_draftVars => Inv'
  <2> SUFFICES ASSUME Inv, [DraftNext]_draftVars PROVE Inv'
    OBVIOUS
  <2>1. CASE ConfigureDraft
    <3>1. schedules = <<>> /\ UNCHANGED schedules
      BY <2>1 DEF ConfigureDraft, UpdatePayoutConfiguration
    <3>2. EveryMemberPaidOnce'
      BY <3>1 DEF EveryMemberPaidOnce
    <3> QED BY <2>1, <3>2, ConfigureDraftRows
  <2>2. CASE ActivateDraft
    BY <2>2, ActivatePaysOnce
  <2>3. CASE UNCHANGED draftVars
    BY <2>3 DEF draftVars, RowsInv, EveryMemberPaidOnce, Members
  <2> QED BY <2>1, <2>2, <2>3 DEF DraftNext
<1>3. Inv => EveryMemberPaidOnce
  OBVIOUS
<1> QED BY <1>1, <1>2, <1>3, PTL DEF DraftSpec

-----------------------------------------------------------------------------
(* The calendar: what adding days or a month does to a date.               *)

\* Where a month begins in the numbering of days.
MonthStart(date) == 372 * date.year + 31 * date.month

\* A month has 28 to 31 days.
LEMMA MonthLengths ==
    ASSUME NEW year \in Nat, NEW month \in 1..12
    PROVE  DaysIn(year, month) \in 28..31
BY DEF DaysIn

\* The next month begins 31 numbers later, after December in the next year.
LEMMA NextMonthFacts ==
    ASSUME NEW date \in Dates
    PROVE  /\ NextMonth(date) \in [year : Nat, month : 1..12, day : 1..31]
           /\ NextMonth(date).day = date.day
           /\ MonthStart(NextMonth(date)) = MonthStart(date) + 31
           /\ MonthNumber(NextMonth(date)) = MonthNumber(date) + 1
<1>1. date \in [year : Nat, month : 1..12, day : 1..31]
  BY DEF Dates
<1>2. CASE date.month = 12
  <2>1. NextMonth(date) = [date EXCEPT !.year = @ + 1, !.month = 1]
    BY <1>2 DEF NextMonth
  <2> DEFINE year == date.year + 1
             january == 1
  <2>2. /\ year \in Nat /\ january \in 1..12
        /\ NextMonth(date) = [[date EXCEPT !.year = year] EXCEPT !.month = january]
    BY <1>1, <2>1
  <2>3. /\ NextMonth(date).year = year /\ NextMonth(date).month = january
        /\ NextMonth(date).day = date.day
        /\ NextMonth(date) \in [year : Nat, month : 1..12, day : 1..31]
    <3> HIDE DEF year, january
    <3> QED BY <1>1, <2>2
  <2> QED BY <1>1, <1>2, <2>3 DEF MonthStart, MonthNumber
<1>3. CASE date.month # 12
  <2>1. NextMonth(date) = [date EXCEPT !.month = @ + 1]
    BY <1>3 DEF NextMonth
  <2>2. /\ NextMonth(date).year = date.year /\ NextMonth(date).month = date.month + 1
        /\ NextMonth(date).day = date.day
        /\ NextMonth(date) \in [year : Nat, month : 1..12, day : 1..31]
    BY <1>1, <1>3, <2>1
  <2> QED BY <1>1, <1>3, <2>2 DEF MonthStart, MonthNumber
<1> QED BY <1>2, <1>3

\* Setting the day leaves the month alone.
LEMMA SetDay ==
    ASSUME NEW date \in [year : Nat, month : 1..12, day : 1..31], NEW day \in 1..31,
           day <= DaysIn(date.year, date.month)
    PROVE  /\ [date EXCEPT !.day = day] \in Dates
           /\ [date EXCEPT !.day = day].day = day
           /\ MonthStart([date EXCEPT !.day = day]) = MonthStart(date)
           /\ MonthNumber([date EXCEPT !.day = day]) = MonthNumber(date)
<1> DEFINE set == [date EXCEPT !.day = day]
<1>1. /\ set \in [year : Nat, month : 1..12, day : 1..31]
      /\ set.day = day /\ set.year = date.year /\ set.month = date.month
  OBVIOUS
<1> HIDE DEF set
<1>2. set \in Dates
  BY <1>1 DEF Dates
<1>3. MonthStart(set) = MonthStart(date) /\ MonthNumber(set) = MonthNumber(date)
  BY <1>1 DEF MonthStart, MonthNumber
<1> QED BY <1>1, <1>2, <1>3 DEF set

\* Numbers of a date.
LEMMA DateNumbers ==
    ASSUME NEW date \in Dates
    PROVE  /\ MonthStart(date) \in Int /\ MonthNumber(date) \in Int /\ date.day \in 1..31
           /\ DayNumber(date) = MonthStart(date) + date.day
           /\ DaysIn(date.year, date.month) \in 28..31
           /\ date.day <= DaysIn(date.year, date.month)
<1>1. date \in [year : Nat, month : 1..12, day : 1..31]
  BY DEF Dates
<1>2. date.year \in Nat /\ date.month \in 1..12 /\ date.day \in 1..31
  BY <1>1
<1>3. MonthStart(date) \in Int /\ MonthNumber(date) \in Int
      /\ DayNumber(date) = MonthStart(date) + date.day
  BY <1>2 DEF MonthStart, MonthNumber, DayNumber
<1>4. DaysIn(date.year, date.month) \in 28..31
  BY <1>2, MonthLengths
<1> QED BY <1>2, <1>3, <1>4 DEF Dates

\* Some days later is a date of this month or of the next.
LEMMA PlusDaysFacts ==
    ASSUME NEW date \in Dates, NEW days \in 1..28
    PROVE  LET over == date.day + days - DaysIn(date.year, date.month)
           IN  /\ PlusDays(date, days) \in Dates
               /\ over <= 0 => /\ DayNumber(PlusDays(date, days)) = DayNumber(date) + days
                               /\ MonthNumber(PlusDays(date, days)) = MonthNumber(date)
               /\ over > 0 => /\ DayNumber(PlusDays(date, days)) = MonthStart(date) + 31 + over
                              /\ MonthNumber(PlusDays(date, days)) = MonthNumber(date) + 1
<1> DEFINE last == DaysIn(date.year, date.month)
           over == date.day + days - last
           later == PlusDays(date, days)
<1>1. /\ MonthStart(date) \in Int /\ MonthNumber(date) \in Int /\ date.day \in 1..31
      /\ DayNumber(date) = MonthStart(date) + date.day
      /\ last \in 28..31 /\ date.day <= last
  BY DateNumbers
<1>2. over \in Int /\ over <= days
  <2> HIDE DEF last
  <2> QED BY <1>1
<1>3. CASE over <= 0
  <2> DEFINE day == date.day + days
  <2>1. day \in 1..31 /\ day <= last
    <3> HIDE DEF last
    <3> QED BY <1>1, <1>3
  <2>2. later = [date EXCEPT !.day = day]
    <3>1. date \in [year : Nat, month : 1..12, day : 1..31]
      BY DEF Dates
    <3>2. later = [date EXCEPT !.day = @ + days]
      BY <1>3 DEF PlusDays
    <3> QED BY <3>1, <3>2
  <2> HIDE DEF day, later
  <2>3. /\ later \in Dates /\ later.day = day
        /\ MonthStart(later) = MonthStart(date) /\ MonthNumber(later) = MonthNumber(date)
    BY <2>1, <2>2, SetDay DEF Dates
  <2>4. DayNumber(later) = MonthStart(later) + later.day
    BY <2>3, DateNumbers
  <2>5. DayNumber(later) = DayNumber(date) + days
    BY <1>1, <2>3, <2>4 DEF day
  <2> HIDE DEF over
  <2> QED BY <1>2, <1>3, <2>3, <2>5 DEF over, later
<1>4. CASE over > 0
  <2>1. over \in 1..28
    BY <1>2, <1>4
  <2> DEFINE next == NextMonth(date)
  <2>2. later = [next EXCEPT !.day = over]
    BY <1>2, <1>4 DEF PlusDays
  <2>3. /\ next \in [year : Nat, month : 1..12, day : 1..31]
        /\ MonthStart(next) = MonthStart(date) + 31
        /\ MonthNumber(next) = MonthNumber(date) + 1
    BY NextMonthFacts
  <2> HIDE DEF next, over, later
  <2>4. DaysIn(next.year, next.month) \in 28..31
    BY <2>3, MonthLengths
  <2>5. over \in 1..31 /\ over <= DaysIn(next.year, next.month)
    BY <2>1, <2>4
  <2>6. /\ later \in Dates /\ later.day = over
        /\ MonthStart(later) = MonthStart(next) /\ MonthNumber(later) = MonthNumber(next)
    BY <2>2, <2>3, <2>5, SetDay
  <2>7. DayNumber(later) = MonthStart(later) + later.day
    BY <2>6, DateNumbers
  <2>8. DayNumber(later) = MonthStart(date) + 31 + over
    BY <2>3, <2>6, <2>7
  <2> QED BY <1>2, <1>4, <2>3, <2>6, <2>8 DEF over, later
<1> QED BY <1>2, <1>3, <1>4

\* A month later is a day of the next month, the same or its last.
LEMMA PlusMonthFacts ==
    ASSUME NEW date \in Dates
    PROVE  /\ PlusMonth(date) \in Dates
           /\ DayNumber(PlusMonth(date)) > MonthStart(date) + 31
           /\ date.day >= 28 => DayNumber(PlusMonth(date)) >= MonthStart(date) + 31 + 28
           /\ MonthNumber(PlusMonth(date)) = MonthNumber(date) + 1
<1> DEFINE next == NextMonth(date)
           last == DaysIn(next.year, next.month)
           later == PlusMonth(date)
<1>1. /\ next \in [year : Nat, month : 1..12, day : 1..31] /\ next.day = date.day
      /\ MonthStart(next) = MonthStart(date) + 31
      /\ MonthNumber(next) = MonthNumber(date) + 1
  BY NextMonthFacts
<1>2. later = IF next.day <= last THEN next ELSE [next EXCEPT !.day = last]
  BY DEF PlusMonth
<1> HIDE DEF next, later
<1>3. last \in 28..31 /\ next.day \in 1..31
  BY <1>1, MonthLengths
<1>4. /\ MonthStart(date) \in Int /\ MonthNumber(date) \in Int /\ date.day \in 1..31
  BY DateNumbers
<1>5. later \in Dates /\ MonthStart(later) = MonthStart(next) /\ MonthNumber(later) = MonthNumber(next)
      /\ (later.day = next.day \/ later.day = last)
  <2>1. CASE next.day <= last
    BY <1>1, <1>2, <2>1 DEF Dates
  <2>2. CASE ~(next.day <= last)
    <3>1. later = [next EXCEPT !.day = last] /\ last \in 1..31 /\ last <= last
      BY <1>2, <1>3, <2>2
    <3> HIDE DEF last
    <3>2. /\ later \in Dates /\ later.day = last
          /\ MonthStart(later) = MonthStart(next) /\ MonthNumber(later) = MonthNumber(next)
      BY <3>1, <1>1, SetDay DEF last
    <3> QED BY <3>2
  <2> QED BY <2>1, <2>2
<1>6. DayNumber(later) = MonthStart(later) + later.day
  BY <1>5, DateNumbers
<1>7. later.day >= 1 /\ (date.day >= 28 => later.day >= 28) /\ later.day \in Int
  <2> HIDE DEF last
  <2> QED BY <1>1, <1>3, <1>5
<1>8. /\ DayNumber(later) > MonthStart(date) + 31
      /\ date.day >= 28 => DayNumber(later) >= MonthStart(date) + 31 + 28
      /\ MonthNumber(later) = MonthNumber(date) + 1
  <2> HIDE DEF last
  <2> QED BY <1>1, <1>4, <1>5, <1>6, <1>7
<1> QED BY <1>5, <1>8 DEF later

\* From one deadline to the payout a day later and to the next deadline time
\* passes, and not more than into the next month.
LEMMA FrequencyFacts ==
    ASSUME NEW date \in Dates, NEW frequency
    PROVE  /\ AddFrequency(date, frequency) \in Dates
           /\ DayNumber(date) < DayNumber(PlusDays(date, 1))
           /\ DayNumber(PlusDays(date, 1)) < DayNumber(AddFrequency(date, frequency))
           /\ MonthNumber(AddFrequency(date, frequency)) <= MonthNumber(date) + 1
<1> DEFINE start == MonthStart(date)
           last == DaysIn(date.year, date.month)
           day == date.day
           Number(days) == DayNumber(PlusDays(date, days))
<1>1. /\ start \in Int /\ MonthNumber(date) \in Int /\ day \in 1..31
      /\ DayNumber(date) = start + day /\ last \in 28..31 /\ day <= last
  BY DateNumbers
<1>2. ASSUME NEW days \in 1..28
      PROVE  /\ PlusDays(date, days) \in Dates
             /\ day + days - last <= 0 => /\ Number(days) = start + day + days
                                          /\ MonthNumber(PlusDays(date, days)) = MonthNumber(date)
             /\ day + days - last > 0 =>
                  /\ Number(days) = start + 31 + (day + days - last)
                  /\ MonthNumber(PlusDays(date, days)) = MonthNumber(date) + 1
  BY <1>1, PlusDaysFacts
<1> HIDE DEF start, last, day, Number
<1>3. /\ day + 1 - last <= 0 => Number(1) = start + day + 1
      /\ day + 1 - last > 0 => Number(1) = start + 31 + (day + 1 - last)
  BY <1>2
<1>4. DayNumber(date) < Number(1)
  BY <1>1, <1>3
<1>5. ASSUME NEW days \in 7..28
      PROVE  /\ PlusDays(date, days) \in Dates /\ Number(1) < Number(days)
             /\ MonthNumber(PlusDays(date, days)) <= MonthNumber(date) + 1
  <2>1. CASE day + days - last <= 0
    BY <1>1, <1>2, <1>3, <2>1
  <2>2. CASE day + days - last > 0
    <3>1. days \in 1..28
      OBVIOUS
    <3>2. /\ PlusDays(date, days) \in Dates
          /\ Number(days) = start + 31 + (day + days - last)
          /\ MonthNumber(PlusDays(date, days)) = MonthNumber(date) + 1
      BY <1>2, <2>2, <3>1
    <3> QED BY <1>1, <1>3, <2>2, <3>2
  <2> QED BY <1>1, <2>1, <2>2
<1>6. /\ PlusMonth(date) \in Dates /\ Number(1) < DayNumber(PlusMonth(date))
      /\ MonthNumber(PlusMonth(date)) <= MonthNumber(date) + 1
  <2>1. /\ PlusMonth(date) \in Dates
        /\ DayNumber(PlusMonth(date)) > start + 31
        /\ day >= 28 => DayNumber(PlusMonth(date)) >= start + 31 + 28
        /\ MonthNumber(PlusMonth(date)) = MonthNumber(date) + 1
    BY PlusMonthFacts DEF start, day
  <2>2. DayNumber(PlusMonth(date)) \in Int
    BY <2>1, DateNumbers
  <2> QED BY <1>1, <1>3, <2>1, <2>2
<1>7. CASE frequency = "WEEKLY"
  <2>1. AddFrequency(date, frequency) = PlusDays(date, 7)
    BY <1>7 DEF AddFrequency
  <2> QED BY <1>4, <1>5, <2>1 DEF Number
<1>8. CASE frequency = "BI_WEEKLY"
  <2>1. AddFrequency(date, frequency) = PlusDays(date, 14)
    BY <1>8 DEF AddFrequency
  <2> QED BY <1>4, <1>5, <2>1 DEF Number
<1>9. CASE frequency \notin {"WEEKLY", "BI_WEEKLY"}
  <2>1. AddFrequency(date, frequency) = PlusMonth(date)
    BY <1>9 DEF AddFrequency
  <2> QED BY <1>4, <1>6, <2>1 DEF Number
<1> QED BY <1>7, <1>8, <1>9

-----------------------------------------------------------------------------
(* The schedule.                                                           *)

\* n cycles whose deadlines are dates that follow each from the one before it,
\* each paid the day after.
Follow(cycles, n, frequency) ==
    /\ DOMAIN cycles = 1..n /\ Len(cycles) = n
    /\ \A i \in 1..n :
         /\ cycles[i].contributionDeadline \in Dates
         /\ cycles[i].payoutDate = PlusDays(cycles[i].contributionDeadline, 1)
    /\ \A i \in 1..(n - 1) :
         cycles[i + 1].contributionDeadline
           = AddFrequency(cycles[i].contributionDeadline, frequency)

\* That is what generateSchedules returns.
LEMMA DeadlinesFollow ==
    ASSUME NEW n \in Nat, NEW order, NEW firstDeadline \in Dates, NEW frequency
    PROVE  Follow(Schedules(order, n, firstDeadline, frequency), n, frequency)
<1> DEFINE Deadlines(f) == [i \in 1..n |-> IF i = 1 THEN firstDeadline
                                      ELSE AddFrequency(f[i - 1], frequency)]
           deadline == CHOOSE f : f = Deadlines(f)
           row(i) == [contributionDeadline |-> deadline[i],
                      payoutDate |-> PlusDays(deadline[i], 1),
                      recipient |-> order[((i - 1) % Len(order)) + 1].user]
           written == Schedules(order, n, firstDeadline, frequency)
<1>1. \E f : f = Deadlines(f)
  <2> DEFINE F == [i \in 1..n |-> [date \in Dates |-> AddFrequency(date, frequency)]]
  <2>1. F \in [1..n -> [Dates -> Dates]]
    BY FrequencyFacts
  <2>2. \A i \in 1..n, date \in Dates : F[i][date] = AddFrequency(date, frequency)
    OBVIOUS
  <2> HIDE DEF F
  <2>a. PICK g : Stepwise(g, n, Dates, firstDeadline, F)
    BY <2>1, StepwiseExists, Zenon
  <2>3. /\ g \in [0..n -> Dates] /\ g[0] = firstDeadline
        /\ \A i \in 1..n : g[i] = F[i][g[i - 1]]
    BY <2>a DEF Stepwise
  <2> DEFINE f == [i \in 1..n |-> g[i - 1]]
  <2>4. ASSUME NEW i \in 1..n
        PROVE  f[i] = IF i = 1 THEN firstDeadline ELSE AddFrequency(f[i - 1], frequency)
    <3>1. CASE i = 1
      BY <2>3, <3>1
    <3>2. CASE i # 1
      <4> DEFINE k == i - 1
      <4>1. k \in 1..n /\ k - 1 \in 0..n
        BY <3>2
      <4>2. f[i] = g[k] /\ f[k] = g[k - 1]
        BY <4>1
      <4> HIDE DEF f
      <4>3. g[k] = F[k][g[k - 1]] /\ g[k - 1] \in Dates
        <5> HIDE DEF k
        <5> QED BY <2>3, <4>1
      <4>4. g[k] = AddFrequency(g[k - 1], frequency)
        <5> HIDE DEF k
        <5> QED BY <2>2, <4>1, <4>3
      <4> QED BY <3>2, <4>2, <4>4
    <3> QED BY <3>1, <3>2
  <2>5. f = [i \in 1..n |-> f[i]]
    OBVIOUS
  <2> HIDE DEF f
  <2>6. f = Deadlines(f)
    BY <2>4, <2>5
  <2> QED BY <2>6
<1>2. deadline = Deadlines(deadline)
  <2> HIDE DEF Deadlines
  <2> QED BY <1>1
<1>3. written = [i \in 1..n |-> row(i)]
  BY DEF Schedules
<1> HIDE DEF deadline, written
<1>4. \A i \in 1..n : deadline[i] = IF i = 1 THEN firstDeadline
                                    ELSE AddFrequency(deadline[i - 1], frequency)
  BY <1>2
<1> HIDE DEF Deadlines
<1>5. ASSUME NEW i \in 1..n PROVE deadline[i] \in Dates
  <2> DEFINE Bad == {k \in 1..n : deadline[k] \notin Dates}
  <2>1. SUFFICES ASSUME Bad # {} PROVE FALSE
    OBVIOUS
  <2>2. PICK m \in Bad : \A k \in Bad : m <= k
    <3>1. Bad \in SUBSET (0..n)
      OBVIOUS
    <3> HIDE DEF Bad
    <3> QED BY <2>1, <3>1, LeastNumber
  <2>3. m \in 1..n /\ deadline[m] \notin Dates
    OBVIOUS
  <2>4. m # 1
    BY <1>4, <2>3
  <2>5. m - 1 \in 1..n /\ m - 1 < m
    BY <2>3, <2>4
  <2>6. deadline[m - 1] \in Dates
    BY <2>2, <2>5
  <2>7. deadline[m] = AddFrequency(deadline[m - 1], frequency)
    BY <1>4, <2>3, <2>4
  <2> QED BY <2>3, <2>6, <2>7, FrequencyFacts
<1>6. DOMAIN written = 1..n /\ Len(written) = n
  <2> HIDE DEF row
  <2>1. written \in Seq({row(i) : i \in 1..n})
    BY <1>3
  <2> QED BY <1>3, <2>1
<1>7. \A i \in 1..n : /\ written[i].contributionDeadline = deadline[i]
                      /\ written[i].payoutDate = PlusDays(deadline[i], 1)
  BY <1>3
<1>8. \A i \in 1..(n - 1) : deadline[i + 1] = AddFrequency(deadline[i], frequency)
  <2> SUFFICES ASSUME NEW i \in 1..(n - 1)
               PROVE  deadline[i + 1] = AddFrequency(deadline[i], frequency)
    OBVIOUS
  <2>1. i + 1 \in 1..n /\ i + 1 # 1 /\ (i + 1) - 1 = i
    OBVIOUS
  <2> QED BY <1>4, <2>1
<1>9. \A i \in 1..(n - 1) : i \in 1..n /\ i + 1 \in 1..n
  OBVIOUS
<1>10. Follow(written, n, frequency)
  BY <1>5, <1>6, <1>7, <1>8, <1>9 DEF Follow
<1> QED BY <1>10 DEF written

\* Activation writes cycles that are in order.
LEMMA ActivateInOrder == ActivateDraft => CyclesInOrder'
<1> SUFFICES ASSUME NEW firstDeadline \in FirstDeadlines, NEW frequency \in Frequencies,
                    NEW order \in PayoutOrders(Rows, payoutLogic),
                    WriteSchedules(order, firstDeadline, frequency)
             PROVE  CyclesInOrder'
  BY DEF ActivateDraft
<1> DEFINE n == Len(Roster)
<1>1. n \in Nat
  BY RosterFacts
<1>2. firstDeadline \in Dates /\ schedules' = Schedules(order, n, firstDeadline, frequency)
  BY PayoutConfigAssumption DEF WriteSchedules
<1> HIDE DEF n
<1>w. PICK written : written = schedules'
  OBVIOUS
<1>3. Follow(written, n, frequency)
  BY <1>1, <1>2, <1>w, DeadlinesFollow, Zenon
<1>4. ASSUME NEW i \in 1..(n - 1)
      PROVE  /\ DayNumber(written[i].contributionDeadline) < DayNumber(written[i].payoutDate)
             /\ DayNumber(written[i].payoutDate)
                  < DayNumber(written[i + 1].contributionDeadline)
             /\ MonthNumber(written[i + 1].contributionDeadline)
                  <= MonthNumber(written[i].contributionDeadline) + 1
  <2>1. i \in 1..n
    BY <1>1
  <2>2. /\ written[i].contributionDeadline \in Dates
        /\ written[i].payoutDate = PlusDays(written[i].contributionDeadline, 1)
        /\ written[i + 1].contributionDeadline
             = AddFrequency(written[i].contributionDeadline, frequency)
    BY <1>3, <2>1 DEF Follow
  <2> QED BY <2>2, FrequencyFacts
<1> QED BY <1>3, <1>4, <1>w DEF Follow, CyclesInOrder, DayNumber, MonthNumber

\* Theorem: whatever the deadline the admin chose, the frequency and the lengths
\* of the months, every payout comes after its own deadline and before the next
\* cycle's, and no month is skipped.
THEOREM CyclesInOrderCorrect == DraftSpec => []CyclesInOrder
<1>1. ASSUME schedules = <<>> PROVE CyclesInOrder
  BY <1>1 DEF CyclesInOrder
<1>2. DraftInit => CyclesInOrder
  BY <1>1 DEF DraftInit
<1>3. CyclesInOrder /\ [DraftNext]_draftVars => CyclesInOrder'
  <2> SUFFICES ASSUME CyclesInOrder, [DraftNext]_draftVars PROVE CyclesInOrder'
    OBVIOUS
  <2>1. CASE UNCHANGED schedules
    BY <2>1 DEF CyclesInOrder, DayNumber, MonthNumber
  <2>2. CASE ActivateDraft
    BY <2>2, ActivateInOrder
  <2>3. CASE ConfigureDraft
    BY <2>1, <2>3 DEF ConfigureDraft, UpdatePayoutConfiguration
  <2> QED BY <2>1, <2>2, <2>3 DEF DraftNext, draftVars
<1> QED BY <1>2, <1>3, PTL DEF DraftSpec

-----------------------------------------------------------------------------
(* Type correctness.                                                       *)

Row == [status : MembershipStatuses \cup {"NONE"},
        position : Nat, collateral : Nat, released : BOOLEAN]

\* The statuses the handlers write are statuses.
LEMMA StatusFacts ==
    /\ {"DRAFT", "ACTIVE", "COMPLETED", "CANCELLED"} \subseteq CircleStatuses
    /\ {"PENDING", "ACTIVE", "REJECTED", "COMPLETED", "DEFAULTED"} \subseteq MembershipStatuses
    /\ "NONE" \notin MembershipStatuses
BY DEF CircleStatuses, MembershipStatuses

\* A user without a membership has the row NONE.
LEMMA NoRowType == NoRow \in Row
BY StatusFacts DEF NoRow, Row

\* A collateral is a whole number of kobo.
LEMMA CollateralType ==
    ASSUME TypeOK PROVE CalculateCollateral(circle.terms.contribution) \in Nat
<1>1. circle.terms.contribution \in Nat
  BY CircleAssumption DEF TypeOK
<1> QED BY <1>1 DEF CalculateCollateral

\* The active members can be counted.
LEMMA ActiveMembersFinite ==
    TypeOK => /\ ActiveMembers \subseteq Users /\ IsFiniteSet(ActiveMembers)
              /\ Cardinality(ActiveMembers) \in Nat
BY CircleAssumption, FS_Subset, FS_CardinalityType DEF ActiveMembers

\* Sorting the rows of distinct members gives each of the members one place.
LEMMA SortingKeepsMembers ==
    ASSUME NEW n \in Nat, NEW S, NEW q \in Injection(1..n, S), NEW logic,
           NEW input, AreMembers(input, n), \A i \in 1..n : input[i].user = q[i]
    PROVE  [k \in 1..n |-> Sorted(input, logic)[k].user] \in Injection(1..n, S)
<1> DEFINE sorted == Sorted(input, logic)
<1>1. PICK p \in Injection(1..n, 1..n) : \A k \in 1..n : sorted[k] = input[p[k]]
  BY SortedIsPermutation
<1>2. \A k \in 1..n : p[k] \in 1..n
  BY DEF Injection
<1> HIDE DEF sorted
<1>3. \A k \in 1..n : sorted[k].user = q[p[k]]
  BY <1>1, <1>2
<1> DEFINE order == [k \in 1..n |-> sorted[k].user]
<1>4. order \in [1..n -> S]
  BY <1>2, <1>3 DEF Injection
<1>5. \A k, l \in 1..n : order[k] = order[l] => k = l
  BY <1>2, <1>3 DEF Injection, IsInjective
<1>6. DOMAIN order = 1..n
  OBVIOUS
<1> HIDE DEF order
<1>7. order \in Injection(1..n, S)
  BY <1>4, <1>5, <1>6 DEF Injection, IsInjective
<1> QED BY <1>7 DEF order, sorted

\* What generateSchedules writes: the recipients are the active members, each
\* once, also when they are sorted by the positions that the admin assigned.
LEMMA SchedulesAreOrders ==
    ASSUME TypeOK, NEW order \in PayoutSequences
    PROVE  LET n == Cardinality(ActiveMembers)
           IN  order \in Injection(1..n, ActiveMembers) /\ order \in Surjection(1..n, ActiveMembers)
<1> DEFINE n == Cardinality(ActiveMembers)
           rows == {q \in [1..n -> ActiveMembers] : IsInjective(q)}
           row(u) == [user |-> u, joinedAt |-> 0, score |-> 0, position |-> member[u].position]
           sort(q) == Sorted([i \in 1..n |-> row(q[i])], circle.logic)
<1>1. n \in Nat /\ IsFiniteSet(ActiveMembers) /\ ActiveMembers \subseteq Users
  BY ActiveMembersFinite
<1>2. order \in rows \/ \E q \in rows : order = [k \in 1..n |-> sort(q)[k].user]
  BY DEF PayoutSequences
<1>3. order \in Injection(1..n, ActiveMembers)
  <2>1. CASE order \in rows
    BY <2>1 DEF Injection
  <2>2. CASE \E q \in rows : order = [k \in 1..n |-> sort(q)[k].user]
    <3>1. PICK q \in rows : order = [k \in 1..n |-> sort(q)[k].user]
      BY <2>2
    <3> DEFINE input == [i \in 1..n |-> row(q[i])]
    <3>2. AreMembers(input, n) /\ \A i \in 1..n : input[i].user = q[i]
      <4>1. \A u \in Users : member[u].position \in Nat
        BY DEF TypeOK
      <4>2. \A i \in 1..n : q[i] \in Users
        BY <1>1
      <4>3. \A i \in 1..n : /\ input[i].user = q[i]
                            /\ Keyed(input[i])
        BY <4>1, <4>2 DEF Keyed
      <4>4. DOMAIN input = 1..n
        OBVIOUS
      <4> HIDE DEF input, n
      <4> QED BY <4>3, <4>4 DEF AreMembers
    <3>3. q \in Injection(1..n, ActiveMembers)
      BY DEF Injection
    <3>4. order = [k \in 1..n |-> Sorted(input, circle.logic)[k].user]
      BY <3>1
    <3> HIDE DEF n, rows, input
    <3> QED BY <1>1, <3>2, <3>3, <3>4, SortingKeepsMembers
  <2> QED BY <1>2, <2>1, <2>2
<1>4. IsFiniteSet(1..n) /\ Cardinality(1..n) = n
  BY <1>1, FS_Interval
<1>5. order \in Surjection(1..n, ActiveMembers)
  BY <1>1, <1>3, <1>4, FS_Injection
<1> QED BY <1>3, <1>5

\* The position of a member is the place it has in the schedule.
LEMMA PlaceType ==
    ASSUME TypeOK, NEW order \in PayoutSequences, NEW u \in ActiveMembers
    PROVE  (CHOOSE k \in DOMAIN order : order[k] = u) \in Nat
<1> DEFINE n == Cardinality(ActiveMembers)
<1>1. n \in Nat
  BY ActiveMembersFinite
<1>2. DOMAIN order = 1..n /\ \E k \in 1..n : order[k] = u
  BY SchedulesAreOrders DEF Surjection
<1>3. \A k \in 1..n : k \in Nat
  OBVIOUS
<1> HIDE DEF n
<1> QED BY <1>2, <1>3

\* A new circle has its types.
LEMMA InitType == Init => TypeOK
<1> SUFFICES ASSUME Init PROVE TypeOK
  OBVIOUS
<1> DEFINE zero == 0
<1>1. PICK terms \in InitialTerms, logic \in Logics : circle = NewCircle(terms, logic)
  BY DEF Init
<1>2. circle = [status |-> "DRAFT", filled |-> zero, terms |-> terms, logic |-> logic]
  BY <1>1 DEF NewCircle
<1>3. zero \in Nat
  OBVIOUS
<1>4. circle \in [status : CircleStatuses, filled : Nat, terms : Terms, logic : Logics]
  <2> HIDE DEF zero
  <2> QED BY <1>2, <1>3, StatusFacts, CircleAssumption
<1>5. member \in [Users -> Row]
  BY NoRowType DEF Init
<1>6. reserved \in [Users -> Int]
  BY DEF Init, NoBuckets
<1>7. invite \in [Users -> {"none", "open", "used"}]
  BY DEF Init, NoInvites
<1>8. recipients = <<>> /\ tasks = {} /\ joins = 0 /\ rejected = {}
  BY DEF Init
<1>9. <<>> \in Seq(Users)
  OBVIOUS
<1> QED BY <1>4, <1>5, <1>6, <1>7, <1>8, <1>9 DEF TypeOK, Row

\* Handlers that read only add a task.
LEMMA StartType ==
    ASSUME TypeOK, NEW task, TaskOK(task), Start(task) PROVE TypeOK'
<1>1. \A t \in tasks' : TaskOK(t)
  BY DEF TypeOK, Start
<1>2. UNCHANGED <<circle, member, reserved, invite, recipients, joins, rejected>>
  BY DEF Start
<1> QED BY <1>1, <1>2 DEF TypeOK

\* The types of everything but the tasks.
RowsOK ==
    /\ circle \in [status : CircleStatuses, filled : Nat, terms : Terms, logic : Logics]
    /\ member \in [Users -> Row]
    /\ reserved \in [Users -> Int]
    /\ invite \in [Users -> {"none", "open", "used"}]
    /\ recipients \in Seq(Users)
    /\ joins \in Nat
    /\ rejected \subseteq Users

\* Type correctness is that of the rows and that of the tasks.
LEMMA TypeParts == TypeOK <=> RowsOK /\ \A t \in tasks : TaskOK(t)
BY DEF TypeOK, RowsOK, Row

\* Handlers that write only take tasks away.
LEMMA WriteType ==
    ASSUME TypeOK, RowsOK', tasks' \subseteq tasks PROVE TypeOK'
<1>1. \A t \in tasks' : TaskOK(t)
  BY DEF TypeOK
<1> QED BY <1>1 DEF TypeOK, RowsOK, Row

\* What the two tasks that make or number a membership carry.
LEMMA TaskFacts ==
    ASSUME NEW t, TaskOK(t)
    PROVE  /\ t.kind \in {"approve", "invite"} => t.user \in Users /\ t.filled \in Nat
           /\ t.kind = "invite" => t.collateral \in Nat
           /\ t.kind = "flag" => t.user \in Users
           /\ t.kind = "update" => t.edit \in Edits
           /\ t.kind = "config" =>
                 /\ t.logic \in NewLogics /\ DOMAIN t.writes \subseteq Users
                 /\ \A u \in DOMAIN t.writes : t.writes[u] \in Nat
BY DEF TaskOK

\* The positions that updatePayoutConfiguration writes are positions.
LEMMA ConfigureType ==
    ASSUME TypeOK, NEW logic \in NewLogics, NEW assigned \in Assignments,
           ConfigureRead(logic, assigned)
    PROVE  TypeOK'
<1> DEFINE position == [u \in Users |-> member[u].position]
<1>1. PICK holder \in PositionHolders(position, ActiveMembers) :
        Start([kind |-> "config", logic |-> logic,
               writes |-> AssignmentWrites(assigned, position, ActiveMembers, holder)])
  BY DEF ConfigureRead
<1> DEFINE writes == AssignmentWrites(assigned, position, ActiveMembers, holder)
           displacer(d) == {u \in DOMAIN assigned \cap ActiveMembers :
                               /\ assigned[u] \in DOMAIN holder
                               /\ holder[assigned[u]] = d /\ position[u] # 0}
           displaced == {d \in ActiveMembers \ DOMAIN assigned : displacer(d) # {}}
<1>2. \A u \in Users : position[u] \in Nat
  BY DEF TypeOK
<1>3. ActiveMembers \subseteq Users
  BY ActiveMembersFinite
<1>4. DOMAIN assigned \subseteq Users /\ \A u \in DOMAIN assigned : assigned[u] \in Nat
  BY CircleAssumption
<1>5. writes = [u \in DOMAIN assigned \cup displaced |->
                   IF u \in DOMAIN assigned THEN assigned[u]
                   ELSE position[CHOOSE a \in displacer(u) : TRUE]]
  BY DEF AssignmentWrites
<1>6. \A u \in displaced : (CHOOSE a \in displacer(u) : TRUE) \in Users
  <2>1. \A u \in displaced : displacer(u) # {} /\ displacer(u) \subseteq Users
    BY <1>3
  <2> HIDE DEF displacer, displaced
  <2> QED BY <2>1
<1>7. displaced \subseteq Users
  BY <1>3
<1>8. DOMAIN writes \subseteq Users /\ \A u \in DOMAIN writes : writes[u] \in Nat
  <2> HIDE DEF writes, displacer, displaced, position
  <2> QED BY <1>2, <1>4, <1>5, <1>6, <1>7
<1> HIDE DEF writes
<1>9. TaskOK([kind |-> "config", logic |-> logic, writes |-> writes])
  BY <1>8 DEF TaskOK
<1> QED BY <1>1, <1>9, StartType DEF writes

-----------------------------------------------------------------------------
\* What members and the admin's answers to them do keeps the types.
LEMMA MemberType ==
    ASSUME TypeOK, NEW u \in Users, MemberAction(u) PROVE TypeOK'
<1> USE TypeParts
<1> DEFINE zero == 0
           collateral == CalculateCollateral(circle.terms.contribution)
<1>a. collateral \in Nat /\ zero \in Nat
  BY CollateralType
<1>b. /\ WithoutMembership(u) \subseteq tasks
      /\ WithoutInvite(u) \subseteq tasks
  BY DEF WithoutMembership, WithoutInvite
<1>1. CASE RequestToJoin(u)
  <2>1. /\ reserved' = [reserved EXCEPT ![u] = @ + collateral]
        /\ member' = [member EXCEPT ![u] = [status |-> "PENDING", position |-> zero,
                            collateral |-> collateral, released |-> FALSE]]
        /\ joins' = joins + 1
        /\ UNCHANGED <<circle, invite, recipients, tasks, rejected>>
    BY <1>1 DEF RequestToJoin
  <2> HIDE DEF zero, collateral
  <2>2. [status |-> "PENDING", position |-> zero,
         collateral |-> collateral, released |-> FALSE] \in Row
    BY <1>a, StatusFacts DEF Row
  <2> QED BY <1>a, <2>1, <2>2, WriteType DEF RowsOK
<1>d. ASSUME DeleteMembership(u)
      PROVE  /\ member' \in [Users -> Row] /\ reserved' \in [Users -> Int]
             /\ tasks' \subseteq tasks
  <2>1. member[u].collateral \in Nat
    BY DEF RowsOK, Row
  <2> QED BY <1>b, <1>d, <2>1, NoRowType DEF DeleteMembership, RowsOK
<1>2. CASE LeaveCircle(u)
  <2>1. circle' \in [status : CircleStatuses, filled : Nat, terms : Terms, logic : Logics]
    <3> DEFINE less == circle.filled - 1
    <3>1. /\ circle' = IF member[u].status = "ACTIVE" THEN [circle EXCEPT !.filled = less]
                       ELSE circle
          /\ circle'.filled >= 0
      BY <1>2 DEF LeaveCircle
    <3>2. less \in Int
      BY DEF RowsOK
    <3> HIDE DEF less
    <3>3. [circle EXCEPT !.filled = less].filled = less
      BY DEF RowsOK
    <3>4. member[u].status = "ACTIVE" => less \in Nat
      BY <3>1, <3>2, <3>3
    <3> QED BY <3>1, <3>4 DEF RowsOK
  <2> QED BY <1>2, <1>d, <2>1, WriteType DEF LeaveCircle, RowsOK
<1>3. CASE CancelJoinRequest(u)
  BY <1>3, <1>d, WriteType DEF CancelJoinRequest, RowsOK
<1>4. CASE RejectMember(u)
  <2>1. member' \in [Users -> Row]
    BY <1>4, StatusFacts DEF RejectMember, RowsOK, Row
  <2>2. member[u].collateral \in Nat
    BY DEF RowsOK, Row
  <2> QED BY <1>4, <2>1, <2>2, WriteType DEF RejectMember, RowsOK
<1>5. CASE ApproveRead(u)
  <2>1. TaskOK([kind |-> "approve", user |-> u, filled |-> circle.filled])
    BY DEF TaskOK, RowsOK
  <2> QED BY <1>5, <2>1, StartType DEF ApproveRead
<1>6. CASE CreateInvite(u)
  <2>1. tasks' \subseteq tasks
    BY <1>6, <1>b DEF CreateInvite
  <2> QED BY <1>6, <2>1, WriteType DEF CreateInvite, RowsOK
<1>7. CASE RevokeInvite(u)
  <2>1. tasks' \subseteq tasks
    BY <1>7, <1>b DEF RevokeInvite
  <2> QED BY <1>7, <2>1, WriteType DEF RevokeInvite, RowsOK
<1>8. CASE JoinByInviteRead(u)
  <2> HIDE DEF collateral
  <2>1. TaskOK([kind |-> "invite", user |-> u, filled |-> circle.filled,
                collateral |-> collateral])
    BY <1>a DEF TaskOK, RowsOK
  <2> QED BY <1>8, <2>1, StartType DEF JoinByInviteRead, collateral
<1>9. CASE FlagMemberRead(u)
  <2>1. TaskOK([kind |-> "flag", user |-> u])
    BY DEF TaskOK
  <2> QED BY <1>9, <2>1, StartType DEF FlagMemberRead
<1> QED BY <1>1, <1>2, <1>3, <1>4, <1>5, <1>6, <1>7, <1>8, <1>9 DEF MemberAction

\* What tasks write keeps the types.
LEMMA TaskType ==
    ASSUME TypeOK, NEW t \in tasks, TaskStep(t) PROVE TypeOK'
<1> USE TypeParts
<1>a. TaskOK(t)
  OBVIOUS
<1>b. tasks \ {t} \subseteq tasks
  OBVIOUS
<1> DEFINE next == circle.filled + 1
<1>c. next \in Nat /\ [circle EXCEPT !.filled = next]
         \in [status : CircleStatuses, filled : Nat, terms : Terms, logic : Logics]
  <2>1. next \in Nat
    BY DEF RowsOK
  <2> HIDE DEF next
  <2> QED BY <2>1 DEF RowsOK
<1>1. CASE ApproveWrite(t)
  <2> DEFINE place == t.filled + 1
  <2>1. t.user \in Users /\ place \in Nat
    BY <1>1, <1>a, TaskFacts DEF ApproveWrite
  <2>2. /\ member' = [member EXCEPT ![t.user].status = "ACTIVE", ![t.user].position = place]
        /\ circle' = [circle EXCEPT !.filled = next]
        /\ Finish(t)
        /\ UNCHANGED <<reserved, invite, recipients, joins, rejected>>
    BY <1>1 DEF ApproveWrite
  <2> HIDE DEF place, next
  <2> DEFINE row == [member[t.user] EXCEPT !.status = "ACTIVE", !.position = place]
  <2>4. row \in Row
    <3>1. member[t.user] \in Row
      BY <2>1 DEF RowsOK
    <3> QED BY <2>1, <3>1, StatusFacts DEF Row
  <2>5. member' = [member EXCEPT ![t.user] = row]
    BY <2>1, <2>2 DEF RowsOK
  <2> HIDE DEF row
  <2>3. member' \in [Users -> Row]
    BY <2>1, <2>4, <2>5 DEF RowsOK
  <2> QED BY <1>b, <1>c, <2>2, <2>3, WriteType DEF RowsOK, Finish
<1>2. CASE JoinByInviteWrite(t)
  <2> DEFINE place == t.filled + 1
  <2>1. t.user \in Users /\ place \in Nat /\ t.collateral \in Nat
    BY <1>2, <1>a, TaskFacts DEF JoinByInviteWrite
  <2>2. /\ reserved' = [reserved EXCEPT ![t.user] = @ + t.collateral]
        /\ member' = [member EXCEPT ![t.user] = [status |-> "ACTIVE", position |-> place,
                            collateral |-> t.collateral, released |-> FALSE]]
        /\ circle' = [circle EXCEPT !.filled = next]
        /\ invite' = [invite EXCEPT ![t.user] = "used"]
        /\ joins' = joins + 1
        /\ Finish(t)
        /\ UNCHANGED <<recipients, rejected>>
    BY <1>2 DEF JoinByInviteWrite
  <2> HIDE DEF place, next
  <2>3. [status |-> "ACTIVE", position |-> place,
         collateral |-> t.collateral, released |-> FALSE] \in Row
    BY <2>1, StatusFacts DEF Row
  <2>4. member' \in [Users -> Row]
    BY <2>2, <2>3 DEF RowsOK
  <2>5. reserved' \in [Users -> Int] /\ joins' \in Nat
    BY <2>1, <2>2 DEF RowsOK
  <2>6. invite' \in [Users -> {"none", "open", "used"}]
    BY <2>2 DEF RowsOK
  <2> QED BY <1>b, <1>c, <2>2, <2>4, <2>5, <2>6, WriteType DEF RowsOK, Finish
<1>3. CASE ConfigureWrite(t)
  <2>1. /\ t.logic \in NewLogics /\ DOMAIN t.writes \subseteq Users
        /\ \A u \in DOMAIN t.writes : t.writes[u] \in Nat
    BY <1>3, <1>a, TaskFacts DEF ConfigureWrite
  <2>2. member' = [u \in Users |-> IF u \in DOMAIN t.writes
                                  THEN [member[u] EXCEPT !.position = t.writes[u]] ELSE member[u]]
    BY <1>3 DEF ConfigureWrite
  <2>3. \A u \in Users : member[u] \in Row
    BY DEF RowsOK
  <2>4. \A u \in DOMAIN t.writes : [member[u] EXCEPT !.position = t.writes[u]] \in Row
    BY <2>1, <2>3 DEF Row
  <2>5. member' \in [Users -> Row]
    BY <2>2, <2>3, <2>4
  <2>6. circle' \in [status : CircleStatuses, filled : Nat, terms : Terms, logic : Logics]
    BY <1>3, <2>1, CircleAssumption DEF ConfigureWrite, RowsOK
  <2> QED BY <1>3, <1>b, <2>5, <2>6, WriteType DEF ConfigureWrite, RowsOK, Finish
<1>4. CASE UpdateCircleWrite(t)
  <2>1. t.edit \in Terms
    BY <1>4, <1>a, TaskFacts, CircleAssumption DEF UpdateCircleWrite
  <2>2. RowsOK'
    BY <1>4, <1>b, <2>1 DEF UpdateCircleWrite, RowsOK
  <2> QED BY <1>4, <1>b, <2>2, WriteType DEF UpdateCircleWrite, Finish
<1>5. CASE CancelCircleWrite(t)
  BY <1>5, <1>b, StatusFacts, WriteType DEF CancelCircleWrite, RowsOK, Finish
<1>6. CASE FlagMemberWrite(t)
  <2>1. t.user \in Users
    BY <1>6, <1>a, TaskFacts DEF FlagMemberWrite
  <2>2. member' \in [Users -> Row]
    BY <1>6, <2>1, StatusFacts DEF FlagMemberWrite, RowsOK, Row
  <2> QED BY <1>6, <1>b, <2>2, WriteType DEF FlagMemberWrite, RowsOK, Finish
<1>7. CASE Abort(t)
  BY <1>7, <1>b, WriteType DEF Abort, RowsOK, Finish
<1> QED BY <1>1, <1>2, <1>3, <1>4, <1>5, <1>6, <1>7 DEF TaskStep

\* What activation writes of the members: their positions.
LEMMA ScheduleFacts ==
    ASSUME TypeOK, GenerateSchedules
    PROVE  /\ member' \in [Users -> Row]
           /\ \A u \in Users : /\ member'[u].status = member[u].status
                              /\ member'[u].collateral = member[u].collateral
                              /\ member'[u].released = member[u].released
           /\ LET n == Cardinality(ActiveMembers)
              IN  /\ recipients' \in Injection(1..n, ActiveMembers)
                  /\ recipients' \in Surjection(1..n, ActiveMembers)
<1>1. PICK order \in PayoutSequences :
        /\ recipients' = order
        /\ member' = [u \in Users |->
                IF u \in ActiveMembers
                THEN [member[u] EXCEPT !.position = CHOOSE k \in DOMAIN order : order[k] = u]
                ELSE member[u]]
  BY DEF GenerateSchedules
<1> DEFINE place(u) == CHOOSE k \in DOMAIN order : order[k] = u
<1>2. \A u \in ActiveMembers : place(u) \in Nat
  BY PlaceType
<1>3. \A u \in Users : member[u] \in Row
  BY DEF TypeOK, Row
<1>4. member' = [u \in Users |-> IF u \in ActiveMembers
                                THEN [member[u] EXCEPT !.position = place(u)] ELSE member[u]]
  BY <1>1
<1> HIDE DEF place
<1>5. ASSUME NEW u \in Users
      PROVE  /\ member'[u] \in Row
             /\ member'[u].status = member[u].status
             /\ member'[u].collateral = member[u].collateral
             /\ member'[u].released = member[u].released
  BY <1>2, <1>3, <1>4 DEF Row
<1>6. member' \in [Users -> Row]
  BY <1>4, <1>5
<1>7. /\ recipients' \in Injection(1..Cardinality(ActiveMembers), ActiveMembers)
      /\ recipients' \in Surjection(1..Cardinality(ActiveMembers), ActiveMembers)
  BY <1>1, SchedulesAreOrders
<1> QED BY <1>5, <1>6, <1>7

\* Activation keeps the types.
LEMMA ActivateType == TypeOK /\ ActivateCircle => TypeOK'
<1> SUFFICES ASSUME TypeOK, ActivateCircle PROVE TypeOK'
  OBVIOUS
<1>1. GenerateSchedules
  BY DEF ActivateCircle
<1> DEFINE n == Cardinality(ActiveMembers)
<1>2. n \in Nat /\ ActiveMembers \subseteq Users
  BY ActiveMembersFinite
<1>3. recipients' \in Seq(Users)
  <2>1. recipients' \in [1..n -> Users]
    BY <1>1, <1>2, ScheduleFacts DEF Injection
  <2> QED BY <1>2, <2>1
<1>4. circle' \in [status : CircleStatuses, filled : Nat, terms : Terms, logic : Logics]
  BY <1>1, StatusFacts DEF GenerateSchedules, TypeOK
<1>5. member' \in [Users -> Row]
  BY <1>1, ScheduleFacts
<1> QED BY <1>1, <1>3, <1>4, <1>5, TypeParts, WriteType DEF GenerateSchedules, RowsOK

\* The end of the circle keeps the types.
LEMMA FinalizeType == TypeOK /\ FinalizeCircle => TypeOK'
<1> SUFFICES ASSUME TypeOK, ReleaseCollateral PROVE TypeOK'
  BY DEF FinalizeCircle
<1> USE TypeParts
<1>1. \A u \in Users : member[u] \in Row /\ reserved[u] \in Int
  BY DEF RowsOK
<1>2. ASSUME NEW u \in Users
      PROVE  /\ reserved[u] - member[u].collateral \in Int
             /\ [member[u] EXCEPT !.released = TRUE, !.status = "COMPLETED"] \in Row
  <2>1. reserved[u] - member[u].collateral \in Int
    BY <1>1 DEF Row
  <2>2. [member[u] EXCEPT !.released = TRUE, !.status = "COMPLETED"] \in Row
    BY <1>1, StatusFacts DEF Row
  <2> QED BY <2>1, <2>2
<1> DEFINE unreleased == {u \in Users : Exists(u) /\ ~member[u].released}
<1>3. /\ reserved' = [u \in Users |->
                IF u \in unreleased THEN reserved[u] - member[u].collateral ELSE reserved[u]]
      /\ member' = [u \in Users |->
                IF u \in unreleased
                THEN [member[u] EXCEPT !.released = TRUE, !.status = "COMPLETED"]
                ELSE member[u]]
  BY DEF ReleaseCollateral
<1> HIDE DEF unreleased
<1>4. member' \in [Users -> Row] /\ reserved' \in [Users -> Int]
  BY <1>1, <1>2, <1>3
<1>5. circle' \in [status : CircleStatuses, filled : Nat, terms : Terms, logic : Logics]
  BY StatusFacts DEF ReleaseCollateral, RowsOK
<1> QED BY <1>4, <1>5, WriteType DEF ReleaseCollateral, RowsOK

\* Every step keeps the types.
LEMMA NextType == TypeOK /\ [Next]_vars => TypeOK'
<1> SUFFICES ASSUME TypeOK, [Next]_vars PROVE TypeOK'
  OBVIOUS
<1>1. ASSUME NEW edit \in Edits, UpdateCircleRead(edit) PROVE TypeOK'
  <2>1. TaskOK([kind |-> "update", edit |-> edit])
    BY DEF TaskOK
  <2> QED BY <1>1, <2>1, StartType DEF UpdateCircleRead
<1>2. CASE CancelCircleRead
  <2>1. TaskOK([kind |-> "cancel"])
    BY DEF TaskOK
  <2> QED BY <1>2, <2>1, StartType DEF CancelCircleRead
<1>3. CASE UNCHANGED vars
  BY <1>3 DEF vars, TypeOK
<1> QED BY <1>1, <1>2, <1>3, MemberType, TaskType, ConfigureType, ActivateType, FinalizeType
        DEF Next

\* Theorem: every reachable state has its types; the positions that activation
\* writes are numbers because the sorter loses nobody.
THEOREM TypeCorrect == Spec => []TypeOK
<1>1. Init => TypeOK
  BY InitType
<1>2. TypeOK /\ [Next]_vars => TypeOK'
  BY NextType
<1> QED BY <1>1, <1>2, PTL DEF Spec

-----------------------------------------------------------------------------
(* Slots.                                                                  *)

\* What a step may do to the slots: nobody becomes active uncounted.
LEMMA NobodyNew ==
    ASSUME TypeOK, SlotsCoverMembers, ActiveMembers' \subseteq ActiveMembers,
           circle'.filled = circle.filled
    PROVE  SlotsCoverMembers'
<1>1. /\ Cardinality(ActiveMembers') <= Cardinality(ActiveMembers)
      /\ Cardinality(ActiveMembers') \in Nat /\ Cardinality(ActiveMembers) \in Nat
  BY ActiveMembersFinite, FS_Subset, FS_CardinalityType
<1> QED BY <1>1 DEF SlotsCoverMembers, TypeOK

\* Whoever becomes active is counted.
LEMMA OneCounted ==
    ASSUME TypeOK, SlotsCoverMembers, NEW u, ActiveMembers' \subseteq ActiveMembers \cup {u},
           circle'.filled = circle.filled + 1
    PROVE  SlotsCoverMembers'
<1>1. /\ IsFiniteSet(ActiveMembers \cup {u})
      /\ Cardinality(ActiveMembers \cup {u}) <= Cardinality(ActiveMembers) + 1
      /\ Cardinality(ActiveMembers) \in Nat
  <2>1. IsFiniteSet(ActiveMembers) /\ Cardinality(ActiveMembers) \in Nat
    BY ActiveMembersFinite
  <2>2. /\ IsFiniteSet(ActiveMembers \cup {u})
        /\ Cardinality(ActiveMembers \cup {u})
             = IF u \in ActiveMembers THEN Cardinality(ActiveMembers)
               ELSE Cardinality(ActiveMembers) + 1
    BY <2>1, FS_AddElement
  <2> QED BY <2>1, <2>2
<1>2. /\ Cardinality(ActiveMembers') <= Cardinality(ActiveMembers \cup {u})
      /\ Cardinality(ActiveMembers') \in Nat /\ Cardinality(ActiveMembers \cup {u}) \in Nat
  BY <1>1, FS_Subset, FS_CardinalityType
<1> QED BY <1>1, <1>2 DEF SlotsCoverMembers, TypeOK

\* Every step keeps the active members counted.
LEMMA SlotsStep == TypeOK /\ SlotsCoverMembers /\ [Next]_vars => SlotsCoverMembers'
<1> SUFFICES ASSUME TypeOK, SlotsCoverMembers, [Next]_vars PROVE SlotsCoverMembers'
  OBVIOUS
<1>a. \A u \in Users : member[u] \in Row
  BY DEF TypeOK, Row
<1>b. \A t \in tasks : TaskOK(t)
  BY DEF TypeOK
<1>1. ASSUME NEW u \in Users, RequestToJoin(u) PROVE SlotsCoverMembers'
  <2>1. ActiveMembers' \subseteq ActiveMembers
    BY <1>1 DEF RequestToJoin, ActiveMembers, TypeOK
  <2> QED BY <1>1, <2>1, NobodyNew DEF RequestToJoin
<1>c. ASSUME NEW u \in Users, DeleteMembership(u) PROVE ActiveMembers' = ActiveMembers \ {u}
  BY <1>c DEF DeleteMembership, ActiveMembers, TypeOK, NoRow
<1>2. ASSUME NEW u \in Users, LeaveCircle(u) PROVE SlotsCoverMembers'
  <2>1. ActiveMembers' = ActiveMembers \ {u}
    BY <1>2, <1>c DEF LeaveCircle
  <2>2. CASE member[u].status = "ACTIVE"
    <3>1. u \in ActiveMembers
      BY <2>2 DEF ActiveMembers
    <3>2. Cardinality(ActiveMembers') = Cardinality(ActiveMembers) - 1
      BY <2>1, <3>1, ActiveMembersFinite, FS_RemoveElement
    <3>3. circle'.filled = circle.filled - 1
      BY <1>2, <2>2 DEF LeaveCircle, TypeOK
    <3> QED BY <3>2, <3>3, ActiveMembersFinite DEF SlotsCoverMembers, TypeOK
  <2>3. CASE member[u].status # "ACTIVE"
    BY <1>2, <2>1, <2>3, NobodyNew DEF LeaveCircle
  <2> QED BY <2>2, <2>3
<1>3. ASSUME NEW u \in Users, CancelJoinRequest(u) PROVE SlotsCoverMembers'
  BY <1>3, <1>c, NobodyNew DEF CancelJoinRequest
<1>4. ASSUME NEW u \in Users, RejectMember(u) PROVE SlotsCoverMembers'
  <2>1. ActiveMembers' \subseteq ActiveMembers
    BY <1>4 DEF RejectMember, ActiveMembers, TypeOK
  <2> QED BY <1>4, <2>1, NobodyNew DEF RejectMember
<1>d. ASSUME UNCHANGED <<circle, member>> PROVE SlotsCoverMembers'
  <2>1. ActiveMembers' = ActiveMembers
    BY <1>d DEF ActiveMembers
  <2> QED BY <1>d, <2>1, NobodyNew
<1>5. ASSUME NEW u \in Users, MemberAction(u) PROVE SlotsCoverMembers'
  BY <1>1, <1>2, <1>3, <1>4, <1>5, <1>d
     DEF MemberAction, ApproveRead, CreateInvite, RevokeInvite, JoinByInviteRead, FlagMemberRead,
         Start
<1>6. ASSUME NEW t \in tasks, ApproveWrite(t) PROVE SlotsCoverMembers'
  <2>1. t.user \in Users
    BY <1>6, <1>b, TaskFacts DEF ApproveWrite
  <2>2. ActiveMembers' \subseteq ActiveMembers \cup {t.user}
    BY <1>6, <2>1 DEF ApproveWrite, ActiveMembers, TypeOK
  <2>3. circle'.filled = circle.filled + 1
    BY <1>6 DEF ApproveWrite, TypeOK
  <2> QED BY <2>2, <2>3, OneCounted
<1>7. ASSUME NEW t \in tasks, JoinByInviteWrite(t) PROVE SlotsCoverMembers'
  <2>1. t.user \in Users
    BY <1>7, <1>b, TaskFacts DEF JoinByInviteWrite
  <2>2. ActiveMembers' \subseteq ActiveMembers \cup {t.user}
    BY <1>7, <2>1 DEF JoinByInviteWrite, ActiveMembers, TypeOK
  <2>3. circle'.filled = circle.filled + 1
    BY <1>7 DEF JoinByInviteWrite, TypeOK
  <2> QED BY <2>2, <2>3, OneCounted
<1>8. ASSUME NEW t \in tasks, ConfigureWrite(t) PROVE SlotsCoverMembers'
  <2>1. \A u \in Users : member'[u].status = member[u].status
    BY <1>8, <1>a DEF ConfigureWrite, Row
  <2>2. ActiveMembers' = ActiveMembers
    BY <2>1 DEF ActiveMembers
  <2>3. circle'.filled = circle.filled
    BY <1>8 DEF ConfigureWrite, TypeOK
  <2> QED BY <2>2, <2>3, NobodyNew
<1>e. ASSUME UNCHANGED member, circle'.filled = circle.filled PROVE SlotsCoverMembers'
  <2>1. ActiveMembers' = ActiveMembers
    BY <1>e DEF ActiveMembers
  <2> QED BY <1>e, <2>1, NobodyNew
<1>9. ASSUME NEW t \in tasks, UpdateCircleWrite(t) PROVE SlotsCoverMembers'
  BY <1>9, <1>e DEF UpdateCircleWrite, TypeOK
<1>10. ASSUME NEW t \in tasks, CancelCircleWrite(t) PROVE SlotsCoverMembers'
  BY <1>10, <1>e DEF CancelCircleWrite, TypeOK
<1>11. ASSUME NEW t \in tasks, FlagMemberWrite(t) PROVE SlotsCoverMembers'
  <2>1. t.user \in Users
    BY <1>11, <1>b, TaskFacts DEF FlagMemberWrite
  <2>2. ActiveMembers' \subseteq ActiveMembers
    BY <1>11, <2>1 DEF FlagMemberWrite, ActiveMembers, TypeOK
  <2> QED BY <1>11, <2>2, NobodyNew DEF FlagMemberWrite
<1>12. ASSUME NEW t \in tasks, TaskStep(t) PROVE SlotsCoverMembers'
  BY <1>6, <1>7, <1>8, <1>9, <1>10, <1>11, <1>12, <1>d DEF TaskStep, Abort
<1>13. CASE ActivateCircle
  <2>1. \A u \in Users : member'[u].status = member[u].status
    BY <1>13, ScheduleFacts DEF ActivateCircle
  <2>2. ActiveMembers' = ActiveMembers
    BY <2>1 DEF ActiveMembers
  <2>3. circle'.filled = circle.filled
    BY <1>13 DEF ActivateCircle, GenerateSchedules, TypeOK
  <2> QED BY <2>2, <2>3, NobodyNew
<1>14. CASE FinalizeCircle
  <2>1. ActiveMembers' \subseteq ActiveMembers
    BY <1>14, <1>a DEF FinalizeCircle, ReleaseCollateral, ActiveMembers, Row
  <2>2. circle'.filled = circle.filled
    BY <1>14 DEF FinalizeCircle, ReleaseCollateral, TypeOK
  <2> QED BY <2>1, <2>2, NobodyNew
<1> QED BY <1>5, <1>12, <1>13, <1>14, <1>d
        DEF Next, ConfigureRead, UpdateCircleRead, CancelCircleRead, Start, vars

\* Theorem: however joins, approvals, invites, leavers and flags interleave,
\* filledSlots counts at least the active members.
THEOREM SlotsCorrect == Spec => []SlotsCoverMembers
<1>1. Init => SlotsCoverMembers
  <2> SUFFICES ASSUME Init PROVE SlotsCoverMembers
    OBVIOUS
  <2>1. ActiveMembers = {}
    BY DEF Init, ActiveMembers, NoRow
  <2>2. circle.filled = 0
    BY DEF Init, NewCircle
  <2> QED BY <2>1, <2>2, FS_EmptySet DEF SlotsCoverMembers
<1>2. TypeOK /\ SlotsCoverMembers /\ [Next]_vars => SlotsCoverMembers'
  BY SlotsStep
<1> QED BY <1>1, <1>2, TypeCorrect, PTL DEF Spec

-----------------------------------------------------------------------------
(* Collateral.                                                             *)

Owed(u) == IF member[u].released THEN 0 ELSE member[u].collateral

Held(u) == reserved[u] = Owed(u) \/ (u \in rejected /\ reserved[u] < Owed(u))

\* Without a membership nothing is owed.
NothingWithoutRow(u) == ~Exists(u) => member[u].collateral = 0 /\ ~member[u].released

\* A request holds collateral until it is decided.
PendingHolds(u) == member[u].status = "PENDING" => member[u].collateral > 0 /\ ~member[u].released

\* No collateral is released before the circle is over.
DraftHolds(u) == circle.status = "DRAFT" => ~member[u].released

MemberInv(u) == Held(u) /\ NothingWithoutRow(u) /\ PendingHolds(u) /\ DraftHolds(u)

\* The invariant behind CollateralIsHeld: what a release takes from the bucket
\* is still there unless it was released by a rejection.
CollateralInv == \A u \in Users : MemberInv(u)

\* A step that leaves a member's row and bucket alone leaves its invariant.
LEMMA OthersHold ==
    ASSUME NEW u \in Users, MemberInv(u),
           member'[u].status = member[u].status, member'[u].collateral = member[u].collateral,
           member'[u].released = member[u].released, reserved'[u] = reserved[u],
           rejected \subseteq rejected', circle'.status = "DRAFT" => circle.status = "DRAFT"
    PROVE  MemberInv(u)'
BY DEF MemberInv, Held, Owed, NothingWithoutRow, PendingHolds, DraftHolds, Exists

\* So does one that only decides a membership.
LEMMA DecidedHolds ==
    ASSUME NEW u \in Users, MemberInv(u),
           member'[u].status \in MembershipStatuses \ {"PENDING"},
           member'[u].collateral = member[u].collateral,
           member'[u].released = member[u].released, reserved'[u] = reserved[u],
           rejected \subseteq rejected', circle'.status = "DRAFT" => circle.status = "DRAFT"
    PROVE  MemberInv(u)'
BY DEF MemberInv, Held, Owed, NothingWithoutRow, PendingHolds, DraftHolds, Exists

\* Deleting a membership gives back what it held.
LEMMA DeletedHolds ==
    ASSUME TypeOK, NEW u \in Users, MemberInv(u), DeleteMembership(u), ~member[u].released,
           UNCHANGED rejected
    PROVE  MemberInv(u)'
<1>1. /\ member'[u].status = "NONE" /\ member'[u].collateral = 0 /\ member'[u].released = FALSE
      /\ reserved'[u] = reserved[u] - member[u].collateral
  BY DEF DeleteMembership, NoRow, TypeOK
<1>2. reserved[u] \in Int /\ member[u].collateral \in Int
  BY DEF TypeOK
<1> QED BY <1>1, <1>2, StatusFacts
        DEF MemberInv, Held, Owed, NothingWithoutRow, PendingHolds, DraftHolds, Exists

\* A new circle holds nothing.
LEMMA CollateralInit == Init => CollateralInv
<1> SUFFICES ASSUME Init, NEW u \in Users PROVE MemberInv(u)
  BY DEF CollateralInv
<1>1. /\ member[u].status = "NONE" /\ member[u].collateral = 0 /\ member[u].released = FALSE
      /\ reserved[u] = 0
  BY DEF Init, NoRow, NoBuckets
<1> QED BY <1>1 DEF MemberInv, Held, Owed, NothingWithoutRow, PendingHolds, DraftHolds

\* Every step keeps the invariant of every member.
LEMMA CollateralStep == TypeOK /\ CollateralInv /\ [Next]_vars => CollateralInv'
<1> SUFFICES ASSUME TypeOK, CollateralInv, [Next]_vars, NEW v \in Users PROVE MemberInv(v)'
  BY DEF CollateralInv
<1>a. MemberInv(v) /\ member[v] \in Row /\ reserved[v] \in Int
  BY DEF CollateralInv, TypeOK, Row
<1>b. \A t \in tasks : TaskOK(t)
  BY DEF TypeOK
<1>c. ASSUME UNCHANGED <<member, reserved, rejected>>,
             circle'.status = "DRAFT" => circle.status = "DRAFT"
      PROVE  MemberInv(v)'
  BY <1>a, <1>c, OthersHold
<1>1. ASSUME NEW u \in Users, RequestToJoin(u) PROVE MemberInv(v)'
  <2> DEFINE collateral == CalculateCollateral(circle.terms.contribution)
  <2>1. /\ collateral > 0 /\ ~Exists(u) /\ UNCHANGED <<circle, rejected>>
        /\ reserved' = [reserved EXCEPT ![u] = @ + collateral]
        /\ member' = [member EXCEPT ![u] = [status |-> "PENDING", position |-> 0,
                            collateral |-> collateral, released |-> FALSE]]
    BY <1>1 DEF RequestToJoin
  <2>2. collateral \in Nat
    BY CollateralType
  <2> HIDE DEF collateral
  <2>3. CASE v # u
    BY <1>a, <2>1, <2>3, OthersHold DEF TypeOK
  <2>4. CASE v = u
    <3>1. /\ member'[v].status = "PENDING" /\ member'[v].collateral = collateral
          /\ member'[v].released = FALSE
          /\ reserved'[v] = reserved[v] + collateral
      BY <2>1, <2>4 DEF TypeOK
    <3>2. /\ reserved[v] = 0 \/ (v \in rejected /\ reserved[v] < 0)
      BY <1>a, <2>1, <2>4 DEF MemberInv, Held, Owed, NothingWithoutRow
    <3> QED BY <1>a, <2>1, <2>2, <3>1, <3>2, StatusFacts
            DEF MemberInv, Held, Owed, NothingWithoutRow, PendingHolds, DraftHolds, Exists
  <2> QED BY <2>3, <2>4
<1>d. ASSUME NEW u \in Users, u # v, DeleteMembership(u), UNCHANGED rejected,
             circle'.status = circle.status
      PROVE  MemberInv(v)'
  BY <1>a, <1>d, OthersHold DEF DeleteMembership, TypeOK
<1>2. ASSUME NEW u \in Users, LeaveCircle(u) PROVE MemberInv(v)'
  <2>1. circle'.status = circle.status
    BY <1>2 DEF LeaveCircle, TypeOK
  <2>2. u = v => ~member[v].released
    BY <1>2, <1>a DEF LeaveCircle, MemberInv, DraftHolds
  <2> QED BY <1>2, <1>a, <1>d, <2>1, <2>2, DeletedHolds DEF LeaveCircle
<1>3. ASSUME NEW u \in Users, CancelJoinRequest(u) PROVE MemberInv(v)'
  <2>1. u = v => ~member[v].released
    BY <1>3, <1>a DEF CancelJoinRequest, MemberInv, PendingHolds
  <2> QED BY <1>3, <1>a, <1>d, <2>1, DeletedHolds DEF CancelJoinRequest
<1>4. ASSUME NEW u \in Users, RejectMember(u) PROVE MemberInv(v)'
  <2>1. CASE v # u
    BY <1>4, <1>a, <2>1, OthersHold DEF RejectMember, TypeOK
  <2>2. CASE v = u
    <3>1. /\ member'[v].status = "REJECTED" /\ member'[v].collateral = member[v].collateral
          /\ member'[v].released = member[v].released
          /\ reserved'[v] = reserved[v] - member[v].collateral
          /\ v \in rejected' /\ UNCHANGED circle
      BY <1>4, <2>2 DEF RejectMember, TypeOK
    <3>2. member[v].collateral \in Nat /\ member[v].collateral > 0 /\ ~member[v].released
      BY <1>4, <1>a, <2>2 DEF RejectMember, MemberInv, PendingHolds, Row
    <3> QED BY <1>a, <3>1, <3>2, StatusFacts
            DEF MemberInv, Held, Owed, NothingWithoutRow, PendingHolds, DraftHolds, Exists
  <2> QED BY <2>1, <2>2
<1>5. ASSUME NEW u \in Users, MemberAction(u) PROVE MemberInv(v)'
  BY <1>1, <1>2, <1>3, <1>4, <1>5, <1>c
     DEF MemberAction, ApproveRead, CreateInvite, RevokeInvite, JoinByInviteRead, FlagMemberRead,
         Start
<1>6. ASSUME NEW t \in tasks, ApproveWrite(t) PROVE MemberInv(v)'
  <2>1. circle'.status = circle.status /\ UNCHANGED <<reserved, rejected>>
    BY <1>6 DEF ApproveWrite, TypeOK
  <2>2. CASE v # t.user
    BY <1>6, <1>a, <2>1, <2>2, OthersHold DEF ApproveWrite, TypeOK
  <2>3. CASE v = t.user
    <3>1. /\ member'[v].status = "ACTIVE" /\ member'[v].collateral = member[v].collateral
          /\ member'[v].released = member[v].released
      BY <1>6, <2>3 DEF ApproveWrite, TypeOK
    <3> QED BY <1>a, <2>1, <3>1, StatusFacts, DecidedHolds
  <2> QED BY <2>2, <2>3
<1>7. ASSUME NEW t \in tasks, JoinByInviteWrite(t) PROVE MemberInv(v)'
  <2>1. /\ circle'.status = circle.status /\ UNCHANGED rejected
        /\ t.user \in Users /\ t.collateral \in Nat
    BY <1>7, <1>b, TaskFacts DEF JoinByInviteWrite, TypeOK
  <2>2. CASE v # t.user
    BY <1>7, <1>a, <2>1, <2>2, OthersHold DEF JoinByInviteWrite, TypeOK
  <2>3. CASE v = t.user
    <3>1. /\ member'[v].status = "ACTIVE" /\ member'[v].collateral = t.collateral
          /\ member'[v].released = FALSE
          /\ reserved'[v] = reserved[v] + t.collateral
      BY <1>7, <2>3 DEF JoinByInviteWrite, TypeOK
    <3>2. reserved[v] = 0 \/ (v \in rejected /\ reserved[v] < 0)
      BY <1>a, <1>7, <2>3 DEF JoinByInviteWrite, MemberInv, Held, Owed, NothingWithoutRow
    <3> QED BY <1>a, <2>1, <3>1, <3>2, StatusFacts
            DEF MemberInv, Held, Owed, NothingWithoutRow, PendingHolds, DraftHolds, Exists
  <2> QED BY <2>2, <2>3
<1>8. ASSUME NEW t \in tasks, ConfigureWrite(t) PROVE MemberInv(v)'
  <2>1. /\ member'[v].status = member[v].status /\ member'[v].collateral = member[v].collateral
        /\ member'[v].released = member[v].released
    BY <1>8, <1>a DEF ConfigureWrite, Row
  <2>2. circle'.status = circle.status /\ UNCHANGED <<reserved, rejected>>
    BY <1>8 DEF ConfigureWrite, TypeOK
  <2> QED BY <1>a, <2>1, <2>2, OthersHold
<1>9. ASSUME NEW t \in tasks, UpdateCircleWrite(t) PROVE MemberInv(v)'
  BY <1>9, <1>c DEF UpdateCircleWrite, TypeOK
<1>10. ASSUME NEW t \in tasks, CancelCircleWrite(t) PROVE MemberInv(v)'
  BY <1>10, <1>c DEF CancelCircleWrite, TypeOK
<1>11. ASSUME NEW t \in tasks, FlagMemberWrite(t) PROVE MemberInv(v)'
  <2>1. UNCHANGED <<circle, reserved, rejected>>
    BY <1>11 DEF FlagMemberWrite
  <2>2. CASE v # t.user
    BY <1>11, <1>a, <2>1, <2>2, OthersHold DEF FlagMemberWrite, TypeOK
  <2>3. CASE v = t.user
    <3>1. /\ member'[v].status = "DEFAULTED" /\ member'[v].collateral = member[v].collateral
          /\ member'[v].released = member[v].released
      BY <1>11, <2>3 DEF FlagMemberWrite, TypeOK
    <3> QED BY <1>a, <2>1, <3>1, StatusFacts, DecidedHolds
  <2> QED BY <2>2, <2>3
<1>12. ASSUME NEW t \in tasks, TaskStep(t) PROVE MemberInv(v)'
  BY <1>6, <1>7, <1>8, <1>9, <1>10, <1>11, <1>12, <1>c DEF TaskStep, Abort
<1>13. CASE ActivateCircle
  <2>1. /\ member'[v].status = member[v].status /\ member'[v].collateral = member[v].collateral
        /\ member'[v].released = member[v].released
    BY <1>13, ScheduleFacts DEF ActivateCircle
  <2>2. circle.status = "DRAFT" /\ UNCHANGED <<reserved, rejected>>
    BY <1>13 DEF ActivateCircle, GenerateSchedules
  <2> QED BY <1>a, <2>1, <2>2, OthersHold
<1>14. CASE FinalizeCircle
  <2>1. circle'.status = "COMPLETED" /\ UNCHANGED rejected
    BY <1>14 DEF FinalizeCircle, ReleaseCollateral, TypeOK
  <2>2. CASE Exists(v) /\ ~member[v].released
    <3>1. /\ member'[v].status = "COMPLETED" /\ member'[v].collateral = member[v].collateral
          /\ member'[v].released = TRUE
          /\ reserved'[v] = reserved[v] - member[v].collateral
      BY <1>14, <1>a, <2>2 DEF FinalizeCircle, ReleaseCollateral, Row
    <3>2. member[v].collateral \in Nat
      BY <1>a DEF Row
    <3> QED BY <1>a, <2>1, <2>2, <3>1, <3>2, StatusFacts
            DEF MemberInv, Held, Owed, NothingWithoutRow, PendingHolds, DraftHolds, Exists
  <2>3. CASE ~(Exists(v) /\ ~member[v].released)
    <3>1. member'[v] = member[v] /\ reserved'[v] = reserved[v]
      BY <1>14, <2>3 DEF FinalizeCircle, ReleaseCollateral
    <3> QED BY <1>a, <2>1, <3>1, OthersHold
  <2> QED BY <2>2, <2>3
<1> QED BY <1>5, <1>12, <1>13, <1>14, <1>c
        DEF Next, ConfigureRead, UpdateCircleRead, CancelCircleRead, Start, vars

\* Theorem: a member's bucket holds what its membership recorded until that is
\* released, unless a rejection released it before.
THEOREM CollateralCorrect == Spec => []CollateralIsHeld
<1>1. Init => CollateralInv
  BY CollateralInit
<1>2. TypeOK /\ CollateralInv /\ [Next]_vars => CollateralInv'
  BY CollateralStep
<1>3. CollateralInv => CollateralIsHeld
  BY DEF CollateralInv, MemberInv, Held, Owed, CollateralIsHeld
<1> QED BY <1>1, <1>2, <1>3, TypeCorrect, PTL DEF Spec

-----------------------------------------------------------------------------
(* Action properties.                                                      *)

\* Theorem: nothing revives a cancelled circle, not even a handler that read it
\* before.
THEOREM CancelledCorrect == Spec => CancelledIsFinal
<1>1. ASSUME TypeOK, [Next]_vars, circle.status = "CANCELLED" PROVE circle'.status = "CANCELLED"
  <2>1. CASE UNCHANGED circle
    BY <1>1, <2>1
  <2>2. ASSUME NEW u \in Users, MemberAction(u) PROVE UNCHANGED circle
    BY <1>1, <2>2 DEF MemberAction, RequestToJoin, LeaveCircle, CancelJoinRequest, RejectMember,
                      ApproveRead, CreateInvite, RevokeInvite, JoinByInviteRead, FlagMemberRead,
                      Start
  <2>3. ASSUME NEW t \in tasks, TaskStep(t) PROVE circle'.status = "CANCELLED"
    BY <1>1, <2>3 DEF TaskStep, ApproveWrite, JoinByInviteWrite, ConfigureWrite,
                      UpdateCircleWrite, CancelCircleWrite, FlagMemberWrite, Abort, TypeOK
  <2> QED BY <1>1, <2>1, <2>2, <2>3
          DEF Next, ConfigureRead, UpdateCircleRead, ActivateCircle, FinalizeCircle,
              CancelCircleRead, Start, vars
<1>2. TypeOK /\ [Next]_vars => (circle.status = "CANCELLED" => circle'.status = "CANCELLED")
  BY <1>1
<1> QED BY <1>2, TypeCorrect, PTL DEF Spec, CancelledIsFinal

\* Only activateCircle activates a circle.
LEMMA OnlyActivation ==
    ASSUME TypeOK, [Next]_vars, circle.status = "DRAFT", circle'.status = "ACTIVE"
    PROVE  ActivateCircle
<1>1. ASSUME NEW u \in Users, MemberAction(u) PROVE circle'.status = circle.status
  BY <1>1 DEF MemberAction, RequestToJoin, LeaveCircle, CancelJoinRequest, RejectMember,
              ApproveRead, CreateInvite, RevokeInvite, JoinByInviteRead, FlagMemberRead,
              Start, TypeOK
<1>2. ASSUME NEW t \in tasks, TaskStep(t) PROVE circle'.status \in {circle.status, "CANCELLED"}
  BY <1>2 DEF TaskStep, ApproveWrite, JoinByInviteWrite, ConfigureWrite, UpdateCircleWrite,
              CancelCircleWrite, FlagMemberWrite, Abort, TypeOK
<1> QED BY <1>1, <1>2
        DEF Next, ConfigureRead, UpdateCircleRead, FinalizeCircle, CancelCircleRead, Start, vars

\* Theorem: the schedule of an activated circle is the members that were active
\* then, each once, whichever order the logic and the admin gave them, and
\* filledSlots is its length.
THEOREM ActivationCorrect == Spec => ActivationCountsMembers
<1> DEFINE Counted == /\ Len(recipients') = circle'.filled
                      /\ IsInjective(recipients')
                      /\ {recipients'[i] : i \in DOMAIN recipients'}
                           = {u \in Users : member'[u].status = "ACTIVE"}
<1>1. ASSUME TypeOK, [Next]_vars, circle.status = "DRAFT", circle'.status = "ACTIVE"
      PROVE  Counted
  <2>1. ActivateCircle
    BY <1>1, OnlyActivation
  <2>2. GenerateSchedules /\ circle.filled = Cardinality(ActiveMembers)
    BY <2>1 DEF ActivateCircle
  <2>3. circle'.filled = circle.filled
    BY <1>1, <2>2 DEF GenerateSchedules, TypeOK
  <2> DEFINE n == Cardinality(ActiveMembers)
  <2>4. n \in Nat /\ ActiveMembers \subseteq Users
    BY <1>1, ActiveMembersFinite
  <2>5. /\ recipients' \in Injection(1..n, ActiveMembers)
        /\ recipients' \in Surjection(1..n, ActiveMembers)
    BY <1>1, <2>2, ScheduleFacts
  <2>6. {u \in Users : member'[u].status = "ACTIVE"} = ActiveMembers
    BY <1>1, <2>2, ScheduleFacts DEF ActiveMembers
  <2> HIDE DEF n
  <2>7. DOMAIN recipients' = 1..n /\ recipients' \in Seq(ActiveMembers)
    BY <2>4, <2>5 DEF Injection
  <2>8. Len(recipients') = n
    BY <2>4, <2>7
  <2>9. IsInjective(recipients')
    BY <2>5 DEF Injection
  <2>10. {recipients'[i] : i \in DOMAIN recipients'} = ActiveMembers
    BY <2>5, <2>7 DEF Surjection
  <2> QED BY <2>2, <2>3, <2>6, <2>8, <2>9, <2>10 DEF n
<1>2. TypeOK /\ [Next]_vars => (circle.status = "DRAFT" /\ circle'.status = "ACTIVE" => Counted)
  BY <1>1
<1> QED BY <1>2, TypeCorrect, PTL DEF Spec, ActivationCountsMembers
=============================================================================
