--------------------------- MODULE ComputationProofs ---------------------------
(***************************************************************************)
(* The two computations of the platform, for all inputs: the features of   *)
(* a batch (MatchFeatures) and the decision about a player                 *)
(* (PolicyEvaluator).  Both sort, and both proofs begin with what a sort   *)
(* is: every finite set has a sorted arrangement (SortLemma), by induction *)
(* on its size, that is, by a least counterexample.                        *)
(*                                                                         *)
(* Part 1, the features.  The code sorts columns and scans neighbours, the *)
(* reference speaks of the set of rows, without order.  Between them stand *)
(* that the k-th value of a sorted column is the k-th smallest (KthLemma), *)
(* that no distance is below all those of neighbours (NeighboursLemma),    *)
(* that as many neighbours are close as elements follow another closely    *)
(* (FollowersLemma), and that the records of a player are in bijection     *)
(* with the rows that count as his kills (UniqueLemma, ProjectionLemma).   *)
(*                                                                         *)
(* Part 2, the decision.  The evidence is a sorted sequence cut to two,    *)
(* the properties speak of how many features outrank the headshots.  What  *)
(* connects them is that the place of a feature in the sequence is one     *)
(* more than the number of those that outrank it (TopTwoLemma).            *)
(***************************************************************************)
EXTENDS MatchFeatures, PolicyEvaluator, FiniteSetTheorems, FunctionTheorems,
        SequenceTheorems, TLAPS, WellFoundedInduction

(* Part 1, the features of a batch.  First, sorting. *)

\* i comes no later than j if things are sorted by v, and by w where v ties.
NoLater(v, w, i, j) == v[i] < v[j] \/ (v[i] = v[j] /\ w[i] <= w[j])

SortedBy(v, w, s) == \A m, n \in DOMAIN s : m < n => NoLater(v, w, s[m], s[n])

\* A set of natural numbers has a least element.
LEMMA LeastLemma ==
    ASSUME NEW A \in SUBSET Nat, A # {}
    PROVE  \E n \in A : \A m \in A : n <= m
<1>1. PICK n \in A : \A m \in A : <<m, n>> \notin OpToRel(<, Nat)
    BY NatLessThanWellFounded, WFMin
<1>2. \A m \in A : ~(m < n)
    BY <1>1, Zenon DEF OpToRel
<1> QED
    BY <1>2

\* A finite set has one that comes last.
LEMMA LastLemma ==
    ASSUME NEW S, IsFiniteSet(S), S # {}, NEW v \in [S -> Int], NEW w \in [S -> Int]
    PROVE  \E x \in S : \A y \in S : NoLater(v, w, y, x)
<1> DEFINE HasLast(T) == \E x \in T : \A y \in T : NoLater(v, w, y, x)
           Bad == {n \in Nat : \E T \in SUBSET S :
                                   T # {} /\ Cardinality(T) = n /\ ~HasLast(T)}
<1>1. SUFFICES ASSUME Bad # {} PROVE FALSE
    BY FS_CardinalityType
<1>2. PICK n \in Bad : \A m \in Bad : n <= m
    BY <1>1, LeastLemma
<1>3. PICK T \in SUBSET S : T # {} /\ Cardinality(T) = n /\ ~HasLast(T)
    OBVIOUS
<1>4. PICK x \in T : TRUE
    BY <1>3
<1> DEFINE U == T \ {x}
<1>5. IsFiniteSet(T) /\ n \in Nat
    BY <1>2, <1>3, FS_Subset
<1>6. IsFiniteSet(U) /\ Cardinality(U) = n - 1
    BY <1>3, <1>4, <1>5, FS_RemoveElement
<1>7. n - 1 \in Nat
    BY <1>6, FS_CardinalityType
<1>8. U # {}
    BY <1>3, <1>4 DEF NoLater
<1>9. HasLast(U)
    <2>1. n - 1 \notin Bad
        BY <1>2, <1>7
    <2> QED
        BY <1>6, <1>7, <1>8, <2>1
<1>10. PICK y \in U : \A z \in U : NoLater(v, w, z, y)
    BY <1>9
<1>11. \A z \in T : z = x \/ z \in U
    OBVIOUS
<1>12. CASE NoLater(v, w, x, y)
    BY <1>3, <1>10, <1>11, <1>12
<1>13. CASE ~NoLater(v, w, x, y)
    <2>1. \A z \in U : NoLater(v, w, z, x)
        BY <1>10, <1>13 DEF NoLater
    <2> QED
        BY <2>1, <1>3, <1>4, <1>11 DEF NoLater
<1> QED
    BY <1>12, <1>13

\* What an arrangement of a finite set is.
LEMMA SeqsLemma ==
    ASSUME NEW S, IsFiniteSet(S), NEW s \in SetToSeqs(S)
    PROVE  LET n == Cardinality(S)
           IN  /\ n \in Nat
               /\ s \in [1..n -> S]
               /\ s \in Seq(S) /\ Len(s) = n /\ DOMAIN s = 1..n
               /\ \A i, j \in 1..n : i # j => s[i] # s[j]
               /\ \A x \in S : \E m \in 1..n : s[m] = x
<1> DEFINE n == Cardinality(S)
<1>1. n \in Nat
    BY FS_CardinalityType
<1>2. s \in [1..n -> S] /\ \A i, j \in 1..n : i # j => s[i] # s[j]
    BY DEF SetToSeqs
<1>3. s \in Injection(1..n, S)
    BY <1>2 DEF Injection, IsInjective
<1>4. IsFiniteSet(1..n) /\ Cardinality(1..n) = n
    BY <1>1, FS_Interval
<1>5. s \in Surjection(1..n, S)
    BY <1>3, <1>4, FS_Injection
<1>6. \A x \in S : \E m \in 1..n : s[m] = x
    BY <1>5 DEF Surjection
<1>7. s \in Seq(S) /\ Len(s) = n /\ DOMAIN s = 1..n
    BY <1>1, <1>2, SeqDef
<1> QED
    BY <1>1, <1>2, <1>6, <1>7

\* Every finite set can be sorted.  By induction on its size: what comes last
\* takes the last place.
LEMMA SortLemma ==
    ASSUME NEW S, IsFiniteSet(S), NEW v \in [S -> Int], NEW w \in [S -> Int]
    PROVE  \E s \in SetToSeqs(S) : SortedBy(v, w, s)
<1> DEFINE Sortable(T) == \E s \in SetToSeqs(T) : SortedBy(v, w, s)
           Bad == {n \in Nat : \E T \in SUBSET S : Cardinality(T) = n /\ ~Sortable(T)}
<1>1. SUFFICES ASSUME Bad # {} PROVE FALSE
    BY FS_CardinalityType
<1>2. PICK n \in Bad : \A m \in Bad : n <= m
    BY <1>1, LeastLemma
<1>3. PICK T \in SUBSET S : Cardinality(T) = n /\ ~Sortable(T)
    OBVIOUS
<1>4. IsFiniteSet(T) /\ n \in Nat
    BY <1>2, <1>3, FS_Subset
<1>5. T # {}
    <2>1. SUFFICES ASSUME T = {} PROVE Sortable(T)
        BY <1>3
    <2>2. Cardinality(T) = 0
        BY <2>1, FS_EmptySet
    <2>3. << >> \in SetToSeqs(T)
        BY <2>2 DEF SetToSeqs
    <2>4. SortedBy(v, w, << >>)
        BY DEF SortedBy
    <2> QED
        BY <2>3, <2>4
<1>6. PICK last \in T : \A y \in T : NoLater(v, w, y, last)
    <2> DEFINE vt == [x \in T |-> v[x]]
               wt == [x \in T |-> w[x]]
    <2>1. vt \in [T -> Int] /\ wt \in [T -> Int]
        OBVIOUS
    <2>2. PICK x \in T : \A y \in T : NoLater(vt, wt, y, x)
        BY <2>1, <1>4, <1>5, LastLemma
    <2> QED
        BY <2>2 DEF NoLater
<1> DEFINE U == T \ {last}
<1>7. Cardinality(U) = n - 1 /\ IsFiniteSet(U) /\ n - 1 \in Nat
    <2>1. IsFiniteSet(U) /\ Cardinality(U) = Cardinality(T) - 1
        BY <1>4, <1>6, FS_RemoveElement
    <2>2. Cardinality(U) \in Nat
        BY <2>1, FS_CardinalityType
    <2> QED
        BY <2>1, <2>2, <1>3
<1>8. PICK u \in SetToSeqs(U) : SortedBy(v, w, u)
    <2>1. n - 1 \notin Bad
        BY <1>2, <1>7
    <2> QED
        BY <1>7, <2>1
<1> DEFINE s == [m \in 1..n |-> IF m = n THEN last ELSE u[m]]
<1>9. u \in [1..n-1 -> U] /\ \A i, j \in 1..n-1 : i # j => u[i] # u[j]
    BY <1>7, <1>8 DEF SetToSeqs
<1>10. s \in SetToSeqs(T)
    <2>1. s \in [1..n -> T]
        BY <1>4, <1>6, <1>9
    <2>2. ASSUME NEW i \in 1..n, NEW j \in 1..n, i # j PROVE s[i] # s[j]
        BY <2>2, <1>4, <1>9
    <2> QED
        BY <1>3, <2>1, <2>2 DEF SetToSeqs
<1>11. SortedBy(v, w, s)
    <2>1. SUFFICES ASSUME NEW i \in 1..n, NEW j \in 1..n, i < j
                   PROVE  NoLater(v, w, s[i], s[j])
        BY DEF SortedBy
    <2>2. CASE j = n
        BY <2>1, <2>2, <1>4, <1>6, <1>9
    <2>3. CASE j # n
        <3>1. i \in DOMAIN u /\ j \in DOMAIN u /\ s[i] = u[i] /\ s[j] = u[j]
            BY <2>1, <2>3, <1>4, <1>9
        <3> QED
            BY <3>1, <2>1, <1>8 DEF SortedBy
    <2> QED
        BY <2>2, <2>3
<1> QED
    BY <1>3, <1>10, <1>11

\* An arrangement of one set is carried over to another by a bijection.
LEMMA CarriedLemma ==
    ASSUME NEW P, IsFiniteSet(P), NEW S, NEW b \in Bijection(P, S), NEW s \in SetToSeqs(P)
    PROVE  /\ IsFiniteSet(S) /\ Cardinality(S) = Cardinality(P)
           /\ [n \in DOMAIN s |-> b[s[n]]] \in SetToSeqs(S)
<1>1. IsFiniteSet(S) /\ Cardinality(S) = Cardinality(P)
    BY FS_Bijection DEF ExistsBijection
<1>2. b \in [P -> S] /\ \A x, y \in P : b[x] = b[y] => x = y
    BY DEF Bijection, Injection, IsInjective
<1>3. s \in [1..Cardinality(P) -> P]
      /\ \A i, j \in 1..Cardinality(P) : i # j => s[i] # s[j]
    BY DEF SetToSeqs
<1> DEFINE t == [n \in DOMAIN s |-> b[s[n]]]
<1>4. t \in [1..Cardinality(S) -> S]
    BY <1>1, <1>2, <1>3
<1>5. \A i, j \in 1..Cardinality(S) : i # j => t[i] # t[j]
    BY <1>1, <1>2, <1>3
<1> QED
    BY <1>1, <1>4, <1>5 DEF SetToSeqs

\* d is the k-th smallest of the values, by counting.
KthSmallest(S, v, k, d) ==
    /\ Cardinality({i \in S : v[i] < d}) < k
    /\ Cardinality({i \in S : v[i] <= d}) >= k

Ascending(v, s) == \A m, n \in DOMAIN s : m < n => v[s[m]] <= v[s[n]]

\* The k-th value of a sorted arrangement is the k-th smallest.
LEMMA KthLemma ==
    ASSUME NEW S, IsFiniteSet(S), NEW v \in [S -> Int],
           NEW s \in SetToSeqs(S), Ascending(v, s),
           NEW k \in 1..Cardinality(S)
    PROVE  KthSmallest(S, v, k, v[s[k]])
<1> DEFINE n == Cardinality(S)
           d == v[s[k]]
           less == {i \in S : v[i] < d}
           most == {i \in S : v[i] <= d}
<1>1. /\ n \in Nat /\ s \in [1..n -> S]
      /\ \A i, j \in 1..n : i # j => s[i] # s[j]
      /\ \A x \in S : \E m \in 1..n : s[m] = x
    <2>1. LET size == Cardinality(S)
          IN  /\ size \in Nat
              /\ s \in [1..size -> S]
              /\ s \in Seq(S) /\ Len(s) = size /\ DOMAIN s = 1..size
              /\ \A i, j \in 1..size : i # j => s[i] # s[j]
              /\ \A x \in S : \E m \in 1..size : s[m] = x
        BY SeqsLemma, Zenon
    <2> QED
        BY <2>1, Zenon
<1> HIDE DEF n
<1>2. k \in 1..n /\ d \in Int /\ \A m \in 1..n : v[s[m]] \in Int
    BY <1>1 DEF n
<1>3. \A i, j \in 1..n : i < j => v[s[i]] <= v[s[j]]
    BY <1>1 DEF Ascending
<1>4. IsFiniteSet(less) /\ IsFiniteSet(most)
    BY FS_Subset
<1>5. Cardinality(less) \in Nat /\ Cardinality(most) \in Nat
    BY <1>4, FS_CardinalityType
<1>6. Cardinality(less) <= k - 1
    <2> DEFINE place == [x \in less |-> CHOOSE m \in 1..n : s[m] = x]
    <2>1. ASSUME NEW x \in less
          PROVE  place[x] \in 1..n /\ s[place[x]] = x /\ place[x] < k
        <3>1. place[x] \in 1..n /\ s[place[x]] = x
            BY <1>1
        <3>2. v[x] < d
            OBVIOUS
        <3>3. ~(k < place[x]) /\ k # place[x]
            BY <3>1, <3>2, <1>2, <1>3
        <3> QED
            BY <3>1, <3>3, <1>2
    <2>2. place \in [less -> 1..(k-1)]
        BY <2>1, <1>2
    <2>3. \A x, y \in less : place[x] = place[y] => x = y
        BY <2>1
    <2>4. place \in Injection(less, 1..(k-1))
        BY <2>2, <2>3 DEF Injection, IsInjective
    <2>5. IsFiniteSet(1..(k-1)) /\ Cardinality(1..(k-1)) = k - 1
        BY <1>2, FS_Interval
    <2> QED
        BY <2>4, <2>5, FS_Injection
<1>7. k <= Cardinality(most)
    <2> DEFINE front == [m \in 1..k |-> s[m]]
    <2>1. ASSUME NEW m \in 1..k PROVE m \in 1..n /\ s[m] \in most
        <3>1. m \in 1..n /\ (m < k \/ m = k)
            BY <1>1, <1>2
        <3> QED
            BY <3>1, <1>1, <1>2, <1>3
    <2>2. front \in [1..k -> most]
        BY <2>1
    <2>3. \A x, y \in 1..k : front[x] = front[y] => x = y
        BY <2>1, <1>1
    <2>4. front \in Injection(1..k, most)
        BY <2>2, <2>3 DEF Injection, IsInjective
    <2>5. Cardinality(1..k) = k
        BY <1>2, FS_Interval
    <2> QED
        BY <2>4, <2>5, <1>4, FS_Injection
<1> QED
    BY <1>2, <1>5, <1>6, <1>7 DEF KthSmallest

\* There is only one.
LEMMA OneKthLemma ==
    ASSUME NEW S, IsFiniteSet(S), NEW v \in [S -> Int], NEW k \in Nat,
           NEW d \in Int, NEW e \in Int,
           KthSmallest(S, v, k, d), KthSmallest(S, v, k, e)
    PROVE  d = e
<1>1. ASSUME NEW a \in Int, NEW b \in Int, a < b,
             KthSmallest(S, v, k, a), KthSmallest(S, v, k, b)
      PROVE  FALSE
    <2> DEFINE most == {i \in S : v[i] <= a}
               less == {i \in S : v[i] < b}
    <2>1. most \subseteq less
        BY <1>1
    <2>2. IsFiniteSet(most) /\ IsFiniteSet(less)
        BY FS_Subset
    <2>3. Cardinality(most) <= Cardinality(less)
        BY <2>1, <2>2, FS_Subset
    <2>4. Cardinality(most) \in Nat /\ Cardinality(less) \in Nat
        BY <2>2, FS_CardinalityType
    <2>5. Cardinality(most) >= k /\ Cardinality(less) < k
        BY <1>1 DEF KthSmallest
    <2> QED
        BY <2>3, <2>4, <2>5
<1> QED
    BY <1>1

\* So all ways of sorting give the same values.
LEMMA SameValuesLemma ==
    ASSUME NEW S, IsFiniteSet(S), NEW v \in [S -> Int],
           NEW s \in SetToSeqs(S), Ascending(v, s),
           NEW t \in SetToSeqs(S), Ascending(v, t),
           NEW k \in 1..Cardinality(S)
    PROVE  v[s[k]] = v[t[k]]
<1>1. v[s[k]] \in Int /\ v[t[k]] \in Int
    <2>1. s \in [1..Cardinality(S) -> S] /\ t \in [1..Cardinality(S) -> S]
        BY DEF SetToSeqs
    <2> QED
        BY <2>1
<1>2. KthSmallest(S, v, k, v[s[k]]) /\ KthSmallest(S, v, k, v[t[k]])
    BY KthLemma
<1>3. k \in Nat
    BY FS_CardinalityType
<1> QED
    BY <1>1, <1>2, <1>3, OneKthLemma

\* Sorted, for the cells at places P of things that are also numbered by S: the
\* values of any arrangement of S that is sorted.
LEMMA SortedLemma ==
    ASSUME NEW P, IsFiniteSet(P), NEW S, NEW b \in Bijection(P, S),
           NEW v \in [S -> Int], NEW s \in SetToSeqs(S), Ascending(v, s)
    PROVE  Sorted([p \in P |-> v[b[p]]]) = [n \in 1..Cardinality(S) |-> v[s[n]]]
<1> DEFINE values == [p \in P |-> v[b[p]]]
           places == CHOOSE t \in SetToSeqs(P) : Ascending(values, t)
           carried == [n \in DOMAIN places |-> b[places[n]]]
<1>1. b \in [P -> S] /\ values \in [P -> Int] /\ DOMAIN values = P
    BY DEF Bijection, Injection
<1>2. places \in SetToSeqs(P) /\ Ascending(values, places)
    <2>1. PICK t \in SetToSeqs(P) : SortedBy(values, values, t)
        BY <1>1, SortLemma
    <2>2. t \in [1..Cardinality(P) -> P]
        BY DEF SetToSeqs
    <2>3. Ascending(values, t)
        <3> HIDE DEF values
        <3> QED
            BY <2>1, <2>2, <1>1 DEF SortedBy, NoLater, Ascending
    <2> QED
        BY <2>1, <2>3
<1>3. Sorted(values) = [n \in DOMAIN places |-> values[places[n]]]
    BY <1>1 DEF Sorted, Ascending
<1> HIDE DEF places
<1>4. IsFiniteSet(S) /\ Cardinality(S) = Cardinality(P) /\ carried \in SetToSeqs(S)
    BY <1>2, CarriedLemma
<1>5. places \in [1..Cardinality(S) -> P]
    BY <1>2, <1>4 DEF SetToSeqs
<1>6. \A n \in DOMAIN places : values[places[n]] = v[carried[n]]
    BY <1>5
<1>7. Ascending(v, carried)
    <2>1. DOMAIN carried = DOMAIN places
        OBVIOUS
    <2> QED
        BY <2>1, <1>2, <1>6 DEF Ascending
<1>8. \A n \in 1..Cardinality(S) : v[carried[n]] = v[s[n]]
    BY <1>4, <1>7, SameValuesLemma
<1> QED
    BY <1>3, <1>5, <1>6, <1>8

-------------------------------------------------------------------------------
(* Neighbours in a sorted sequence *)

Distant(v, i, j) == IF v[i] < v[j] THEN v[j] - v[i] ELSE v[i] - v[j]

\* Of a sorted sequence, the code keeps the differences of all neighbours.
LEMMA DifferencesLemma ==
    ASSUME NEW N \in Nat, NEW t \in [1..N -> Int],
           \A m, n \in 1..N : m < n => t[m] <= t[n]
    PROVE  Differences(t) = [n \in 1..(N - 1) |-> t[n + 1] - t[n]]
<1>1. t \in Seq(Int) /\ Len(t) = N
    BY SeqDef
<1>2. ASSUME NEW m \in 1..(N - 1) PROVE t[m + 1] - t[m] >= 0
    <2>1. m \in 1..N /\ m + 1 \in 1..N /\ m < m + 1
        OBVIOUS
    <2>2. t[m] \in Int /\ t[m + 1] \in Int /\ t[m] <= t[m + 1]
        BY <2>1
    <2> QED
        BY <2>2
<1>3. {m \in 1..(Len(t) - 1) : t[m + 1] - t[m] >= 0} = 1..(N - 1)
    BY <1>1, <1>2
<1> QED
    BY <1>3 DEF Differences

\* The differences of neighbours are distances, and no distance is below all of
\* them.
LEMMA NeighboursLemma ==
    ASSUME NEW S, IsFiniteSet(S), NEW v \in [S -> Int],
           NEW s \in SetToSeqs(S), Ascending(v, s)
    PROVE  LET N == Cardinality(S)
           IN  /\ \A n \in 1..(N - 1) :
                    /\ s[n] \in S /\ s[n + 1] \in S /\ s[n] # s[n + 1]
                    /\ v[s[n + 1]] - v[s[n]] = Distant(v, s[n], s[n + 1])
                    /\ v[s[n + 1]] - v[s[n]] \in Nat
               /\ \A i, j \in S : i # j =>
                    \E n \in 1..(N - 1) : v[s[n + 1]] - v[s[n]] <= Distant(v, i, j)
<1> DEFINE N == Cardinality(S)
<1>1. /\ N \in Nat /\ s \in [1..N -> S]
      /\ \A i, j \in 1..N : i # j => s[i] # s[j]
      /\ \A x \in S : \E m \in 1..N : s[m] = x
    <2>1. LET size == Cardinality(S)
          IN  /\ size \in Nat
              /\ s \in [1..size -> S]
              /\ s \in Seq(S) /\ Len(s) = size /\ DOMAIN s = 1..size
              /\ \A i, j \in 1..size : i # j => s[i] # s[j]
              /\ \A x \in S : \E m \in 1..size : s[m] = x
        BY SeqsLemma, Zenon
    <2> QED
        BY <2>1, Zenon
<1> HIDE DEF N
<1>2. \A i, j \in 1..N : i < j => v[s[i]] <= v[s[j]]
    BY <1>1 DEF Ascending
<1>3. \A m \in 1..N : v[s[m]] \in Int
    BY <1>1
<1>4. ASSUME NEW n \in 1..(N - 1)
      PROVE  /\ s[n] \in S /\ s[n + 1] \in S /\ s[n] # s[n + 1]
             /\ v[s[n + 1]] - v[s[n]] = Distant(v, s[n], s[n + 1])
             /\ v[s[n + 1]] - v[s[n]] \in Nat
    <2>1. n \in 1..N /\ n + 1 \in 1..N /\ n < n + 1 /\ n # n + 1
        BY <1>1
    <2>2. v[s[n]] \in Int /\ v[s[n + 1]] \in Int /\ v[s[n]] <= v[s[n + 1]]
        BY <2>1, <1>2, <1>3
    <2> QED
        BY <2>1, <2>2, <1>1 DEF Distant
<1>5. ASSUME NEW p \in 1..N, NEW q \in 1..N, p < q
      PROVE  \E n \in 1..(N - 1) : v[s[n + 1]] - v[s[n]] <= Distant(v, s[p], s[q])
    <2>1. p \in 1..(N - 1) /\ p + 1 \in 1..N
        BY <1>1, <1>5
    <2>2. v[s[p]] \in Int /\ v[s[p + 1]] \in Int /\ v[s[q]] \in Int
        BY <2>1, <1>3
    <2>3. v[s[p]] <= v[s[q]]
        BY <1>2, <1>5
    <2>4. v[s[p + 1]] <= v[s[q]]
        <3>1. p + 1 = q \/ p + 1 < q
            BY <1>5
        <3> QED
            BY <3>1, <2>1, <2>2, <1>2
    <2>5. v[s[p + 1]] - v[s[p]] <= Distant(v, s[p], s[q])
        BY <2>2, <2>3, <2>4 DEF Distant
    <2> QED
        BY <2>1, <2>5
<1>6. ASSUME NEW i \in S, NEW j \in S, i # j
      PROVE  \E n \in 1..(N - 1) : v[s[n + 1]] - v[s[n]] <= Distant(v, i, j)
    <2>1. PICK p \in 1..N, q \in 1..N : s[p] = i /\ s[q] = j
        BY <1>1
    <2>2. p # q
        BY <2>1, <1>6
    <2>3. CASE p < q
        BY <2>1, <2>3, <1>5
    <2>4. CASE q < p
        <3>1. Distant(v, i, j) = Distant(v, j, i)
            <4>1. v[i] \in Int /\ v[j] \in Int
                OBVIOUS
            <4> QED
                BY <4>1 DEF Distant
        <3> QED
            BY <2>1, <2>4, <3>1, <1>5
    <2> QED
        BY <2>2, <2>3, <2>4
<1> QED
    BY <1>4, <1>6 DEF N

\* The least of some numbers and of others among which none is lower.
LEMMA MinLemma ==
    ASSUME NEW B \in SUBSET Nat, NEW A \in SUBSET B,
           \A b \in B : \E a \in A : a <= b
    PROVE  /\ A = {} <=> B = {}
           /\ A # {} => Min(A) = Min(B)
<1>1. A = {} <=> B = {}
    OBVIOUS
<1>2. ASSUME A # {} PROVE Min(A) = Min(B)
    <2>1. PICK a \in A : \A x \in A : a <= x
        BY <1>2, LeastLemma
    <2>2. a \in B /\ \A x \in B : a <= x
        BY <2>1
    <2>3. \A x \in A : (\A y \in A : x =< y) => x = a
        BY <2>1
    <2>4. \A x \in B : (\A y \in B : x =< y) => x = a
        BY <2>2
    <2>5. Min(A) = a
        BY <2>1, <2>3 DEF Min
    <2>6. Min(B) = a
        BY <2>2, <2>4 DEF Min
    <2> QED
        BY <2>5, <2>6
<1> QED
    BY <1>1, <1>2

Earlier(v, j, i) == v[j] < v[i] \/ (v[j] = v[i] /\ j < i)

\* As many differences are short as there are elements that follow another one
\* shortly.
LEMMA FollowersLemma ==
    ASSUME NEW S \in SUBSET Int, IsFiniteSet(S), NEW v \in [S -> Int],
           NEW s \in SetToSeqs(S), SortedBy(v, [i \in S |-> i], s), NEW limit \in Int
    PROVE  Cardinality({n \in 1..(Cardinality(S) - 1) : v[s[n + 1]] - v[s[n]] <= limit})
            = Cardinality({i \in S : \E j \in S : /\ Earlier(v, j, i)
                                                  /\ Distant(v, i, j) <= limit})
<1> DEFINE N == Cardinality(S)
           short == {n \in 1..(N - 1) : v[s[n + 1]] - v[s[n]] <= limit}
           followers == {i \in S : \E j \in S : /\ Earlier(v, j, i)
                                                /\ Distant(v, i, j) <= limit}
           f == [n \in short |-> s[n + 1]]
<1>1. /\ N \in Nat /\ s \in [1..N -> S]
      /\ \A i, j \in 1..N : i # j => s[i] # s[j]
      /\ \A x \in S : \E m \in 1..N : s[m] = x
    <2>1. LET size == Cardinality(S)
          IN  /\ size \in Nat
              /\ s \in [1..size -> S]
              /\ s \in Seq(S) /\ Len(s) = size /\ DOMAIN s = 1..size
              /\ \A i, j \in 1..size : i # j => s[i] # s[j]
              /\ \A x \in S : \E m \in 1..size : s[m] = x
        BY SeqsLemma, Zenon
    <2> QED
        BY <2>1, Zenon
<1> HIDE DEF N
<1>2. \A i, j \in 1..N : i < j => v[s[i]] < v[s[j]] \/ (v[s[i]] = v[s[j]] /\ s[i] <= s[j])
    BY <1>1 DEF SortedBy, NoLater
<1>3. \A m \in 1..N : v[s[m]] \in Int /\ s[m] \in Int
    BY <1>1
<1>4. \A i, j \in 1..N : i < j => Earlier(v, s[i], s[j])
    BY <1>1, <1>2, <1>3 DEF Earlier
<1>5. ASSUME NEW n \in short
      PROVE  n + 1 \in 1..N /\ s[n + 1] \in followers
    <2>1. n \in 1..N /\ n + 1 \in 1..N /\ n < n + 1
        BY <1>1
    <2>2. Earlier(v, s[n], s[n + 1])
        BY <2>1, <1>4
    <2>3. v[s[n]] \in Int /\ v[s[n + 1]] \in Int
        BY <2>1, <1>3
    <2>4. Distant(v, s[n + 1], s[n]) <= limit
        BY <2>2, <2>3 DEF Distant, Earlier
    <2> QED
        BY <2>1, <2>2, <2>4, <1>1
<1>6. ASSUME NEW i \in followers
      PROVE  \E n \in short : s[n + 1] = i
    <2>1. PICK j \in S : Earlier(v, j, i) /\ Distant(v, i, j) <= limit
        OBVIOUS
    <2>2. PICK p \in 1..N, q \in 1..N : s[p] = j /\ s[q] = i
        BY <1>1
    <2>3. p < q
        <3>1. p # q
            BY <2>1, <2>2, <1>3 DEF Earlier
        <3>2. ~(q < p)
            BY <2>1, <2>2, <1>3, <1>4 DEF Earlier
        <3> QED
            BY <3>1, <3>2
    <2>4. q - 1 \in 1..(N - 1) /\ q - 1 \in 1..N /\ (q - 1) + 1 = q
        BY <1>1, <2>3
    <2>5. v[s[p]] \in Int /\ v[s[q]] \in Int /\ v[s[q - 1]] \in Int
        BY <2>4, <1>3
    <2>6. v[s[p]] <= v[s[q - 1]]
        <3>1. p = q - 1 \/ p < q - 1
            BY <2>3
        <3> QED
            BY <3>1, <2>4, <2>5, <1>2
    <2>7. v[s[q]] - v[s[q - 1]] <= limit
        BY <2>1, <2>2, <2>5, <2>6 DEF Distant, Earlier
    <2> QED
        BY <2>2, <2>4, <2>7
<1>7. f \in Bijection(short, followers)
    <2>1. f \in [short -> followers]
        BY <1>5
    <2>2. \A m, n \in short : f[m] = f[n] => m = n
        BY <1>1, <1>5
    <2>3. \A i \in followers : \E n \in short : f[n] = i
        BY <1>6
    <2> QED
        BY <2>1, <2>2, <2>3 DEF Bijection, Injection, Surjection, IsInjective
<1>8. IsFiniteSet(short)
    <2>1. IsFiniteSet(1..N) /\ short \subseteq 1..N
        BY <1>1, FS_Interval
    <2> QED
        BY <2>1, FS_Subset
<1> QED
    BY <1>7, <1>8, FS_Bijection DEF ExistsBijection, N

-------------------------------------------------------------------------------
(* Columns of cells *)

\* Part of the places and the rows they stand for.
LEMMA PartLemma ==
    ASSUME NEW D, IsFiniteSet(D), NEW K, NEW b \in Bijection(D, K), NEW T \in SUBSET K
    PROVE  LET part == {n \in D : b[n] \in T}
           IN  /\ IsFiniteSet(part)
               /\ [n \in part |-> b[n]] \in Bijection(part, T)
<1> DEFINE part == {n \in D : b[n] \in T}
           c == [n \in part |-> b[n]]
<1>1. /\ b \in [D -> K] /\ \A x, y \in D : b[x] = b[y] => x = y
      /\ \A t \in K : \E x \in D : b[x] = t
    BY DEF Bijection, Injection, Surjection, IsInjective
<1>2. c \in [part -> T]
    OBVIOUS
<1>3. \A x, y \in part : c[x] = c[y] => x = y
    BY <1>1
<1>4. \A t \in T : \E x \in part : c[x] = t
    BY <1>1
<1>5. c \in Bijection(part, T)
    BY <1>2, <1>3, <1>4 DEF Bijection, Injection, Surjection, IsInjective
<1> QED
    BY <1>5, FS_Subset

\* The cells that are not empty are those of T.
FilledBy(T, cell, K) == T \subseteq K /\ \A i \in K : i \in T <=> cell[i] # None

\* The column of the cells of K, in the places D.
ColumnOf(D, b, cell) == [n \in D |-> cell[b[n]]]

\* A column holds the values of v, in any order.
Holds(column, T, v) ==
    \E P, c : IsFiniteSet(P) /\ c \in Bijection(P, T) /\ column = ColumnOf(P, c, v)

\* The cells of one column that are not empty, as numbers of some of the rows.
LEMMA KnownLemma ==
    ASSUME NEW D, IsFiniteSet(D), NEW K, NEW b \in Bijection(D, K),
           NEW cell, NEW T, FilledBy(T, cell, K)
    PROVE  Holds(Known(ColumnOf(D, b, cell)), T, cell)
<1> DEFINE column == ColumnOf(D, b, cell)
           P == {n \in D : b[n] \in T}
           c == [n \in P |-> b[n]]
<1>1. b \in [D -> K] /\ DOMAIN column = D /\ \A n \in D : column[n] = cell[b[n]]
    BY DEF Bijection, Injection, ColumnOf
<1>2. IsFiniteSet(P) /\ c \in Bijection(P, T)
    BY PartLemma DEF FilledBy
<1>3. {n \in DOMAIN column : column[n] # None} = P
    BY <1>1 DEF FilledBy
<1>4. \A p \in P : column[p] = cell[c[p]]
    BY <1>1
<1>5. Known(column) = [p \in P |-> cell[c[p]]]
    BY <1>3, <1>4 DEF Known, Restrict
<1> HIDE DEF P, c
<1> QED
    BY <1>2, <1>5 DEF Holds, ColumnOf

\* The sorted column, if its cells are numbers.
LEMMA SortedColumnLemma ==
    ASSUME NEW column, NEW cell, NEW T, Holds(column, T, cell),
           NEW v \in [T -> Int], \A i \in T : v[i] = cell[i],
           NEW s \in SetToSeqs(T), Ascending(v, s)
    PROVE  /\ Sorted(column) = [n \in 1..Cardinality(T) |-> v[s[n]]]
           /\ Range(column) = {} <=> T = {}
<1>1. PICK P, c : /\ IsFiniteSet(P) /\ c \in Bijection(P, T)
                  /\ column = [p \in P |-> cell[c[p]]]
    BY DEF Holds, ColumnOf
<1>2. c \in [P -> T] /\ \A t \in T : \E x \in P : c[x] = t
    BY <1>1, Zenon DEF Bijection, Injection, Surjection
<1>3. column = [p \in P |-> v[c[p]]]
    BY <1>1, <1>2
<1>4. Sorted([p \in P |-> v[c[p]]]) = [n \in 1..Cardinality(T) |-> v[s[n]]]
    BY <1>1, SortedLemma
<1>5. Range(column) = {} <=> T = {}
    <2>1. DOMAIN column = P
        BY <1>3
    <2>2. P = {} <=> T = {}
        BY <1>2
    <2> QED
        BY <2>1, <2>2 DEF Range
<1> QED
    BY <1>3, <1>4, <1>5

\* The two in the middle, as numbers from 1.
LEMMA MedianLemma ==
    ASSUME NEW S, IsFiniteSet(S), S # {}, NEW v \in [S -> Int],
           NEW s \in SetToSeqs(S), NEW values,
           Sorted(values) = [n \in 1..Cardinality(S) |-> v[s[n]]]
    PROVE  LET N == Cardinality(S)
           IN  /\ (N + 1) \div 2 \in 1..N /\ (N + 2) \div 2 \in 1..N
               /\ TwiceMedian(values) = v[s[(N + 1) \div 2]] + v[s[(N + 2) \div 2]]
<1> DEFINE N == Cardinality(S)
           t == [n \in 1..N |-> v[s[n]]]
           mid == N \div 2
<1>1. N \in Nat /\ N # 0 /\ s \in [1..N -> S]
    BY FS_EmptySet, SeqsLemma
<1> HIDE DEF N
<1>2. t \in Seq(Int) /\ Len(t) = N
    <2>1. t \in [1..N -> Int]
        BY <1>1
    <2> QED
        BY <2>1, <1>1, SeqDef
<1>3. Sorted(values) = t
    BY DEF N
<1>4. (N + 1) \div 2 \in 1..N /\ (N + 2) \div 2 \in 1..N
    BY <1>1
<1>5. \A n \in 1..N : t[n] = v[s[n]] /\ t[n] \in Int
    BY <1>1
<1> HIDE DEF t
<1>6. TwiceMedian(values) = IF N % 2 = 0 THEN t[mid] + t[mid + 1] ELSE 2 * t[mid + 1]
    BY <1>2, <1>3 DEF TwiceMedian
<1>7. CASE N % 2 = 0
    <2>1. (N + 1) \div 2 = mid /\ (N + 2) \div 2 = mid + 1
        BY <1>1, <1>7
    <2> QED
        BY <2>1, <1>4, <1>5, <1>6, <1>7 DEF N
<1>8. CASE N % 2 # 0
    <2>1. (N + 1) \div 2 = mid + 1 /\ (N + 2) \div 2 = mid + 1
        BY <1>1, <1>8
    <2>2. t[mid + 1] \in Int /\ t[mid + 1] = v[s[mid + 1]]
        BY <2>1, <1>4, <1>5
    <2>3. 2 * t[mid + 1] = t[mid + 1] + t[mid + 1]
        BY <2>2
    <2> QED
        BY <2>1, <2>2, <2>3, <1>4, <1>6, <1>8 DEF N
<1> QED
    BY <1>7, <1>8

\* What is sorted is ascending.
LEMMA AscendingLemma ==
    ASSUME NEW T, NEW v \in [T -> Int], NEW w, NEW s \in SetToSeqs(T), SortedBy(v, w, s)
    PROVE  Ascending(v, s)
<1>1. s \in [1..Cardinality(T) -> T]
    BY DEF SetToSeqs
<1>2. \A n \in DOMAIN s : v[s[n]] \in Int
    BY <1>1
<1> QED
    BY <1>2 DEF SortedBy, NoLater, Ascending

\* The reference's terms for any values v.
GapsOf(T, v)      == {Distant(v, p[1], p[2]) : p \in {q \in T \X T : q[1] # q[2]}}
FollowersOf(T, v) == {i \in T : \E j \in T : Earlier(v, j, i) /\ Distant(v, i, j) <= 10}
RankOf(T, v, k)   == CHOOSE d \in {v[i] : i \in T} : KthSmallest(T, v, k, d)

\* The intervals of a column of times, and what the reference makes of them.
LEMMA TimesLemma ==
    ASSUME NEW T \in SUBSET Nat, IsFiniteSet(T), NEW cell, NEW column,
           Holds(column, T, cell), NEW v \in [T -> Int], \A i \in T : v[i] = cell[i]
    PROVE  LET intervals == Intervals(column)
               found     == Range(intervals)
               gaps      == GapsOf(T, v)
           IN  /\ found = {} <=> gaps = {}
               /\ found # {} => Min(found) = Min(gaps)
               /\ Cardinality({n \in DOMAIN intervals : intervals[n] <= 10})
                   = Cardinality(FollowersOf(T, v))
<1> DEFINE N == Cardinality(T)
           number == [i \in T |-> i]
           intervals == Intervals(column)
           found     == Range(intervals)
           gaps      == {Distant(v, p[1], p[2]) : p \in {q \in T \X T : q[1] # q[2]}}
<1>1. number \in [T -> Int]
    OBVIOUS
<1>2. PICK s \in SetToSeqs(T) : SortedBy(v, number, s)
    <2> HIDE DEF number
    <2> QED
        BY <1>1, SortLemma
<1>3. N \in Nat /\ s \in [1..N -> T]
    BY SeqsLemma
<1>4. Ascending(v, s)
    BY <1>2, AscendingLemma
<1>5. Sorted(column) = [n \in 1..N |-> v[s[n]]]
    <2> HIDE DEF number, intervals, found, gaps
    <2>1. /\ Sorted(column) = [n \in 1..Cardinality(T) |-> v[s[n]]]
          /\ Range(column) = {} <=> T = {}
        BY <1>4, SortedColumnLemma
    <2> QED
        BY <2>1
<1>6. intervals = [n \in 1..(N - 1) |-> v[s[n + 1]] - v[s[n]]]
    <2> DEFINE t == [n \in 1..N |-> v[s[n]]]
    <2>1. t \in [1..N -> Int]
        BY <1>3
    <2>2. \A m, n \in 1..N : m < n => t[m] <= t[n]
        BY <1>3, <1>4 DEF Ascending
    <2> HIDE DEF t, N
    <2>3. Differences(t) = [n \in 1..(N - 1) |-> t[n + 1] - t[n]]
        BY <1>3, <2>1, <2>2, DifferencesLemma
    <2>4. \A n \in 1..(N - 1) : t[n + 1] = v[s[n + 1]] /\ t[n] = v[s[n]]
        BY <1>3 DEF t
    <2>5. intervals = Differences(t)
        BY <1>5 DEF Intervals, t, N
    <2> QED
        BY <2>3, <2>4, <2>5
<1>7. /\ \A n \in 1..(N - 1) :
            /\ s[n] \in T /\ s[n + 1] \in T /\ s[n] # s[n + 1]
            /\ v[s[n + 1]] - v[s[n]] = Distant(v, s[n], s[n + 1])
            /\ v[s[n + 1]] - v[s[n]] \in Nat
      /\ \A i, j \in T : i # j =>
            \E n \in 1..(N - 1) : v[s[n + 1]] - v[s[n]] <= Distant(v, i, j)
    BY <1>4, NeighboursLemma
<1>8. found = {v[s[n + 1]] - v[s[n]] : n \in 1..(N - 1)}
    BY <1>6 DEF Range
<1>9. ASSUME NEW i \in T, NEW j \in T, i # j PROVE Distant(v, i, j) \in gaps
    <2>1. <<i, j>> \in {q \in T \X T : q[1] # q[2]}
        BY <1>9
    <2> QED
        BY <2>1
<1>10. gaps \in SUBSET Nat
    <2> SUFFICES ASSUME NEW p \in T \X T PROVE Distant(v, p[1], p[2]) \in Nat
        OBVIOUS
    <2>1. ASSUME NEW i \in T, NEW j \in T PROVE Distant(v, i, j) \in Nat
        <3>1. v[i] \in Int /\ v[j] \in Int
            OBVIOUS
        <3> QED
            BY <3>1 DEF Distant
    <2>2. p[1] \in T /\ p[2] \in T
        OBVIOUS
    <2> QED
        BY <2>1, <2>2
<1>11. found \in SUBSET gaps
    <2>1. \A n \in 1..(N - 1) : v[s[n + 1]] - v[s[n]] \in gaps
        <3> HIDE DEF gaps, N
        <3> QED
            BY <1>7, <1>9
    <2> HIDE DEF gaps, N, found
    <2> QED
        BY <2>1, <1>8
<1>12. \A b \in gaps : \E a \in found : a <= b
    <2>1. SUFFICES ASSUME NEW p \in T \X T, p[1] # p[2]
                   PROVE  \E a \in found : a <= Distant(v, p[1], p[2])
        OBVIOUS
    <2>2. p[1] \in T /\ p[2] \in T
        OBVIOUS
    <2>3. PICK n \in 1..(N - 1) : v[s[n + 1]] - v[s[n]] <= Distant(v, p[1], p[2])
        BY <1>7, <2>1, <2>2
    <2> HIDE DEF found, N
    <2> QED
        BY <2>3, <1>8
<1>13. /\ found = {} <=> gaps = {}
       /\ found # {} => Min(found) = Min(gaps)
    <2> HIDE DEF found, gaps
    <2> QED
        BY <1>10, <1>11, <1>12, MinLemma
<1>14. Cardinality({n \in DOMAIN intervals : intervals[n] <= 10})
        = Cardinality(FollowersOf(T, v))
    <2>1. {n \in DOMAIN intervals : intervals[n] <= 10}
            = {n \in 1..(N - 1) : v[s[n + 1]] - v[s[n]] <= 10}
        <3> HIDE DEF intervals
        <3> QED
            BY <1>6
    <2>2. T \in SUBSET Int
        OBVIOUS
    <2> QED
        BY <2>1, <2>2, <1>2, FollowersLemma DEF FollowersOf
<1> QED
    BY <1>13, <1>14 DEF GapsOf

\* The median of a column of distances.
LEMMA DistancesLemma ==
    ASSUME NEW T, IsFiniteSet(T), NEW cell, NEW column,
           Holds(column, T, cell), NEW v \in [T -> Int], \A i \in T : v[i] = cell[i]
    PROVE  LET N == Cardinality(T)
           IN  /\ Range(column) = {} <=> T = {}
               /\ T # {} => TwiceMedian(column) = RankOf(T, v, (N + 1) \div 2)
                                                    + RankOf(T, v, (N + 2) \div 2)
<1> DEFINE N == Cardinality(T)
           Rank(k) == RankOf(T, v, k)
<1>1. PICK s \in SetToSeqs(T) : SortedBy(v, v, s)
    BY SortLemma
<1>2. N \in Nat /\ s \in [1..N -> T]
    BY SeqsLemma
<1>3. Ascending(v, s)
    BY <1>1, AscendingLemma
<1>4. /\ Sorted(column) = [n \in 1..N |-> v[s[n]]]
      /\ Range(column) = {} <=> T = {}
    BY <1>3, SortedColumnLemma
<1>5. ASSUME NEW k \in 1..N PROVE Rank(k) = v[s[k]]
    <2>1. KthSmallest(T, v, k, v[s[k]])
        BY <1>3, KthLemma
    <2>2. s[k] \in T /\ k \in Nat
        BY <1>2
    <2>3. \A d \in {v[i] : i \in T} : KthSmallest(T, v, k, d) => d = v[s[k]]
        <3>1. \A i \in T : v[i] \in Int
            OBVIOUS
        <3> QED
            BY <2>1, <2>2, <3>1, OneKthLemma
    <2> QED
        BY <2>1, <2>2, <2>3 DEF RankOf
<1>6. ASSUME T # {}
      PROVE  TwiceMedian(column) = Rank((N + 1) \div 2) + Rank((N + 2) \div 2)
    <2>1. /\ (N + 1) \div 2 \in 1..N /\ (N + 2) \div 2 \in 1..N
          /\ TwiceMedian(column) = v[s[(N + 1) \div 2]] + v[s[(N + 2) \div 2]]
        BY <1>4, <1>6, MedianLemma
    <2> HIDE DEF Rank
    <2> QED
        BY <2>1, <1>5
<1> QED
    BY <1>4, <1>6

-------------------------------------------------------------------------------
(* The features of one player *)

\* What a column of the kill records holds, by the row a record comes from.
Cells(K, column) ==
    [i \in K |-> IF DeathRow(source[i]) THEN source[i][column] ELSE None]

\* The kill records at the places D come from the rows K, one from each.
RecordsOf(records, D, b, K) ==
    /\ IsFiniteSet(D) /\ DOMAIN records = D
    /\ K \subseteq Nat /\ b \in Bijection(D, K)
    /\ \A i \in K : source[i] \in Rows
    /\ \A column \in {"time", "distance", "weapon"} :
            [n \in D |-> records[n][column]] = ColumnOf(D, b, Cells(K, column))

\* The cells of a row of deaths.
LEMMA DeathLemma ==
    ASSUME NEW r \in Rows, DeathRow(r)
    PROVE  /\ r.time \in Int \cup {None} /\ r.distance \in Int \cup {None}
           /\ ~SummaryRow(r)
           /\ {r.killer, r.victim} # {None}
<1>1. ~SummaryRow(r)
    BY DEF DeathRow, SummaryRow
<1> QED
    BY <1>1, RowsAssumption

\* The rows of which one column of the records is filled.
LEMMA FilledLemma ==
    ASSUME NEW K
    PROVE  /\ FilledBy(Timed(K), Cells(K, "time"), K)
           /\ FilledBy(Placed(K), Cells(K, "distance"), K)
           /\ \A T : FilledBy(T, Cells(K, "weapon"), K) <=>
                        T = {i \in K : DeathRow(source[i]) /\ source[i].weapon # None}
<1>1. FilledBy(Timed(K), Cells(K, "time"), K)
    BY DEF FilledBy, Timed, Cells
<1>2. FilledBy(Placed(K), Cells(K, "distance"), K)
    BY DEF FilledBy, Placed, Cells
<1>3. ASSUME NEW T
      PROVE  FilledBy(T, Cells(K, "weapon"), K) <=>
                T = {i \in K : DeathRow(source[i]) /\ source[i].weapon # None}
    BY DEF FilledBy, Cells
<1> QED
    BY <1>1, <1>2, <1>3

\* The weapons of a column.
LEMMA WeaponsLemma ==
    ASSUME NEW column, NEW K, NEW T, FilledBy(T, Cells(K, "weapon"), K),
           Holds(column, T, Cells(K, "weapon"))
    PROVE  Range(column) =
            {source[i].weapon : i \in {k \in K : DeathRow(source[k])}} \ {None}
<1> DEFINE cell == Cells(K, "weapon")
<1>1. T = {i \in K : DeathRow(source[i]) /\ source[i].weapon # None}
    BY FilledLemma
<1>2. PICK P, c : /\ IsFiniteSet(P) /\ c \in Bijection(P, T)
                  /\ column = [p \in P |-> cell[c[p]]]
    BY DEF Holds, ColumnOf
<1>3. c \in [P -> T] /\ \A t \in T : \E x \in P : c[x] = t
    BY <1>2, Zenon DEF Bijection, Injection, Surjection
<1>4. \A i \in T : cell[i] = source[i].weapon
    BY <1>1 DEF Cells
<1>5. Range(column) = {cell[c[p]] : p \in P}
    BY <1>2 DEF Range
<1> HIDE DEF cell
<1>6. Range(column) = {source[i].weapon : i \in T}
    <2>1. \A p \in P : cell[c[p]] = source[c[p]].weapon /\ c[p] \in T
        BY <1>3, <1>4
    <2>2. \A i \in T : \E p \in P : c[p] = i
        BY <1>3
    <2> QED
        BY <1>5, <2>1, <2>2
<1> QED
    BY <1>1, <1>6

\* The features of kill records are those of the rows they come from.
LEMMA FeaturesLemma ==
    ASSUME NEW records, NEW D, NEW b, NEW K, RecordsOf(records, D, b, K)
    PROVE  Features(records) = Reference(K)
<1> DEFINE column(f) == [n \in DOMAIN records |-> records[n][f]]
           times     == Known(column("time"))
           distances == Known(column("distance"))
           weapons   == Known(column("weapon"))
           timed     == Timed(K)
           placed    == Placed(K)
           armed     == {i \in K : DeathRow(source[i]) /\ source[i].weapon # None}
           time      == [i \in timed |-> source[i].time]
           distance  == [i \in placed |-> source[i].distance]
<1>1. /\ IsFiniteSet(D) /\ DOMAIN records = D /\ b \in Bijection(D, K)
      /\ K \subseteq Nat /\ \A i \in K : source[i] \in Rows
    BY DEF RecordsOf
<1>2. IsFiniteSet(K) /\ Cardinality(DOMAIN records) = Cardinality(K)
    BY <1>1, FS_Bijection DEF ExistsBijection
<1>3. /\ column("time") = ColumnOf(D, b, Cells(K, "time"))
      /\ column("distance") = ColumnOf(D, b, Cells(K, "distance"))
      /\ column("weapon") = ColumnOf(D, b, Cells(K, "weapon"))
    BY DEF RecordsOf
<1>4. /\ Holds(times, timed, Cells(K, "time"))
      /\ Holds(distances, placed, Cells(K, "distance"))
      /\ Holds(weapons, armed, Cells(K, "weapon"))
    <2>1. /\ FilledBy(timed, Cells(K, "time"), K)
          /\ FilledBy(placed, Cells(K, "distance"), K)
          /\ FilledBy(armed, Cells(K, "weapon"), K)
        BY FilledLemma
    <2> HIDE DEF column, timed, placed, armed
    <2> QED
        BY <2>1, <1>1, <1>3, KnownLemma
<1>5. /\ IsFiniteSet(timed) /\ timed \in SUBSET Nat
      /\ time \in [timed -> Int] /\ \A i \in timed : time[i] = Cells(K, "time")[i]
    <2>1. \A i \in timed : i \in K /\ DeathRow(source[i]) /\ source[i].time # None
        BY DEF Timed
    <2>2. \A i \in timed : source[i].time \in Int
        BY <2>1, <1>1, DeathLemma
    <2> QED
        BY <2>1, <2>2, <1>1, <1>2, FS_Subset DEF Cells
<1>6. /\ IsFiniteSet(placed)
      /\ distance \in [placed -> Int]
      /\ \A i \in placed : distance[i] = Cells(K, "distance")[i]
    <2>1. \A i \in placed : i \in K /\ DeathRow(source[i]) /\ source[i].distance # None
        BY DEF Placed
    <2>2. \A i \in placed : source[i].distance \in Int
        BY <2>1, <1>1, DeathLemma
    <2> QED
        BY <2>1, <2>2, <1>1, <1>2, FS_Subset DEF Cells
<1> DEFINE intervals == Intervals(times)
           found     == Range(intervals)
           gaps      == {Gap(p[1], p[2]) : p \in {q \in timed \X timed : q[1] # q[2]}}
           followers == {i \in timed :
                            \E j \in timed : Precedes(j, i) /\ Gap(i, j) <= 10}
           N         == Cardinality(placed)
<1>7. /\ found = {} <=> gaps = {}
      /\ found # {} => Min(found) = Min(gaps)
      /\ Cardinality({n \in DOMAIN intervals : intervals[n] <= 10})
            = Cardinality(followers)
    <2>1. \A i, j \in timed : Distant(time, i, j) = Gap(i, j)
        BY DEF Distant, Gap
    <2>2. \A i, j \in timed : Earlier(time, j, i) <=> Precedes(j, i)
        BY DEF Earlier, Precedes
    <2> HIDE DEF time, timed, times
    <2>3. GapsOf(timed, time) = gaps
        BY <2>1 DEF GapsOf
    <2>4. FollowersOf(timed, time) = followers
        BY <2>1, <2>2 DEF FollowersOf
    <2>5. /\ found = {} <=> GapsOf(timed, time) = {}
          /\ found # {} => Min(found) = Min(GapsOf(timed, time))
          /\ Cardinality({n \in DOMAIN intervals : intervals[n] <= 10})
                = Cardinality(FollowersOf(timed, time))
        BY <1>4, <1>5, TimesLemma
    <2> QED
        BY <2>3, <2>4, <2>5
<1>8. /\ Range(distances) = {} <=> placed = {}
      /\ placed # {} => TwiceMedian(distances)
                            = Kth(placed, (N + 1) \div 2) + Kth(placed, (N + 2) \div 2)
    <2>1. \A i \in placed : distance[i] = Distance(i)
        BY DEF Distance
    <2> HIDE DEF distance, placed, distances
    <2>2. ASSUME NEW k PROVE RankOf(placed, distance, k) = Kth(placed, k)
        <3>1. {distance[i] : i \in placed} = {Distance(i) : i \in placed}
            BY <2>1
        <3>2. ASSUME NEW d
              PROVE  KthSmallest(placed, distance, k, d) <=> IsKth(placed, k, d)
            <4>1. /\ {i \in placed : distance[i] < d} = {i \in placed : Distance(i) < d}
                  /\ {i \in placed : distance[i] <= d} = {i \in placed : Distance(i) <= d}
                BY <2>1
            <4> QED
                BY <4>1 DEF KthSmallest, IsKth
        <3> QED
            BY <3>1, <3>2 DEF Kth, RankOf
    <2>3. /\ Range(distances) = {} <=> placed = {}
          /\ placed # {} => TwiceMedian(distances)
                                = RankOf(placed, distance, (N + 1) \div 2)
                                    + RankOf(placed, distance, (N + 2) \div 2)
        BY <1>4, <1>6, DistancesLemma
    <2> QED
        BY <2>2, <2>3
<1>9. Range(weapons) =
        {source[i].weapon : i \in {k \in K : DeathRow(source[k])}} \ {None}
    <2>1. FilledBy(armed, Cells(K, "weapon"), K)
        BY FilledLemma
    <2> HIDE DEF armed, weapons
    <2> QED
        BY <2>1, <1>4, WeaponsLemma
<1>10. Features(records) =
        [kills         |-> Cardinality(DOMAIN records),
         minInterval   |-> IF found = {} THEN None ELSE Min(found),
         twiceMedian   |-> IF Range(distances) = {} THEN None ELSE TwiceMedian(distances),
         shortCount    |-> Cardinality({n \in DOMAIN intervals : intervals[n] <= 10}),
         uniqueWeapons |-> Cardinality(Range(weapons))]
    BY Zenon DEF Features
<1>11. Reference(K) =
        [kills         |-> Cardinality(K),
         minInterval   |-> IF gaps = {} THEN None ELSE Min(gaps),
         twiceMedian   |-> IF placed = {} THEN None
                           ELSE Kth(placed, (N + 1) \div 2) + Kth(placed, (N + 2) \div 2),
         shortCount    |-> Cardinality(followers),
         uniqueWeapons |-> Cardinality({source[i].weapon :
                               i \in {k \in K : DeathRow(source[k])}} \ {None})]
    BY Zenon DEF Reference
<1> HIDE DEF gaps, followers, placed, distances, weapons, intervals, found, N
<1> QED
    BY <1>2, <1>7, <1>8, <1>9, <1>10, <1>11

-------------------------------------------------------------------------------
(* A batch *)

\* The Bronze row of a row of the source.
LEMMA RowLemma ==
    ASSUME NEW i, source[i] \in Rows
    PROVE  LET row == source[i]
               r   == BronzeRow(row, i)
           IN  /\ r.event = i /\ r.match = row.match
               /\ (IF r.killer = None THEN r.player ELSE r.killer) = KillerOf(i)
               /\ r.time = IF DeathRow(row) THEN row.time ELSE None
               /\ r.distance = IF DeathRow(row) THEN row.distance ELSE None
               /\ r.weapon = IF DeathRow(row) THEN row.weapon ELSE None
               /\ DeathRow(row) => r.kills = None
               /\ ~DeathRow(row) => r.player = KillerOf(i)
<1> DEFINE row == source[i]
           r   == BronzeRow(row, i)
<1>1. CASE DeathRow(row)
    <2>1. ~SummaryRow(row)
        BY <1>1, DeathLemma
    <2>2. r = [event |-> i, match |-> row.match,
               player |-> Digest(IF row.killer = None THEN row.victim ELSE row.killer),
               killer |-> Plain(row.killer), victim |-> Plain(row.victim),
               time |-> row.time, weapon |-> row.weapon, distance |-> row.distance,
               kills |-> None]
        BY <1>1 DEF BronzeRow, Envelope
    <2>3. (IF r.killer = None THEN r.player ELSE r.killer) = KillerOf(i)
        <3>1. r.killer = Plain(row.killer)
            BY <2>2
        <3>2. r.player = Digest(IF row.killer = None THEN row.victim ELSE row.killer)
            BY <2>2
        <3>3. CASE row.killer = None
            BY <3>1, <3>2, <3>3, <2>1 DEF Plain, KillerOf
        <3>4. CASE row.killer # None
            <4>1. Plain(row.killer) # None
                BY <3>4, <1>1, NoneAssumption DEF Plain
            <4> QED
                BY <3>1, <3>4, <4>1, <2>1 DEF KillerOf
        <3> QED
            BY <3>3, <3>4
    <2> HIDE DEF r
    <2> QED
        BY <1>1, <2>2, <2>3 DEF r
<1>2. CASE ~DeathRow(row)
    <2>1. SummaryRow(row)
        BY <1>2, RowsAssumption
    <2> DEFINE e == [event |-> i, match |-> row.match, player |-> Digest(row.player),
                     killer |-> None, victim |-> None,
                     time |-> None, weapon |-> None, distance |-> None,
                     kills |-> row.kills]
    <2>2. r = [e EXCEPT !.killer = e.player]
        BY <1>2 DEF BronzeRow, Envelope
    <2>3. /\ r.event = i /\ r.match = row.match /\ r.player = Digest(row.player)
          /\ r.killer = Digest(row.player) /\ r.time = None /\ r.weapon = None
          /\ r.distance = None
        BY <2>2
    <2>4. KillerOf(i) = Digest(row.player)
        BY <2>1 DEF KillerOf
    <2> HIDE DEF r
    <2> QED
        BY <1>2, <2>3, <2>4 DEF r
<1> QED
    BY <1>1, <1>2

\* The first place of each element of a sequence.
FirstPlaces(rows) ==
    {n \in DOMAIN rows : \A m \in DOMAIN rows : m < n => rows[m] # rows[n]}

LEMMA FirstPlacesLemma ==
    ASSUME NEW S, NEW rows \in Seq(S)
    PROVE  LET F == FirstPlaces(rows)
           IN  /\ F \subseteq DOMAIN rows /\ IsFiniteSet(F)
               /\ [n \in F |-> rows[n]] \in Bijection(F, Range(rows))
<1> DEFINE F == FirstPlaces(rows)
           b == [n \in F |-> rows[n]]
<1>1. Len(rows) \in Nat /\ DOMAIN rows = 1..Len(rows)
    OBVIOUS
<1>2. F \subseteq DOMAIN rows
    BY DEF FirstPlaces
<1>3. IsFiniteSet(F)
    <2>1. IsFiniteSet(1..Len(rows))
        BY <1>1, FS_Interval
    <2> QED
        BY <2>1, <1>1, <1>2, FS_Subset
<1>4. b \in [F -> Range(rows)]
    BY <1>2 DEF Range
<1>5. ASSUME NEW m \in F, NEW n \in F, b[m] = b[n] PROVE m = n
    <2>1. m \in Nat /\ n \in Nat /\ rows[m] = rows[n]
        BY <1>1, <1>2, <1>5
    <2>2. ~(m < n) /\ ~(n < m)
        BY <2>1, <1>2 DEF FirstPlaces
    <2> QED
        BY <2>1, <2>2
<1>6. ASSUME NEW x \in Range(rows) PROVE \E n \in F : b[n] = x
    <2> DEFINE places == {n \in DOMAIN rows : rows[n] = x}
    <2>1. places \in SUBSET Nat /\ places # {}
        BY <1>1, <1>6 DEF Range
    <2> HIDE DEF places
    <2>2. PICK n \in places : \A m \in places : n <= m
        BY <2>1, LeastLemma
    <2>3. n \in DOMAIN rows /\ rows[n] = x
        BY <2>2 DEF places
    <2>4. ASSUME NEW m \in DOMAIN rows, m < n PROVE rows[m] # rows[n]
        <3>1. m \notin places
            BY <1>1, <2>1, <2>2, <2>4
        <3> QED
            BY <3>1, <2>3, <2>4 DEF places
    <2>5. n \in F
        BY <2>3, <2>4 DEF FirstPlaces
    <2> QED
        BY <2>3, <2>5
<1>7. b \in Bijection(F, Range(rows))
    BY <1>4, <1>5, <1>6 DEF Bijection, Injection, Surjection, IsInjective
<1> QED
    BY <1>2, <1>3, <1>7

\* The rows the consumer may have gathered.
RowNumbers == 1..Len(source)

\* What process_silver computes from: one Bronze row for each row of the batch.
LEMMA UniqueLemma ==
    ASSUME source \in Seq(Rows), NEW rows \in Seq(RowNumbers)
    PROVE  Deduplicated(Bronze(rows))
            = [n \in FirstPlaces(rows) |-> BronzeRow(source[rows[n]], rows[n])]
<1> DEFINE F == FirstPlaces(rows)
           all == [n \in DOMAIN rows |-> BronzeRow(source[rows[n]], rows[n])]
<1>1. F \subseteq DOMAIN rows
    BY FirstPlacesLemma
<1>2. \A n \in DOMAIN rows : rows[n] \in RowNumbers
    OBVIOUS
<1>3. \A n \in DOMAIN rows : source[rows[n]] \in Rows
    BY <1>2 DEF RowNumbers
<1>4. DOMAIN all = DOMAIN rows /\ \A n \in DOMAIN rows : all[n].event = rows[n]
    <2>1. \A n \in DOMAIN rows : all[n] = BronzeRow(source[rows[n]], rows[n])
        OBVIOUS
    <2> QED
        BY <2>1, <1>3, RowLemma
<1>5. Bronze(rows) = [n \in F |-> all[n]]
    <2>1. {n \in DOMAIN all : \A m \in DOMAIN all : m < n => all[m].event # all[n].event} = F
        <3> HIDE DEF all
        <3> QED
            BY <1>4 DEF FirstPlaces
    <2> HIDE DEF F
    <2> QED
        BY <2>1 DEF Bronze, Deduplicated, Restrict
<1> DEFINE some == [n \in F |-> all[n]]
<1>6. {n \in DOMAIN some : \A m \in DOMAIN some : m < n => some[m].event # some[n].event} = F
    <2>1. \A n \in F : some[n].event = rows[n]
        BY <1>1, <1>4
    <2>2. \A m, n \in F : m < n => rows[m] # rows[n]
        BY <1>1 DEF FirstPlaces
    <2>3. DOMAIN some = F
        OBVIOUS
    <2> HIDE DEF some, F
    <2> QED
        BY <2>1, <2>2, <2>3
<1>7. Deduplicated(some) = [n \in F |-> some[n]]
    <2> HIDE DEF some, F
    <2> QED
        BY <1>6 DEF Deduplicated, Restrict
<1>8. \A n \in F : some[n] = BronzeRow(source[rows[n]], rows[n])
    BY <1>1
<1> HIDE DEF some
<1>9. Deduplicated(some) = [n \in F |-> BronzeRow(source[rows[n]], rows[n])]
    BY <1>7, <1>8
<1> QED
    BY <1>5, <1>9 DEF some

\* The Bronze rows of some rows of the source, and the players they name.
BronzeOf(numbers) == {BronzeRow(source[i], i) : i \in numbers}
KeysOf(all) == {PlayerKey(r) : r \in all}
                \cup {VictimKey(r) : r \in {v \in all : v.victim # None}}

\* What a kill event of the batch says of its row.
LEMMA KillEventsLemma ==
    ASSUME source \in Seq(Rows), NEW rows \in Seq(RowNumbers), NEW n \in FirstPlaces(rows)
    PROVE  LET i == rows[n]
               e == KillEvents(Deduplicated(Bronze(rows)))[n]
           IN  /\ i \in RowNumbers /\ source[i] \in Rows
               /\ e.match = source[i].match /\ e.killer = KillerOf(i)
               /\ e.time = IF DeathRow(source[i]) THEN source[i].time ELSE None
               /\ e.distance = IF DeathRow(source[i]) THEN source[i].distance ELSE None
               /\ e.weapon = IF DeathRow(source[i]) THEN source[i].weapon ELSE None
<1> DEFINE F == FirstPlaces(rows)
           i == rows[n]
           r == BronzeRow(source[i], i)
           unique == [m \in F |-> BronzeRow(source[rows[m]], rows[m])]
           e == KillEvents(unique)[n]
<1>1. i \in RowNumbers /\ source[i] \in Rows
    <2>1. n \in DOMAIN rows
        BY FirstPlacesLemma
    <2> QED
        BY <2>1 DEF RowNumbers
<1>2. e = [match |-> r.match, time |-> r.time, weapon |-> r.weapon,
           distance |-> r.distance,
           killer |-> IF r.killer = None THEN r.player ELSE r.killer]
    BY DEF KillEvents
<1>3. unique = Deduplicated(Bronze(rows))
    BY UniqueLemma
<1>4. /\ r.match = source[i].match
      /\ (IF r.killer = None THEN r.player ELSE r.killer) = KillerOf(i)
      /\ r.time = IF DeathRow(source[i]) THEN source[i].time ELSE None
      /\ r.distance = IF DeathRow(source[i]) THEN source[i].distance ELSE None
      /\ r.weapon = IF DeathRow(source[i]) THEN source[i].weapon ELSE None
    BY <1>1, RowLemma
<1> HIDE DEF e, r
<1>5. /\ e.match = source[i].match /\ e.killer = KillerOf(i)
      /\ e.time = IF DeathRow(source[i]) THEN source[i].time ELSE None
      /\ e.distance = IF DeathRow(source[i]) THEN source[i].distance ELSE None
      /\ e.weapon = IF DeathRow(source[i]) THEN source[i].weapon ELSE None
    BY <1>2, <1>4
<1> QED
    BY <1>1, <1>3, <1>5 DEF e

\* The players of a gold file are those its rows name.
LEMMA DomainLemma ==
    ASSUME source \in Seq(Rows), NEW rows \in Seq(RowNumbers)
    PROVE  DOMAIN Projection(rows) = KeysOf(BronzeOf(Range(rows)))
<1> DEFINE F == FirstPlaces(rows)
           unique == [n \in F |-> BronzeRow(source[rows[n]], rows[n])]
           b == [n \in F |-> rows[n]]
<1>1. unique = Deduplicated(Bronze(rows))
    BY UniqueLemma
<1>2. Range(unique) = BronzeOf(Range(rows))
    <2>1. b \in Bijection(F, Range(rows))
        BY FirstPlacesLemma
    <2>2. b \in [F -> Range(rows)] /\ \A i \in Range(rows) : \E n \in F : b[n] = i
        BY <2>1, Zenon DEF Bijection, Injection, Surjection
    <2>3. \A n \in F : rows[n] \in Range(rows)
        BY <2>2
    <2>4. \A i \in Range(rows) : \E n \in F : rows[n] = i
        BY <2>2
    <2>5. Range(unique) = {BronzeRow(source[rows[n]], rows[n]) : n \in F}
        BY DEF Range
    <2> HIDE DEF F
    <2> QED
        BY <2>3, <2>4, <2>5 DEF BronzeOf
<1> HIDE DEF unique
<1>3. DOMAIN PlayerMatch(unique) = KeysOf(Range(unique))
    BY DEF PlayerMatch, KeysOf
<1>4. DOMAIN Projection(rows) = DOMAIN PlayerMatch(unique)
    BY <1>1 DEF Projection, Gold
<1> QED
    BY <1>2, <1>3, <1>4

\* The features of a player without kills.
LEMMA NoKillsLemma == Reference({}) = NoRecords(0)
<1>1. Timed({}) = {} /\ Placed({}) = {}
    BY DEF Timed, Placed
<1>2. Cardinality({}) = 0
    BY FS_EmptySet
<1>3. {i \in {} : \E j \in {} : Precedes(j, i) /\ Gap(i, j) <= 10} = {}
    OBVIOUS
<1>4. {Gap(p[1], p[2]) : p \in {q \in {} \X {} : q[1] # q[2]}} = {}
    OBVIOUS
<1>5. {source[i].weapon : i \in {k \in {} : DeathRow(source[k])}} \ {None} = {}
    OBVIOUS
<1> QED
    BY <1>1, <1>2, <1>3, <1>4, <1>5 DEF Reference, NoRecords

\* Each player's row holds the features of his kills in the batch.
LEMMA ProjectionLemma ==
    ASSUME source \in Seq(Rows), NEW rows \in Seq(RowNumbers),
           NEW key \in DOMAIN Projection(rows)
    PROVE  Projection(rows)[key] = Reference(KillsBy(rows, key))
<1> DEFINE F == FirstPlaces(rows)
           b == [n \in F |-> rows[n]]
           K == KillsBy(rows, key)
           unique == Deduplicated(Bronze(rows))
           events == KillEvents(unique)
           D == {n \in F : b[n] \in K}
           c == [n \in D |-> b[n]]
           records == Restrict(events, D)
<1>1. /\ F \subseteq DOMAIN rows /\ IsFiniteSet(F)
      /\ b \in Bijection(F, Range(rows))
    BY FirstPlacesLemma
<1>2. b \in [F -> Range(rows)] /\ \A i \in Range(rows) : \E n \in F : b[n] = i
    BY <1>1, Zenon DEF Bijection, Injection, Surjection
<1>3. K \in SUBSET Range(rows)
    BY DEF KillsBy
<1>4. IsFiniteSet(D) /\ c \in Bijection(D, K)
    BY <1>1, <1>3, PartLemma
<1>5. DOMAIN events = F
    <2>1. unique = [n \in F |-> BronzeRow(source[rows[n]], rows[n])]
        BY UniqueLemma
    <2> HIDE DEF unique
    <2> QED
        BY <2>1 DEF KillEvents
<1>6. ASSUME NEW n \in F
      PROVE  /\ rows[n] \in RowNumbers /\ source[rows[n]] \in Rows
             /\ events[n].match = source[rows[n]].match
             /\ events[n].killer = KillerOf(rows[n])
             /\ \A column \in {"time", "distance", "weapon"} :
                    events[n][column] = IF DeathRow(source[rows[n]])
                                        THEN source[rows[n]][column] ELSE None
    <2> DEFINE e == events[n]
    <2>1. /\ rows[n] \in RowNumbers /\ source[rows[n]] \in Rows
          /\ e.match = source[rows[n]].match /\ e.killer = KillerOf(rows[n])
          /\ e.time = IF DeathRow(source[rows[n]]) THEN source[rows[n]].time ELSE None
          /\ e.distance = IF DeathRow(source[rows[n]]) THEN source[rows[n]].distance ELSE None
          /\ e.weapon = IF DeathRow(source[rows[n]]) THEN source[rows[n]].weapon ELSE None
        BY KillEventsLemma
    <2> HIDE DEF e
    <2> QED
        BY <2>1 DEF e
<1>7. {n \in DOMAIN events : <<events[n].match, events[n].killer>> = key} = D
    <2>1. \A n \in F : rows[n] \in K <=> <<source[rows[n]].match, KillerOf(rows[n])>> = key
        BY <1>2 DEF KillsBy
    <2>2. \A n \in F : b[n] = rows[n]
        OBVIOUS
    <2> HIDE DEF events, K, F, b
    <2> QED
        BY <1>5, <1>6, <2>1, <2>2
<1>8. Projection(rows) =
        Gold(events, PlayerMatch(unique))
    BY DEF Projection
<1>9. DOMAIN Projection(rows) = DOMAIN PlayerMatch(unique)
    BY DEF Projection, Gold
<1>10. Projection(rows)[key] = IF D # {} THEN Features(records)
                               ELSE NoRecords(PlayerMatch(unique)[key])
    <2>1. DOMAIN records = D
        BY DEF Restrict
    <2> HIDE DEF events, unique, D
    <2> QED
        BY <1>7, <1>8, <1>9, <2>1 DEF Gold
<1>11. CASE D # {}
    <2>1. RecordsOf(records, D, c, K)
        <3>1. DOMAIN records = D
            BY DEF Restrict
        <3>2. ASSUME NEW i \in K PROVE i \in RowNumbers /\ source[i] \in Rows
            BY <1>2, <1>3, <1>6
        <3>3. K \subseteq Nat
            BY <3>2 DEF RowNumbers
        <3>4. ASSUME NEW column \in {"time", "distance", "weapon"}
              PROVE  [n \in D |-> records[n][column]] = ColumnOf(D, c, Cells(K, column))
            <4>1. ASSUME NEW n \in D PROVE records[n][column] = Cells(K, column)[c[n]]
                <5>1. records[n] = events[n]
                    BY DEF Restrict
                <5>2. n \in F /\ c[n] = rows[n] /\ rows[n] \in K
                    OBVIOUS
                <5> HIDE DEF records, events, c, K, F, D
                <5> QED
                    BY <1>6, <5>1, <5>2 DEF Cells
            <4> HIDE DEF records, c, D, K
            <4> QED
                BY <4>1 DEF ColumnOf
        <3> HIDE DEF records, c, D, K
        <3> QED
            BY <1>4, <3>1, <3>2, <3>3, <3>4 DEF RecordsOf
    <2>2. Features(records) = Reference(K)
        <3> HIDE DEF records, c, D, K
        <3> QED
            BY <2>1, FeaturesLemma
    <2> QED
        BY <1>10, <1>11, <2>2
<1>12. CASE D = {}
    <2>1. K = {}
        BY <1>2, <1>3, <1>12
    <2>2. {r \in Range(unique) : PlayerKey(r) = key /\ r.kills # None} = {}
        <3>1. SUFFICES ASSUME NEW r \in Range(unique), PlayerKey(r) = key, r.kills # None
                       PROVE  FALSE
            OBVIOUS
        <3>2. unique = [n \in F |-> BronzeRow(source[rows[n]], rows[n])]
            BY UniqueLemma
        <3>3. PICK n \in F : r = BronzeRow(source[rows[n]], rows[n])
            <4> HIDE DEF unique
            <4> QED
                BY <3>2 DEF Range
        <3>4. /\ r.match = source[rows[n]].match /\ r.player = KillerOf(rows[n])
            <4>1. source[rows[n]] \in Rows
                BY <1>6
            <4> QED
                BY <3>1, <3>3, <4>1, RowLemma
        <3>5. rows[n] \in K
            BY <1>2, <3>1, <3>4 DEF KillsBy, PlayerKey
        <3> QED
            BY <2>1, <3>5
    <2>3. PlayerMatch(unique)[key] = 0
        <3>1. Max({0}) = 0
            BY DEF Max
        <3>2. PlayerMatch(unique)[key] = Max({0} \cup {})
            <4>1. {r.kills : r \in {s \in Range(unique) :
                                        PlayerKey(s) = key /\ s.kills # None}} = {}
                BY <2>2
            <4>2. PlayerMatch(unique)[key] =
                    Max({0} \cup {r.kills : r \in {s \in Range(unique) :
                                                    PlayerKey(s) = key /\ s.kills # None}})
                <5> HIDE DEF unique
                <5> QED
                    BY <1>9 DEF PlayerMatch
            <4> QED
                BY <4>1, <4>2
        <3> QED
            BY <3>1, <3>2
    <2> QED
        BY <1>10, <1>12, <2>1, <2>3, NoKillsLemma
<1> QED
    BY <1>11, <1>12

\* More kills have no fewer of the features.
LEMMA MonotoneLemma ==
    ASSUME NEW L \in SUBSET Nat, IsFiniteSet(L), \A i \in L : source[i] \in Rows,
           NEW K \in SUBSET L
    PROVE  LET part == Reference(K)
               all  == Reference(L)
           IN  /\ part.kills <= all.kills
               /\ part.shortCount <= all.shortCount
               /\ part.uniqueWeapons <= all.uniqueWeapons
               /\ part.minInterval # None =>
                      /\ all.minInterval # None
                      /\ part.minInterval >= all.minInterval
<1> DEFINE gaps(S) == {Gap(p[1], p[2]) : p \in {q \in Timed(S) \X Timed(S) : q[1] # q[2]}}
           followers(S) == {i \in Timed(S) :
                               \E j \in Timed(S) : Precedes(j, i) /\ Gap(i, j) <= 10}
           weapons(S) == {source[i].weapon : i \in {k \in S : DeathRow(source[k])}} \ {None}
<1>1. ASSUME NEW S
      PROVE  /\ Reference(S).kills = Cardinality(S)
             /\ Reference(S).minInterval = IF gaps(S) = {} THEN None ELSE Min(gaps(S))
             /\ Reference(S).shortCount = Cardinality(followers(S))
             /\ Reference(S).uniqueWeapons = Cardinality(weapons(S))
    <2>1. \E median : Reference(S) =
            [kills         |-> Cardinality(S),
             minInterval   |-> IF gaps(S) = {} THEN None ELSE Min(gaps(S)),
             twiceMedian   |-> median,
             shortCount    |-> Cardinality(followers(S)),
             uniqueWeapons |-> Cardinality(weapons(S))]
        BY Zenon DEF Reference
    <2> HIDE DEF gaps, followers, weapons
    <2> QED
        BY <2>1
<1>2. Timed(K) \subseteq Timed(L) /\ Timed(L) \subseteq L
    BY DEF Timed
<1>3. Cardinality(K) <= Cardinality(L)
    BY FS_Subset
<1>4. Cardinality(followers(K)) <= Cardinality(followers(L))
    <2>1. followers(K) \subseteq followers(L) /\ followers(L) \subseteq L
        BY <1>2
    <2> HIDE DEF followers
    <2> QED
        BY <2>1, FS_Subset
<1>5. Cardinality(weapons(K)) <= Cardinality(weapons(L))
    <2> DEFINE armed == {k \in L : DeathRow(source[k])}
               held == {source[i].weapon : i \in armed}
               f == [i \in armed |-> source[i].weapon]
    <2>1. f \in Surjection(armed, held)
        <3>1. f \in [armed -> held] /\ \A x \in held : \E i \in armed : f[i] = x
            OBVIOUS
        <3> QED
            BY <3>1 DEF Surjection
    <2>2. IsFiniteSet(armed)
        BY FS_Subset
    <2>3. IsFiniteSet(held)
        <3> HIDE DEF f, held, armed
        <3> QED
            BY <2>1, <2>2, FS_Surjection
    <2>4. weapons(K) \subseteq weapons(L) /\ weapons(L) \subseteq held
        OBVIOUS
    <2> HIDE DEF weapons, held
    <2> QED
        BY <2>3, <2>4, FS_Subset
<1>6. ASSUME Reference(K).minInterval # None
      PROVE  /\ Reference(L).minInterval # None
             /\ Reference(K).minInterval >= Reference(L).minInterval
    <2>1. gaps(K) \subseteq gaps(L)
        BY <1>2
    <2>2. gaps(L) \in SUBSET Nat
        <3>1. \A i \in Timed(L) : source[i].time \in Int
            BY DeathLemma DEF Timed
        <3>2. \A i, j \in Timed(L) : Gap(i, j) \in Nat
            BY <3>1 DEF Gap
        <3> QED
            BY <3>2
    <2> HIDE DEF gaps
    <2>3. gaps(K) # {} /\ Reference(K).minInterval = Min(gaps(K))
        BY <1>1, <1>6
    <2>4. gaps(L) # {} /\ Reference(L).minInterval = Min(gaps(L))
        BY <1>1, <2>1, <2>3
    <2>5. PICK a \in gaps(L) : \A x \in gaps(L) : a <= x
        BY <2>2, <2>4, LeastLemma
    <2>6. PICK b \in gaps(K) : \A x \in gaps(K) : b <= x
        BY <2>1, <2>2, <2>3, LeastLemma
    <2>7. Min(gaps(L)) = a
        BY <2>2, <2>5 DEF Min
    <2>8. Min(gaps(K)) = b
        BY <2>1, <2>2, <2>6 DEF Min
    <2>9. a \in Nat /\ b \in gaps(L)
        BY <2>1, <2>2, <2>5, <2>6
    <2>10. a # None /\ b >= a
        BY <2>9, <2>2, <2>5, NoneAssumption
    <2> QED
        BY <2>3, <2>4, <2>7, <2>8, <2>10
<1> HIDE DEF gaps, followers, weapons
<1> QED
    BY <1>1, <1>3, <1>4, <1>5, <1>6

-------------------------------------------------------------------------------
(* The batches of the streamer *)

\* What is gathered and projected are rows of the file, and the gold rows are
\* those of the batch.
BatchInv ==
    /\ source \in Seq(Rows)
    /\ position \in 0..Len(source)
    /\ buffer \in Seq(RowNumbers)
    /\ batch \in Seq(RowNumbers)
    /\ gold = IF batch = <<>> THEN <<>> ELSE Projection(batch)

\* The invariant holds at the start.
LEMMA BatchInitLemma == Init => BatchInv
<1> SUFFICES ASSUME Init PROVE BatchInv
    OBVIOUS
<1>1. source \in Seq(Rows)
    <2>1. PICK n \in 0..MaxRows : source \in [1..n -> Rows]
        BY DEF Init, BoundedSeq, SeqOf
    <2>2. n \in Nat
        BY BoundsAssumption
    <2> QED
        BY <2>1, <2>2, SeqDef
<1>2. Len(source) \in Nat
    BY <1>1
<1>3. <<>> \in Seq(RowNumbers)
    OBVIOUS
<1> QED
    BY <1>1, <1>2, <1>3 DEF Init, BatchInv

\* Every step preserves it.
LEMMA BatchStepLemma == BatchInv /\ [Next]_vars => BatchInv'
<1> SUFFICES ASSUME BatchInv, [Next]_vars PROVE BatchInv'
    OBVIOUS
<1> USE DEF BatchInv
<1>1. RowNumbers' = RowNumbers /\ source' = source
    BY DEF Next, Receive, SetBack, ProcessManifest, vars, RowNumbers
<1>2. CASE Receive
    <2>1. position + 1 \in RowNumbers
        BY <1>2 DEF Receive, RowNumbers
    <2>2. buffer' \in Seq(RowNumbers)
        BY <1>2, <2>1, AppendProperties DEF Receive
    <2>3. Projection(batch)' = Projection(batch)
        BY <1>2 DEF Receive, Projection, Bronze
    <2>4. position' \in 0..Len(source)
        BY <1>2 DEF Receive
    <2> QED
        BY <1>1, <1>2, <2>2, <2>3, <2>4 DEF Receive
<1>3. CASE SetBack
    <2>1. <<>> \in Seq(RowNumbers)
        OBVIOUS
    <2>2. buffer' \in Seq(RowNumbers)
        BY <1>3, <2>1 DEF SetBack
    <2>3. Projection(batch)' = Projection(batch)
        BY <1>3 DEF SetBack, Projection, Bronze
    <2>4. position' \in 0..Len(source)
        BY <1>3 DEF SetBack
    <2> QED
        BY <1>1, <1>3, <2>2, <2>3, <2>4 DEF SetBack
<1>4. CASE ProcessManifest
    <2>1. <<>> \in Seq(RowNumbers)
        OBVIOUS
    <2>2. Projection(batch)' = Projection(buffer)
        BY <1>4 DEF ProcessManifest, Projection, Bronze
    <2>3. batch' # <<>> /\ gold' = Projection(batch)'
        BY <1>4, <2>2 DEF ProcessManifest
    <2> QED
        BY <1>1, <1>4, <2>1, <2>3 DEF ProcessManifest
<1>5. CASE UNCHANGED vars
    <2>1. Projection(batch)' = Projection(batch)
        BY <1>5 DEF vars, Projection, Bronze
    <2> QED
        BY <1>1, <1>5, <2>1 DEF vars
<1> QED
    BY <1>2, <1>3, <1>4, <1>5 DEF Next

\* The invariant: what is gathered and projected are rows of the file, and the
\* gold rows are the projection of the batch.
THEOREM SpecBatchInv == Spec => []BatchInv
<1> QED
    BY BatchInitLemma, BatchStepLemma, PTL DEF Spec

\* The gold rows of a batch meet the reference.
LEMMA GoldLemma == BatchInv => GoldMeetsReference
<1> SUFFICES ASSUME BatchInv, NEW key \in DOMAIN gold
             PROVE  gold[key] = Reference(KillsBy(batch, key))
    BY DEF GoldMeetsReference
<1>1. batch # <<>> /\ gold = Projection(batch)
    BY DEF BatchInv
<1>2. source \in Seq(Rows) /\ batch \in Seq(RowNumbers) /\ key \in DOMAIN Projection(batch)
    BY <1>1 DEF BatchInv
<1> QED
    BY <1>1, <1>2, ProjectionLemma

\* Sorting by time and scanning neighbours (gold.rs:144-200) finds the closest
\* pair of kills, the kills that follow another within ten seconds and the
\* median distance, of every player, in every batch of every file: the order of
\* its rows and redelivered rows make no difference.
THEOREM SpecGoldMeetsReference == Spec => []GoldMeetsReference
<1> QED
    BY SpecBatchInv, GoldLemma, PTL

\* And are no worse than those of the whole file.
LEMMA SplitLemma == BatchInv => SplitNeverExaggerates
<1> DEFINE file == [i \in DOMAIN source |-> i]
           whole == Projection(file)
<1> SUFFICES ASSUME BatchInv, NEW key \in DOMAIN gold
             PROVE  /\ gold[key].kills <= whole[key].kills
                    /\ gold[key].shortCount <= whole[key].shortCount
                    /\ gold[key].uniqueWeapons <= whole[key].uniqueWeapons
                    /\ gold[key].minInterval # None =>
                           /\ whole[key].minInterval # None
                           /\ gold[key].minInterval >= whole[key].minInterval
    BY DEF SplitNeverExaggerates
<1>1. batch # <<>> /\ gold = Projection(batch)
    BY DEF BatchInv
<1>2. source \in Seq(Rows) /\ batch \in Seq(RowNumbers) /\ key \in DOMAIN Projection(batch)
    BY <1>1 DEF BatchInv
<1>3. Len(source) \in Nat /\ DOMAIN source = 1..Len(source)
    BY <1>2
<1>4. file \in Seq(RowNumbers) /\ Range(file) = RowNumbers
    <2>1. file \in [1..Len(source) -> RowNumbers] /\ \A i \in RowNumbers : file[i] = i
        BY <1>3 DEF RowNumbers
    <2>2. DOMAIN file = RowNumbers
        BY <1>3 DEF RowNumbers
    <2> HIDE DEF file
    <2>3. file \in Seq(RowNumbers)
        BY <1>3, <2>1, SeqDef
    <2> QED
        BY <2>1, <2>2, <2>3 DEF Range
<1> HIDE DEF file
<1>5. Range(batch) \subseteq RowNumbers
    BY <1>2 DEF Range
<1>6. key \in DOMAIN whole
    <2>1. KeysOf(BronzeOf(Range(batch))) \subseteq KeysOf(BronzeOf(Range(file)))
        <3>1. BronzeOf(Range(batch)) \subseteq BronzeOf(Range(file))
            BY <1>4, <1>5 DEF BronzeOf
        <3> QED
            BY <3>1 DEF KeysOf
    <2>2. DOMAIN Projection(batch) = KeysOf(BronzeOf(Range(batch)))
        BY <1>2, DomainLemma
    <2>3. DOMAIN Projection(file) = KeysOf(BronzeOf(Range(file)))
        BY <1>2, <1>4, DomainLemma
    <2> QED
        BY <1>2, <2>1, <2>2, <2>3
<1> DEFINE K == KillsBy(batch, key)
           L == KillsBy(file, key)
<1>7. gold[key] = Reference(K) /\ whole[key] = Reference(L)
    BY <1>1, <1>2, <1>4, <1>6, ProjectionLemma
<1>8. K \subseteq L /\ L \subseteq RowNumbers
    BY <1>4, <1>5 DEF KillsBy
<1>9. L \in SUBSET Nat /\ IsFiniteSet(L) /\ \A i \in L : source[i] \in Rows
    <2>1. IsFiniteSet(RowNumbers)
        BY <1>3, FS_Interval DEF RowNumbers
    <2> HIDE DEF K, L
    <2>2. IsFiniteSet(L)
        BY <2>1, <1>8, FS_Subset
    <2> QED
        BY <2>2, <1>2, <1>3, <1>8 DEF RowNumbers
<1> HIDE DEF K, L, whole
<1> QED
    BY <1>7, <1>8, <1>9, MonotoneLemma

\* Wherever the batches of a file begin and end, and whatever is delivered
\* again, no gold row makes a player look worse than the whole file does
\* (gold.rs:29).
THEOREM SpecSplitNeverExaggerates == Spec => []SplitNeverExaggerates
<1> QED
    BY SpecBatchInv, SplitLemma, PTL

-------------------------------------------------------------------------------
(* Part 2: the decision about a player *)

\* What the sort of Ranked brings about: each element outranks the later ones.
Before(features, a, b) ==
    \/ Rounded(features[a], a) > Rounded(features[b], b)
    \/ Rounded(features[a], a) = Rounded(features[b], b) /\ a < b

InOrder(features, s) ==
    \A m, n \in DOMAIN s : m < n => Before(features, s[m], s[n])

-------------------------------------------------------------------------------
(* The arithmetic of z scores *)

\* Six features have a reference value.
LEMMA LobbyLemma == Len(Lobby) = 6
BY DEF Lobby

\* A z score is an integer number of tenths, and that of an anomaly is at least 15.
LEMMA ZScoreLemma ==
    ASSUME NEW v \in Int, NEW i \in 1..6
    PROVE  /\ Rounded(v, i) \in Int
           /\ Anomalous(v, i) => Rounded(v, i) >= 15
<1>1. CASE i = 1
    BY <1>1 DEF Rounded, Anomalous, Dividend, Divisor, Lobby
<1>2. CASE i = 2
    BY <1>2 DEF Rounded, Anomalous, Dividend, Divisor, Lobby
<1>3. CASE i = 3
    BY <1>3 DEF Rounded, Anomalous, Dividend, Divisor, Lobby
<1>4. CASE i = 4
    BY <1>4 DEF Rounded, Anomalous, Dividend, Divisor, Lobby
<1>5. CASE i = 5
    BY <1>5 DEF Rounded, Anomalous, Dividend, Divisor, Lobby
<1>6. CASE i = 6
    BY <1>6 DEF Rounded, Anomalous, Dividend, Divisor, Lobby
<1> QED
    BY <1>1, <1>2, <1>3, <1>4, <1>5, <1>6

\* A higher headshot ratio has no lower z score, and stays an anomaly.
LEMMA HeadshotsLemma ==
    ASSUME NEW v \in Int, NEW w \in Int, v < w
    PROVE  /\ Rounded(v, HeadshotRatio) <= Rounded(w, HeadshotRatio)
           /\ Anomalous(v, HeadshotRatio) => Anomalous(w, HeadshotRatio)
BY DEF Rounded, Anomalous, Dividend, Divisor, Lobby, HeadshotRatio

\* The anomalies are among the six, and among the features.
LEMMA AnomaliesLemma ==
    ASSUME NEW features \in Seq(Int)
    PROVE  /\ Anomalies(features) =
                {i \in 1..6 : i \in DOMAIN features /\ Anomalous(features[i], i)}
           /\ IsFiniteSet(Anomalies(features))
<1>1. ASSUME NEW k \in Nat PROVE Min({6, k}) = IF k < 6 THEN k ELSE 6
    BY DEF Min
<1>2. Anomalies(features)
        = {i \in 1..6 : i \in DOMAIN features /\ Anomalous(features[i], i)}
    <2>1. Min({Len(Lobby), Len(features)})
            = IF Len(features) < 6 THEN Len(features) ELSE 6
        BY <1>1, LobbyLemma
    <2> DEFINE known == Min({Len(Lobby), Len(features)})
    <2>2. Anomalies(features) = {i \in 1..known : Anomalous(features[i], i)}
        BY DEF Anomalies
    <2>3. known = IF Len(features) < 6 THEN Len(features) ELSE 6
        BY <2>1
    <2> HIDE DEF known
    <2>4. \A i : i \in 1..known <=> i \in 1..6 /\ i \in DOMAIN features
        <3>1. Len(features) \in Nat /\ DOMAIN features = 1..Len(features)
            OBVIOUS
        <3> QED
            BY <2>3, <3>1, SMTT(30)
    <2> QED
        BY <2>2, <2>4
<1>3. IsFiniteSet(1..Len(features)) /\ Anomalies(features) \subseteq 1..Len(features)
    <2> DEFINE n == Len(features)
    <2>1. n \in Nat /\ DOMAIN features = 1..n
        OBVIOUS
    <2>2. Anomalies(features) \subseteq 1..n
        BY <1>2, <2>1
    <2> HIDE DEF n
    <2>3. IsFiniteSet(1..n)
        BY <2>1, FS_Interval
    <2> QED
        BY <2>2, <2>3 DEF n
<1> QED
    BY <1>2, <1>3, FS_Subset
-------------------------------------------------------------------------------
(* The ranking *)

\* Nothing outranks itself, and no two outrank each other.
LEMMA BeforeLemma ==
    ASSUME NEW features \in Seq(Int)
    PROVE  /\ \A i \in Anomalies(features) : i \in 1..6 /\ Rounded(features[i], i) \in Int
           /\ \A i \in Anomalies(features) : ~Before(features, i, i)
           /\ \A i, j \in Anomalies(features) :
                ~(Before(features, i, j) /\ Before(features, j, i))
<1>1. ASSUME NEW i \in Anomalies(features)
      PROVE  i \in 1..6 /\ Rounded(features[i], i) \in Int
    <2>1. i \in 1..6 /\ i \in DOMAIN features /\ Anomalous(features[i], i)
        BY AnomaliesLemma
    <2>2. features[i] \in Int
        BY <2>1
    <2> QED
        BY <2>1, <2>2, ZScoreLemma
<1> QED
    BY <1>1 DEF Before

\* Every set of anomalies can be put into the order of the evidence.
LEMMA InOrderLemma ==
    ASSUME NEW features \in Seq(Int)
    PROVE  \E s \in SetToSeqs(Anomalies(features)) : InOrder(features, s)
<1> DEFINE A == Anomalies(features)
           v == [i \in A |-> -Rounded(features[i], i)]
           w == [i \in A |-> i]
<1>1. IsFiniteSet(A) /\ v \in [A -> Int] /\ w \in [A -> Int]
    BY AnomaliesLemma, BeforeLemma
<1>2. \A i, j \in A : i # j /\ NoLater(v, w, i, j) => Before(features, i, j)
    BY BeforeLemma DEF NoLater, Before
<1> HIDE DEF A, v, w
<1>3. PICK s \in SetToSeqs(A) : SortedBy(v, w, s)
    BY <1>1, SortLemma
<1>4. /\ s \in [1..Cardinality(A) -> A]
      /\ \A m, n \in 1..Cardinality(A) : m # n => s[m] # s[n]
    BY DEF SetToSeqs
<1>5. ASSUME NEW m \in DOMAIN s, NEW n \in DOMAIN s, m < n
      PROVE  Before(features, s[m], s[n])
    <2>1. Cardinality(A) \in Nat
        BY <1>1, FS_CardinalityType
    <2>2. m # n /\ s[m] \in A /\ s[n] \in A
        BY <1>4, <1>5, <2>1
    <2> QED
        BY <2>2, <1>2, <1>3, <1>4, <1>5 DEF SortedBy
<1> QED
    BY <1>5 DEF InOrder, A

\* The sort lists every anomaly once, in the order of the evidence.
LEMMA RankedLemma ==
    ASSUME NEW features \in Seq(Int)
    PROVE  LET r == Ranked(features)
               n == Cardinality(Anomalies(features))
           IN  /\ n \in Nat
               /\ r \in [1..n -> Anomalies(features)]
               /\ \A i \in Anomalies(features) : \E m \in 1..n : r[m] = i
               /\ \A i, j \in 1..n : i # j => r[i] # r[j]
               /\ \A i, j \in 1..n : i < j => Before(features, r[i], r[j])
<1> DEFINE A == Anomalies(features)
           n == Cardinality(A)
           r == Ranked(features)
<1>1. r \in SetToSeqs(A) /\ InOrder(features, r)
    BY InOrderLemma DEF Ranked, InOrder, Before
<1>2. n \in Nat
    BY AnomaliesLemma, FS_CardinalityType
<1>3. r \in [1..n -> A] /\ \A i, j \in 1..n : i # j => r[i] # r[j]
    BY <1>1 DEF SetToSeqs
<1>4. r \in Injection(1..n, A)
    BY <1>3 DEF Injection, IsInjective
<1>5. IsFiniteSet(1..n) /\ Cardinality(1..n) = n
    BY <1>2, FS_Interval
<1>6. r \in Surjection(1..n, A)
    BY <1>4, <1>5, AnomaliesLemma, FS_Injection
<1>7. \A i \in A : \E m \in 1..n : r[m] = i
    BY <1>6 DEF Surjection
<1> QED
    BY <1>1, <1>2, <1>3, <1>7 DEF InOrder
-------------------------------------------------------------------------------
(* The cut *)

\* The anomalies that outrank the headshots.
Outranking(features) == {j \in Anomalies(features) : Before(features, j, HeadshotRatio)}

LEMMA OutrankingLemma ==
    ASSUME NEW features \in Seq(Int)
    PROVE  /\ IsFiniteSet(Outranking(features))
           /\ HeadshotsShow(features) <=> Cardinality(Outranking(features)) < 2
<1>1. Outranking(features) =
        {j \in 1..Min({Len(Lobby), Len(features)}) : Outranks(features, j, HeadshotRatio)}
    BY DEF Outranking, Anomalies, Outranks, Before
<1>2. IsFiniteSet(Outranking(features))
    BY AnomaliesLemma, FS_Subset DEF Outranking
<1> QED
    BY <1>1, <1>2 DEF HeadshotsShow

\* The headshots keep one of the two places if and only if fewer than two
\* anomalies outrank them.
LEMMA TopTwoLemma ==
    ASSUME NEW features \in Seq(Int), HeadshotRatio \in Anomalies(features),
           NEW p \in 1..Cardinality(Anomalies(features)),
           Ranked(features)[p] = HeadshotRatio
    PROVE  HeadshotsShow(features) <=> p <= 2
<1> DEFINE A == Anomalies(features)
           n == Cardinality(A)
           r == Ranked(features)
           O == Outranking(features)
<1>1. /\ n \in Nat
      /\ r \in [1..n -> A]
      /\ \A i \in A : \E m \in 1..n : r[m] = i
      /\ \A i, j \in 1..n : i # j => r[i] # r[j]
      /\ \A i, j \in 1..n : i < j => Before(features, r[i], r[j])
    BY RankedLemma
<1>2. /\ \A i \in A : ~Before(features, i, i)
      /\ \A i, j \in A : ~(Before(features, i, j) /\ Before(features, j, i))
    BY BeforeLemma
<1>3. IsFiniteSet(O) /\ (HeadshotsShow(features) <=> Cardinality(O) < 2)
    BY OutrankingLemma
<1> HIDE DEF A, n, r
<1>4. p \in 1..n /\ r[p] = HeadshotRatio /\ r[p] \in A
    BY DEF A, n, r
<1>5. O = {j \in A : Before(features, j, r[p])}
    BY <1>4 DEF Outranking, A
<1> HIDE DEF O
<1>6. CASE p <= 2
    <2>1. ASSUME NEW j \in O PROVE j = r[1]
        <3>1. PICK m \in 1..n : r[m] = j
            BY <1>1, <1>5
        <3>2. ~(p < m) /\ m # p
            BY <3>1, <1>1, <1>2, <1>4, <1>5
        <3>3. m = 1
            BY <3>2, <1>1, <1>4, <1>6
        <3> QED
            BY <3>1, <3>3
    <2>2. O \in SUBSET {r[1]}
        BY <2>1
    <2>3. IsFiniteSet({r[1]}) /\ Cardinality({r[1]}) = 1
        BY FS_Singleton
    <2>4. Cardinality(O) <= 1
        BY <2>2, <2>3, FS_Subset
    <2>5. Cardinality(O) \in Nat
        BY <1>3, FS_CardinalityType
    <2> QED
        BY <2>4, <2>5, <1>3, <1>6
<1>7. CASE p > 2
    <2>1. 1 \in 1..n /\ 2 \in 1..n /\ 1 < p /\ 2 < p
        BY <1>1, <1>4, <1>7
    <2>2. r[1] \in O /\ r[2] \in O /\ r[1] # r[2]
        BY <2>1, <1>1, <1>4, <1>5
    <2> DEFINE one == {r[1]}
    <2>3. IsFiniteSet(one) /\ Cardinality(one) = 1 /\ r[2] \notin one
        BY <2>2, FS_Singleton
    <2>4. one \cup {r[2]} \in SUBSET O
        BY <2>2
    <2> HIDE DEF one
    <2>5. Cardinality(one \cup {r[2]}) = 2
        <3>1. Cardinality(one \cup {r[2]})
                = IF r[2] \in one THEN Cardinality(one) ELSE Cardinality(one) + 1
            BY <2>3, FS_AddElement, Zenon
        <3> QED
            BY <3>1, <2>3
    <2>6. 2 <= Cardinality(O)
        BY <2>4, <2>5, <1>3, FS_Subset
    <2>7. Cardinality(O) \in Nat
        BY <1>3, FS_CardinalityType
    <2> QED
        BY <2>6, <2>7, <1>3, <1>7, <1>4
<1> QED
    BY <1>1, <1>4, <1>6, <1>7

\* What the policy sees of the headshots.
LEMMA HeadshotZScoreLemma ==
    ASSUME NEW features \in Seq(Int), HeadshotRatio \in DOMAIN features
    PROVE  HeadshotZScore(TopEvidence(features)) =
             IF /\ Anomalous(features[HeadshotRatio], HeadshotRatio)
                /\ HeadshotsShow(features)
             THEN Rounded(features[HeadshotRatio], HeadshotRatio)
             ELSE 0
<1> DEFINE A == Anomalies(features)
           n == Cardinality(A)
           r == Ranked(features)
           E == TopEvidence(features)
           found == {m \in DOMAIN E : E[m].feature = HeadshotRatio}
<1>1. /\ n \in Nat
      /\ r \in [1..n -> A]
      /\ \A i \in A : \E m \in 1..n : r[m] = i
      /\ \A i, j \in 1..n : i # j => r[i] # r[j]
    BY RankedLemma
<1>2. HeadshotRatio \in A <=> Anomalous(features[HeadshotRatio], HeadshotRatio)
    BY AnomaliesLemma DEF HeadshotRatio
<1>3. /\ DOMAIN E = {m \in 1..n : m <= 2}
      /\ \A m \in DOMAIN E : /\ E[m].feature = r[m]
                            /\ E[m].zScore = Rounded(features[r[m]], r[m])
    <2>1. Len(r) = n
        BY <1>1, LenProperties
    <2>2. ASSUME NEW k \in Nat PROVE Min({2, k}) = IF k < 2 THEN k ELSE 2
        BY DEF Min
    <2>3. Min({2, Len(r)}) = IF n < 2 THEN n ELSE 2
        BY <2>1, <2>2, <1>1
    <2> DEFINE k == Min({2, Len(r)})
    <2>4. E = [m \in 1..k |->
                [feature |-> r[m], zScore |-> Rounded(features[r[m]], r[m])]]
        BY DEF TopEvidence
    <2>5. 1..k = {m \in 1..n : m <= 2}
        <3> HIDE DEF r, n
        <3> QED
            BY <2>3, <1>1
    <2> HIDE DEF E, r, k, n
    <2> QED
        BY <2>4, <2>5
<1>4. ASSUME found = {} PROVE HeadshotZScore(E) = 0
    BY <1>4 DEF HeadshotZScore
<1>5. ASSUME NEW p \in Int, found = {p}
      PROVE  HeadshotZScore(E) = E[p].zScore
    <2>1. Min({p}) = p
        BY DEF Min
    <2> HIDE DEF E
    <2> QED
        BY <2>1, <1>5 DEF HeadshotZScore
<1>6. CASE HeadshotRatio \notin A
    <2>1. found = {}
        BY <1>1, <1>3, <1>6
    <2> QED
        BY <2>1, <1>2, <1>4, <1>6
<1>7. CASE HeadshotRatio \in A
    <2>1. PICK p \in 1..n : r[p] = HeadshotRatio
        BY <1>1, <1>7
    <2>2. HeadshotsShow(features) <=> p <= 2
        BY <2>1, <1>7, TopTwoLemma
    <2>3. \A m \in 1..n : r[m] = HeadshotRatio => m = p
        BY <2>1, <1>1
    <2>4. CASE p <= 2
        <3>1. found = {p}
            BY <2>1, <2>3, <2>4, <1>3
        <3>2. E[p].zScore = Rounded(features[HeadshotRatio], HeadshotRatio)
            BY <2>1, <2>4, <1>3
        <3> QED
            BY <3>1, <3>2, <2>2, <2>4, <1>2, <1>5, <1>7
    <2>5. CASE ~(p <= 2)
        <3>1. found = {}
            BY <2>3, <2>5, <1>3
        <3> QED
            BY <3>1, <2>2, <2>5, <1>4
    <2> QED
        BY <2>4, <2>5
<1> QED
    BY <1>6, <1>7
-------------------------------------------------------------------------------
(* The decision *)

\* What evaluate decides, without the evidence and without the rules.
Decision(file, features, score) ==
    IF Banned(features) THEN "PERMANENT_BAN"
    ELSE IF score < 30 THEN "CLEAR"
    ELSE IF score < 60 THEN "WATCHLIST"
    ELSE IF score < Critical(file) THEN "ESCALATE_TO_MODERATOR"
    ELSE IF Suspicious(features, CriticalZScore(file)) THEN "SUSPEND_ACCOUNT"
    ELSE WithoutHeadshots(file)

\* What the rules of a file make of a score and the z score of the headshots.
ByRules(config, score, h) ==
    LET matching == {n \in DOMAIN config.rules : Matches(config.rules[n], score, h)}
    IN  IF matching = {} THEN config.default ELSE config.rules[Min(matching)].action

\* The first of the matching rules is one that matches with no other before it.
LEMMA FirstRuleLemma ==
    ASSUME NEW matching, NEW n \in matching,
           matching \subseteq Int, \A m \in matching : n <= m
    PROVE  matching # {} /\ Min(matching) = n
<1>1. \A x \in matching : (\A y \in matching : x <= y) => x = n
    OBVIOUS
<1> QED
    BY <1>1 DEF Min

\* The rules of the deployed file exclude each other.
LEMMA MlRiskRulesLemma ==
    ASSUME NEW score \in 0..100, NEW h \in Int
    PROVE  ByRules(MlRiskPolicy, score, h)
               = IF score < 30 THEN "CLEAR"
                 ELSE IF score < 60 THEN "WATCHLIST"
                 ELSE IF score < 80 THEN "ESCALATE_TO_MODERATOR"
                 ELSE IF h >= 25 THEN "SUSPEND_ACCOUNT"
                 ELSE "CLEAR"
<1> DEFINE rules == MlRiskPolicy.rules
           matching == {n \in DOMAIN rules : Matches(rules[n], score, h)}
           answer == ByRules(MlRiskPolicy, score, h)
<1>1. /\ matching \subseteq 1..3
      /\ 1 \in matching <=> score >= 30 /\ score < 60
      /\ 2 \in matching <=> score >= 60 /\ score < 80
      /\ 3 \in matching <=> score >= 80 /\ h >= 25
    BY AbsentAssumption DEF MlRiskPolicy, Matches
<1>2. /\ rules[1].action = "WATCHLIST"
      /\ rules[2].action = "ESCALATE_TO_MODERATOR"
      /\ rules[3].action = "SUSPEND_ACCOUNT"
      /\ MlRiskPolicy.default = "CLEAR"
    BY DEF MlRiskPolicy
<1>3. answer = IF matching = {} THEN MlRiskPolicy.default ELSE rules[Min(matching)].action
    BY DEF ByRules
<1> HIDE DEF rules, matching, answer
<1>4. \A n \in matching : n \in Int /\ (n = 1 \/ n = 2 \/ n = 3)
    BY <1>1
<1>5. CASE score < 30 \/ (score >= 80 /\ ~(h >= 25))
    <2>1. matching = {}
        BY <1>1, <1>4, <1>5
    <2> QED
        BY <2>1, <1>3, <1>2, <1>5 DEF answer
<1>6. ASSUME NEW n \in matching, \A m \in matching : n <= m
      PROVE  answer = rules[n].action
    BY <1>3, <1>4, <1>6, FirstRuleLemma
<1>7. CASE score >= 30 /\ score < 60
    <2>1. 1 \in matching /\ \A m \in matching : 1 <= m
        BY <1>1, <1>4, <1>7
    <2> QED
        BY <2>1, <1>2, <1>6, <1>7 DEF answer
<1>8. CASE score >= 60 /\ score < 80
    <2>1. 2 \in matching /\ \A m \in matching : 2 <= m
        BY <1>1, <1>4, <1>8
    <2> QED
        BY <2>1, <1>2, <1>6, <1>8 DEF answer
<1>9. CASE score >= 80 /\ h >= 25
    <2>1. 3 \in matching /\ \A m \in matching : 3 <= m
        BY <1>1, <1>4, <1>9
    <2> QED
        BY <2>1, <1>2, <1>6, <1>9 DEF answer
<1> QED
    BY <1>5, <1>7, <1>8, <1>9 DEF answer

\* The last two rules of the tests' file overlap, and the one of the headshots
\* comes first.
LEMMA ConfigsRulesLemma ==
    ASSUME NEW score \in 0..100, NEW h \in Int
    PROVE  ByRules(ConfigsPolicy, score, h)
               = IF score < 30 THEN "CLEAR"
                 ELSE IF score < 60 THEN "WATCHLIST"
                 ELSE IF score < 85 THEN "ESCALATE_TO_MODERATOR"
                 ELSE IF h >= 30 THEN "SUSPEND_ACCOUNT"
                 ELSE "PERMANENT_BAN"
<1> DEFINE rules == ConfigsPolicy.rules
           matching == {n \in DOMAIN rules : Matches(rules[n], score, h)}
           answer == ByRules(ConfigsPolicy, score, h)
<1>1. /\ matching \subseteq 1..5
      /\ 1 \in matching <=> score < 30
      /\ 2 \in matching <=> score >= 30 /\ score < 60
      /\ 3 \in matching <=> score >= 60 /\ score < 85
      /\ 4 \in matching <=> score >= 85 /\ h >= 30
      /\ 5 \in matching <=> score >= 85
    BY AbsentAssumption DEF ConfigsPolicy, Matches
<1>2. /\ rules[1].action = "CLEAR"
      /\ rules[2].action = "WATCHLIST"
      /\ rules[3].action = "ESCALATE_TO_MODERATOR"
      /\ rules[4].action = "SUSPEND_ACCOUNT"
      /\ rules[5].action = "PERMANENT_BAN"
    BY DEF ConfigsPolicy
<1>3. answer = IF matching = {} THEN ConfigsPolicy.default ELSE rules[Min(matching)].action
    BY DEF ByRules
<1> HIDE DEF rules, matching, answer
<1>4. \A n \in matching : n \in Int /\ (n = 1 \/ n = 2 \/ n = 3 \/ n = 4 \/ n = 5)
    BY <1>1
<1>5. ASSUME NEW n \in matching, \A m \in matching : n <= m
      PROVE  answer = rules[n].action
    BY <1>3, <1>4, <1>5, FirstRuleLemma
<1>6. CASE score < 30
    <2>1. 1 \in matching /\ \A m \in matching : 1 <= m
        BY <1>1, <1>4, <1>6
    <2> QED
        BY <2>1, <1>2, <1>5, <1>6 DEF answer
<1>7. CASE score >= 30 /\ score < 60
    <2>1. 2 \in matching /\ \A m \in matching : 2 <= m
        BY <1>1, <1>4, <1>7
    <2> QED
        BY <2>1, <1>2, <1>5, <1>7 DEF answer
<1>8. CASE score >= 60 /\ score < 85
    <2>1. 3 \in matching /\ \A m \in matching : 3 <= m
        BY <1>1, <1>4, <1>8
    <2> QED
        BY <2>1, <1>2, <1>5, <1>8 DEF answer
<1>9. CASE score >= 85 /\ h >= 30
    <2>1. 4 \in matching /\ \A m \in matching : 4 <= m
        BY <1>1, <1>4, <1>9
    <2> QED
        BY <2>1, <1>2, <1>5, <1>9 DEF answer
<1>10. CASE score >= 85 /\ ~(h >= 30)
    <2>1. 5 \in matching /\ \A m \in matching : 5 <= m
        BY <1>1, <1>4, <1>10
    <2> QED
        BY <2>1, <1>2, <1>5, <1>10 DEF answer
<1> QED
    BY <1>6, <1>7, <1>8, <1>9, <1>10 DEF answer

\* Under either file, evaluate decides what the request says by itself.
LEMMA DecisionLemma ==
    ASSUME NEW file \in PolicyFiles,
           NEW features \in Seq(Int), HeadshotRatio \in DOMAIN features,
           NEW score \in 0..100
    PROVE  Evaluate(file, features, score) = Decision(file, features, score)
<1> DEFINE h == HeadshotZScore(TopEvidence(features))
<1>1. h \in Int /\ \A z \in {25, 30} : h >= z <=> Suspicious(features, z)
    <2>1. features[HeadshotRatio] \in Int
        OBVIOUS
    <2>2. Rounded(features[HeadshotRatio], HeadshotRatio) \in Int
        BY <2>1, ZScoreLemma DEF HeadshotRatio
    <2> QED
        BY <2>2, HeadshotZScoreLemma DEF Suspicious
<1>2. Evaluate(file, features, score) =
        IF Banned(features) THEN "PERMANENT_BAN"
        ELSE ByRules(PolicyConfig(file), score, h)
    BY DEF Evaluate, ByRules
<1>3. CASE file = "ml-risk-policy.yml"
    <2>1. /\ PolicyConfig(file) = MlRiskPolicy /\ Critical(file) = 80
          /\ CriticalZScore(file) = 25 /\ WithoutHeadshots(file) = "CLEAR"
        BY <1>3 DEF PolicyConfig, Critical, CriticalZScore, WithoutHeadshots
    <2>2. h >= 25 <=> Suspicious(features, 25)
        BY <1>1
    <2> HIDE DEF h
    <2>3. ByRules(MlRiskPolicy, score, h)
            = IF score < 30 THEN "CLEAR"
              ELSE IF score < 60 THEN "WATCHLIST"
              ELSE IF score < 80 THEN "ESCALATE_TO_MODERATOR"
              ELSE IF Suspicious(features, 25) THEN "SUSPEND_ACCOUNT"
              ELSE "CLEAR"
        BY <1>1, <2>2, MlRiskRulesLemma
    <2> QED
        BY <1>2, <2>1, <2>3 DEF Decision
<1>4. CASE file = "policies.yaml"
    <2>1. /\ PolicyConfig(file) = ConfigsPolicy /\ Critical(file) = 85
          /\ CriticalZScore(file) = 30 /\ WithoutHeadshots(file) = "PERMANENT_BAN"
        BY <1>4 DEF PolicyConfig, Critical, CriticalZScore, WithoutHeadshots
    <2>2. h >= 30 <=> Suspicious(features, 30)
        BY <1>1
    <2> HIDE DEF h
    <2>3. ByRules(ConfigsPolicy, score, h)
            = IF score < 30 THEN "CLEAR"
              ELSE IF score < 60 THEN "WATCHLIST"
              ELSE IF score < 85 THEN "ESCALATE_TO_MODERATOR"
              ELSE IF Suspicious(features, 30) THEN "SUSPEND_ACCOUNT"
              ELSE "PERMANENT_BAN"
        BY <1>1, <2>2, ConfigsRulesLemma
    <2> QED
        BY <1>2, <2>1, <2>3 DEF Decision
<1> QED
    BY <1>3, <1>4 DEF PolicyFiles

\* A higher ratio of headshots leaves suspicious what is suspicious: it moves
\* them up in the evidence and nothing else past them.
LEMMA SuspiciousLemma ==
    ASSUME NEW features \in Seq(Int), HeadshotRatio \in DOMAIN features,
           NEW ratio \in Int, ratio > features[HeadshotRatio],
           NEW z \in Int, Suspicious(features, z)
    PROVE  Suspicious([features EXCEPT ![HeadshotRatio] = ratio], z)
<1> DEFINE more == [features EXCEPT ![HeadshotRatio] = ratio]
           h == HeadshotRatio
<1>1. /\ more \in Seq(Int)
      /\ DOMAIN more = DOMAIN features
      /\ more[h] = ratio
      /\ \A i \in DOMAIN features : i # h => more[i] = features[i]
    OBVIOUS
<1>2. features[h] \in Int /\ h \in 1..6
    BY DEF HeadshotRatio
<1>3. /\ Rounded(features[h], h) \in Int /\ Rounded(ratio, h) \in Int
      /\ Rounded(features[h], h) <= Rounded(ratio, h)
      /\ Anomalous(features[h], h) => Anomalous(ratio, h)
    BY <1>2, ZScoreLemma, HeadshotsLemma
<1> HIDE DEF more, h
<1>4. Outranking(more) \subseteq Outranking(features)
    <2> SUFFICES ASSUME NEW j \in Outranking(more) PROVE j \in Outranking(features)
        OBVIOUS
    <2>1. /\ j \in 1..6 /\ j \in DOMAIN features /\ Anomalous(more[j], j)
          /\ Before(more, j, h)
        BY <1>1, AnomaliesLemma DEF Outranking, h
    <2>2. j # h
        BY <2>1, <1>1, <1>3 DEF Before
    <2>3. more[j] = features[j] /\ more[j] \in Int
        BY <2>1, <2>2, <1>1
    <2>4. Rounded(features[j], j) \in Int
        BY <2>1, <2>3, ZScoreLemma
    <2>5. Before(features, j, h)
        BY <2>1, <2>3, <2>4, <1>1, <1>3 DEF Before
    <2> QED
        BY <2>1, <2>3, <2>5, AnomaliesLemma DEF Outranking, h
<1>5. Cardinality(Outranking(more)) <= Cardinality(Outranking(features))
    BY <1>4, OutrankingLemma, FS_Subset
<1>6. /\ Cardinality(Outranking(more)) \in Nat
      /\ Cardinality(Outranking(features)) \in Nat
    BY <1>1, OutrankingLemma, FS_CardinalityType
<1>7. HeadshotsShow(features) => HeadshotsShow(more)
    BY <1>1, <1>5, <1>6, OutrankingLemma
<1> QED
    BY <1>1, <1>3, <1>7 DEF Suspicious, more, h

\* The steps between the decisions.
LEMMA SeverityLemma ==
    /\ Severity("CLEAR") = 1
    /\ Severity("WATCHLIST") = 2
    /\ Severity("ESCALATE_TO_MODERATOR") = 3
    /\ Severity("SUSPEND_ACCOUNT") = 4
    /\ Severity("PERMANENT_BAN") = 5
<1> DEFINE actions == <<"CLEAR", "WATCHLIST", "ESCALATE_TO_MODERATOR",
                        "SUSPEND_ACCOUNT", "PERMANENT_BAN">>
<1>1. ASSUME NEW n \in 1..5
      PROVE  Severity(actions[n]) = n
    <2>1. \A m \in 1..5 : actions[n] = actions[m] => m = n
        OBVIOUS
    <2> QED
        BY <2>1 DEF Severity
<1> QED
    BY <1>1

\* The deployed file has no milder decision for more headshots.
LEMMA MilderLemma ==
    ASSUME NEW features \in Seq(Int), HeadshotRatio \in DOMAIN features,
           NEW score \in 0..100,
           NEW ratio \in Int, ratio > features[HeadshotRatio]
    PROVE  LET more == [features EXCEPT ![HeadshotRatio] = ratio]
           IN  Severity(Evaluate("ml-risk-policy.yml", more, score))
                 >= Severity(Evaluate("ml-risk-policy.yml", features, score))
<1> DEFINE more == [features EXCEPT ![HeadshotRatio] = ratio]
           file == "ml-risk-policy.yml"
<1>1. more \in Seq(Int) /\ HeadshotRatio \in DOMAIN more
    OBVIOUS
<1>2. Banned(more) <=> Banned(features)
    BY DEF Banned, Feature, HeadshotRatio
<1>3. Suspicious(features, 25) => Suspicious(more, 25)
    BY SuspiciousLemma
<1>4. /\ Evaluate(file, features, score) = Decision(file, features, score)
      /\ Evaluate(file, more, score) = Decision(file, more, score)
    BY <1>1, DecisionLemma DEF PolicyFiles
<1>5. /\ Critical(file) = 80 /\ CriticalZScore(file) = 25
      /\ WithoutHeadshots(file) = "CLEAR"
    BY DEF Critical, CriticalZScore, WithoutHeadshots
<1> HIDE DEF more, file
<1>6. Severity(Decision(file, more, score)) >= Severity(Decision(file, features, score))
    BY <1>2, <1>3, <1>5, SeverityLemma DEF Decision
<1> QED
    BY <1>4, <1>6 DEF more, file

-------------------------------------------------------------------------------
(* The requests *)

\* The answer to the request at hand is what the rules of the loaded file make of it.
AnswerInv ==
    /\ policy \in PolicyFiles /\ request \in Requests
    /\ outcome # Absent => outcome = Evaluate(policy, request.features, request.score)

\* Neither the file nor the request is exchanged while it is evaluated.
LEMMA AnswerLemma == PolicySpec => []AnswerInv
<1>1. PolicyInit => AnswerInv
    BY DEF PolicyInit, AnswerInv
<1>2. AnswerInv /\ [PolicyNext]_policyVars => AnswerInv'
    BY DEF AnswerInv, PolicyNext, EvaluateRequest, policyVars
<1> QED
    BY <1>1, <1>2, PTL DEF PolicySpec

\* What a request may be.
LEMMA RequestLemma ==
    ASSUME NEW r \in Requests
    PROVE  /\ r.features \in Seq(Int)
           /\ HeadshotRatio \in DOMAIN r.features
           /\ r.features[HeadshotRatio] \in Int
           /\ r.score \in 0..100
<1>1. r.features \in Seq(Int) /\ Len(r.features) >= 5 /\ r.score \in 0..100
    BY RequestsAssumption
<1>2. HeadshotRatio \in DOMAIN r.features
    BY <1>1 DEF HeadshotRatio
<1> QED
    BY <1>1, <1>2

\* For every request and either policy file, the rank, the cut and the ordered
\* rules decide what the file says of it.
THEOREM SpecDecisionMeetsPolicy == PolicySpec => []DecisionMeetsPolicy
<1>1. AnswerInv => DecisionMeetsPolicy
    <2> SUFFICES ASSUME AnswerInv, outcome # Absent PROVE DecisionMeetsPolicy
        BY DEF DecisionMeetsPolicy
    <2> DEFINE f == request.features
               s == request.score
               open == ~Banned(f)
               critical == s >= Critical(policy)
               suspicious == Suspicious(f, CriticalZScore(policy))
               without(action) ==
                   critical /\ ~suspicious /\ action = WithoutHeadshots(policy)
    <2>1. /\ f \in Seq(Int) /\ HeadshotRatio \in DOMAIN f /\ s \in 0..100
          /\ policy \in PolicyFiles /\ outcome = Evaluate(policy, f, s)
        BY RequestLemma DEF AnswerInv
    <2>2. outcome = Decision(policy, f, s)
        BY <2>1, DecisionLemma
    <2>3. /\ Critical(policy) \in {80, 85}
          /\ WithoutHeadshots(policy) \in {"CLEAR", "PERMANENT_BAN"}
        BY DEF Critical, WithoutHeadshots
    <2>4. /\ outcome = "SUSPEND_ACCOUNT" <=> open /\ critical /\ suspicious
          /\ outcome = "ESCALATE_TO_MODERATOR" <=> open /\ s >= 60 /\ ~critical
          /\ outcome = "WATCHLIST" <=> open /\ s \in 30..59
          /\ outcome = "PERMANENT_BAN" <=> ~open \/ without("PERMANENT_BAN")
          /\ outcome = "CLEAR" <=> open /\ (s < 30 \/ without("CLEAR"))
        <3> HIDE DEF f, s
        <3> QED
            BY <2>1, <2>2, <2>3 DEF Decision
    <2> QED
        BY <2>4 DEF DecisionMeetsPolicy
<1> QED
    BY <1>1, AnswerLemma, PTL

\* For every request and every higher ratio that may be asked, the decision of
\* the deployed policy is at least as severe.
THEOREM SpecMoreHeadshotsNeverMilder == PolicySpec => []MoreHeadshotsNeverMilder
<1>1. AnswerInv => MoreHeadshotsNeverMilder
    <2> SUFFICES ASSUME AnswerInv, outcome # Absent, policy = "ml-risk-policy.yml",
                        NEW r \in Requests,
                        r.features[HeadshotRatio] > request.features[HeadshotRatio]
                 PROVE  Severity(Evaluate(policy,
                                    [request.features EXCEPT
                                        ![HeadshotRatio] = r.features[HeadshotRatio]],
                                    request.score))
                          >= Severity(outcome)
        BY DEF MoreHeadshotsNeverMilder
    <2>1. /\ request.features \in Seq(Int)
          /\ HeadshotRatio \in DOMAIN request.features
          /\ request.score \in 0..100
          /\ outcome = Evaluate("ml-risk-policy.yml", request.features, request.score)
        BY RequestLemma DEF AnswerInv
    <2>2. r.features[HeadshotRatio] \in Int
        BY RequestLemma
    <2> QED
        BY <2>1, <2>2, MilderLemma
<1> QED
    BY <1>1, AnswerLemma, PTL
================================================================================
