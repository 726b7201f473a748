------------------------------ MODULE FiguresProofs ------------------------------
(***************************************************************************)
(* Theorems about the figures of Decisions: the delay before the next      *)
(* attempt, the report of hive validate, the use report of the audit and   *)
(* the scores of an evaluation, for delays, checks, audit lines and        *)
(* rankings of any number and size.                                        *)
(*                                                                         *)
(* The report of validate and the use report are loops, and are shown step *)
(* by step (OneMoreCheck, TallyGoesOn).  The use report is a table: that   *)
(* its rows add up to its totals is a sum over places, counted by the row  *)
(* they fall in (Part), and every row that is opened takes its own places  *)
(* out of what is left (RowsAddUp).                                        *)
(***************************************************************************)
EXTENDS DecisionsProofs

-------------------------------------------------------------------------------
(* The delay. *)

(* Twice as many sets can be made of one more number.                       *)
LEMMA PowersDouble ==
  ASSUME NEW n \in Nat
  PROVE  2 ^ n \in Nat /\ 2 ^ (n + 1) = 2 * 2 ^ n
<1> DEFINE S == 1..n
           x == n + 1
           T == 1..(n + 1)
           Pairs == (SUBSET S) \X {0, 1}
           Sets == SUBSET T
           g == [p \in Pairs |-> IF p[2] = 0 THEN p[1] ELSE p[1] \union {x}]
<1>1. IsFiniteSet(S) /\ Cardinality(S) = n /\ IsFiniteSet(T) /\ Cardinality(T) = n + 1
  <2>1. 1 \in Int /\ n \in Int /\ n + 1 \in Int
    OBVIOUS
  <2>2. /\ IsFiniteSet(1..n) /\ Cardinality(1..n) = IF 1 > n THEN 0 ELSE n - 1 + 1
        /\ IsFiniteSet(1..(n + 1)) /\ Cardinality(1..(n + 1)) = IF 1 > n + 1 THEN 0 ELSE n + 1 - 1 + 1
    BY <2>1, FS_Interval
  <2>q. QED BY <2>2
<1>2. T = S \union {x} /\ x \notin S
  OBVIOUS
<1> HIDE DEF S, T, x
<1>3. IsFiniteSet(SUBSET S) /\ Cardinality(SUBSET S) = 2 ^ n /\ IsFiniteSet(Sets) /\ Cardinality(Sets) = 2 ^ (n + 1)
  <2>1. IsFiniteSet(SUBSET S) /\ Cardinality(SUBSET S) = 2 ^ Cardinality(S)
    BY <1>1, FS_SUBSET
  <2>2. IsFiniteSet(SUBSET T) /\ Cardinality(SUBSET T) = 2 ^ Cardinality(T)
    BY <1>1, FS_SUBSET
  <2>q. QED BY <1>1, <2>1, <2>2
<1>4. IsFiniteSet({0, 1}) /\ Cardinality({0, 1}) = 2
  <2>1. 0 \in Int /\ 1 \in Int /\ {0, 1} = 0..1
    OBVIOUS
  <2>2. IsFiniteSet(0..1) /\ Cardinality(0..1) = IF 0 > 1 THEN 0 ELSE 1 - 0 + 1
    BY <2>1, FS_Interval
  <2>q. QED BY <2>1, <2>2
<1>5. IsFiniteSet(Pairs) /\ Cardinality(Pairs) = 2 ^ n * 2
  BY <1>3, <1>4, FS_Product
<1>6. g \in [Pairs -> Sets]
  <2>1. ASSUME NEW p \in Pairs PROVE (IF p[2] = 0 THEN p[1] ELSE p[1] \union {x}) \in Sets
    <3>1. p[1] \in SUBSET S
      OBVIOUS
    <3>q. QED BY <1>2, <3>1
  <2>q. QED BY <2>1
<1>7. ASSUME NEW p \in Pairs, NEW q \in Pairs, g[p] = g[q] PROVE p = q
  <2>1. p[1] \in SUBSET S /\ q[1] \in SUBSET S /\ p[2] \in {0, 1} /\ q[2] \in {0, 1}
    OBVIOUS
  <2>2. (x \in g[p] <=> p[2] = 1) /\ (x \in g[q] <=> q[2] = 1) /\ p[1] = g[p] \ {x} /\ q[1] = g[q] \ {x}
    BY <1>2, <2>1
  <2>3. p[1] = q[1] /\ p[2] = q[2]
    BY <1>7, <2>1, <2>2
  <2>q. QED BY <2>3
<1>8. ASSUME NEW A \in Sets PROVE \E p \in Pairs : g[p] = A
  <2>1. CASE x \in A
    <3> DEFINE p == <<A \ {x}, 1>>
    <3>1. p \in Pairs /\ g[p] = A
      BY <1>2, <2>1
    <3>q. QED BY <3>1
  <2>2. CASE x \notin A
    <3> DEFINE p == <<A, 0>>
    <3>1. p \in Pairs /\ g[p] = A
      BY <1>2, <2>2
    <3>q. QED BY <3>1
  <2>q. QED BY <2>1, <2>2
<1> HIDE DEF g, Pairs, Sets
<1>9. g \in Bijection(Pairs, Sets)
  BY <1>6, <1>7, <1>8, Fun_IsBij
<1>10. Cardinality(Sets) = Cardinality(Pairs)
  BY <1>5, <1>9, FS_Bijection DEF ExistsBijection
<1>11. 2 ^ n \in Nat
  BY <1>3, FS_CardinalityType
<1>q. QED BY <1>3, <1>5, <1>10, <1>11

(* What has doubled up to the maximum doubles up to the maximum.            *)
LEMMA DoubleDoubles ==
  ASSUME NEW w \in Nat, NEW most \in Nat
  PROVE  Double(Least(w, most), most) = Least(2 * w, most)
<1>1. most \div 2 \in Nat /\ 2 * (most \div 2) <= most /\ most < 2 * (most \div 2) + 2
  OBVIOUS
<1>2. CASE w >= most
  BY <1>2 DEF Double, Least
<1>3. CASE w < most /\ w > most \div 2
  BY <1>1, <1>3 DEF Double, Least
<1>4. CASE w < most /\ ~ (w > most \div 2)
  BY <1>1, <1>4 DEF Double, Least
<1>q. QED BY <1>2, <1>3, <1>4

(* backoffDelay, for any policy and any number of failures: the delay is    *)
(* the first one, doubled with every failure after the first, up to the     *)
(* maximum.                                                                 *)
THEOREM BackoffIsDoubled ==
  ASSUME NEW first \in Int, NEW most \in Int, NEW failed \in Nat \ {0}
  PROVE  Backoff(first, most, failed) =
           LET initial == IF first < 0 THEN 0 ELSE first
           IN  Least(initial * 2 ^ (failed - 1), IF most < initial THEN initial ELSE most)
<1> DEFINE initial == IF first < 0 THEN 0 ELSE first
           bound == IF most < initial THEN initial ELSE most
           delay[n \in 1..failed] == IF n = 1 THEN initial ELSE Double(delay[n - 1], bound)
           Loop(h) == [n \in 1..failed |-> IF n = 1 THEN initial ELSE Double(h[n - 1], bound)]
           meant(n) == Least(initial * 2 ^ (n - 1), bound)
           doubled == [n \in 1..failed |-> meant(n)]
<1>1. Backoff(first, most, failed) = delay[failed]
  BY DEF Backoff
<1>2. initial \in Nat /\ bound \in Nat /\ initial <= bound
  OBVIOUS
<1> HIDE DEF initial, bound
<1>3. meant(1) = initial
  <2>1. 1 - 1 = 0 /\ 2 ^ 0 = 1
    OBVIOUS
  <2>2. initial * 2 ^ (1 - 1) = initial
    BY <1>2, <2>1
  <2>q. QED BY <1>2, <2>2 DEF Least
<1>4. ASSUME NEW n \in 1..failed, n # 1 PROVE n - 1 \in 1..failed /\ meant(n) = Double(meant(n - 1), bound)
  <2> DEFINE k == n - 2
             p == 2 ^ k
             w == initial * p
  <2>1. k \in Nat /\ n - 1 = k + 1 /\ (n - 1) - 1 = k
    BY <1>4
  <2>2. p \in Nat /\ 2 ^ (k + 1) = 2 * p
    BY <2>1, PowersDouble
  <2>3. meant(n) = Least(initial * (2 * p), bound) /\ meant(n - 1) = Least(w, bound)
    BY <2>1, <2>2
  <2> HIDE DEF p, k, meant
  <2>4. w \in Nat /\ initial * (2 * p) = 2 * w
    BY <1>2, <2>2
  <2> HIDE DEF w
  <2>5. Double(Least(w, bound), bound) = Least(2 * w, bound)
    BY <1>2, <2>4, DoubleDoubles
  <2>6. n - 1 \in 1..failed
    BY <1>4
  <2>q. QED BY <2>3, <2>4, <2>5, <2>6
<1>5. doubled = Loop(doubled)
  <2>1. ASSUME NEW n \in 1..failed PROVE meant(n) = IF n = 1 THEN initial ELSE Double(doubled[n - 1], bound)
    <3> HIDE DEF meant
    <3>q. QED BY <1>3, <1>4
  <2> HIDE DEF meant
  <2>q. QED BY <2>1
<1>6. delay = Loop(delay)
  <2> HIDE DEF doubled
  <2>q. QED BY <1>5, Zenon
<1> HIDE DEF delay, doubled, meant
<1> DEFINE Bad == {n \in 1..failed : delay[n] # meant(n)}
<1>7. Bad = {}
  <2> SUFFICES ASSUME Bad # {} PROVE FALSE
    OBVIOUS
  <2>1. PICK n \in Bad : \A y \in Bad : n <= y
    <3>1. Bad \in SUBSET Nat
      OBVIOUS
    <3> HIDE DEF Bad
    <3>q. QED BY <3>1, LeastNumber
  <2>2. n \in 1..failed /\ delay[n] = IF n = 1 THEN initial ELSE Double(delay[n - 1], bound)
    BY <1>6
  <2>3. n # 1
    BY <1>3, <2>2
  <2>4. n - 1 \in 1..failed /\ n - 1 \notin Bad
    <3>1. n - 1 \in 1..failed /\ ~ (n <= n - 1)
      BY <2>2, <2>3
    <3>q. QED BY <2>1, <3>1
  <2>5. delay[n - 1] = meant(n - 1)
    BY <2>4
  <2>q. QED BY <1>4, <2>2, <2>3, <2>5
<1>8. delay[failed] = meant(failed)
  BY <1>7
<1>q. QED BY <1>1, <1>8 DEF meant, initial, bound

-------------------------------------------------------------------------------
(* The scores of an evaluation. *)

(* Of numbers up to n one is the greatest.                                  *)
LEMMA GreatestUpTo ==
  ASSUME NEW n \in Nat, NEW S \in SUBSET (0..n), S # {}
  PROVE  Max(S) \in S /\ \A y \in S : y <= Max(S)
<1> DEFINE left == {n - y : y \in S}
<1>1. left \in SUBSET Nat /\ left # {}
  <2>1. \A y \in S : n - y \in Nat
    OBVIOUS
  <2>2. left \subseteq Nat
    BY <2>1
  <2>q. QED BY <2>2
<1>2. PICK j \in left : \A y \in left : j <= y
  <2> HIDE DEF left
  <2>q. QED BY <1>1, LeastNumber
<1>3. PICK x \in S : j = n - x
  BY <1>2
<1>4. \A y \in S : y <= x
  <2> SUFFICES ASSUME NEW y \in S PROVE y <= x
    OBVIOUS
  <2>1. n - x <= n - y
    BY <1>2, <1>3
  <2>2. x \in Nat /\ y \in Nat
    OBVIOUS
  <2>q. QED BY <2>1, <2>2
<1>q. QED BY <1>3, <1>4 DEF Max

\* What the scores of an answer are.
ScoresRight(relevant, paths, said) ==
  /\ \A k \in 0..Len(paths) : /\ HitsAt(relevant, paths, k) <= HitsAt(relevant, paths, k + 1)
                              /\ HitsAt(relevant, paths, k) > 0 <=> said.first \in 1..k
  /\ said.largest <= Len(paths) /\ said.distinct * said.largest >= Len(paths)

(* Classes of at most so many places each hold all places.                  *)
LEMMA ClassesHold ==
  ASSUME NEW P, NEW paths \in Seq(P), NEW most \in Nat,
         \A p \in ToSet(paths) : Cardinality({i \in DOMAIN paths : paths[i] = p}) <= most
  PROVE  Cardinality(ToSet(paths)) \in Nat /\ Cardinality(ToSet(paths)) * most >= Len(paths)
<1> DEFINE D == 1..Len(paths)
           class(p) == {i \in D : paths[i] = p}
           upto(i) == {j \in 1..i : paths[j] = paths[i]}
           Pairs == ToSet(paths) \X (1..most)
           g == [i \in D |-> <<paths[i], Cardinality(upto(i))>>]
<1>1. Len(paths) \in Nat /\ DOMAIN paths = D /\ IsFiniteSet(D) /\ Cardinality(D) = Len(paths)
  <2>1. Len(paths) \in Nat /\ DOMAIN paths = D
    OBVIOUS
  <2>2. 1 \in Int /\ Len(paths) \in Int
    BY <2>1
  <2>3. IsFiniteSet(D) /\ Cardinality(D) = IF 1 > Len(paths) THEN 0 ELSE Len(paths) - 1 + 1
    BY <2>2, FS_Interval
  <2>q. QED BY <2>1, <2>3
<1>2. ASSUME NEW p PROVE IsFiniteSet(class(p)) /\ Cardinality(class(p)) \in Nat
  <2>1. class(p) \in SUBSET D
    OBVIOUS
  <2> HIDE DEF class, D
  <2>2. IsFiniteSet(class(p))
    BY <1>1, <2>1, FS_Subset
  <2>q. QED BY <2>2, FS_CardinalityType
<1>3. ASSUME NEW i \in D PROVE upto(i) \subseteq class(paths[i]) /\ i \in upto(i) /\ IsFiniteSet(upto(i))
  <2>1. upto(i) \subseteq class(paths[i]) /\ i \in upto(i)
    BY <1>1
  <2> HIDE DEF upto, class
  <2>q. QED BY <1>2, <2>1, FS_Subset
<1>4. ASSUME NEW i \in D PROVE Cardinality(upto(i)) \in 1..most /\ paths[i] \in ToSet(paths)
  <2>1. paths[i] \in ToSet(paths)
    BY <1>1 DEF ToSet
  <2>2. Cardinality(class(paths[i])) <= most
    BY <1>1, <2>1
  <2> HIDE DEF class, upto
  <2>3. Cardinality(upto(i)) <= Cardinality(class(paths[i])) /\ Cardinality(upto(i)) \in Nat
    BY <1>2, <1>3, FS_Subset, FS_CardinalityType
  <2>4. Cardinality(upto(i)) # 0
    BY <1>3, FS_EmptySet
  <2>q. QED BY <1>2, <2>1, <2>2, <2>3, <2>4
<1>5. g \in [D -> Pairs]
  <2> HIDE DEF upto, D
  <2>q. QED BY <1>4
<1>6. ASSUME NEW i \in D, NEW j \in D, i < j, paths[i] = paths[j] PROVE Cardinality(upto(i)) # Cardinality(upto(j))
  <2>1. upto(i) \subseteq upto(j) /\ j \notin upto(i)
    BY <1>1, <1>6
  <2>2. j \in upto(j) /\ IsFiniteSet(upto(j))
    BY <1>3
  <2> HIDE DEF upto
  <2>q. QED BY <2>1, <2>2, FS_Subset
<1>7. ASSUME NEW i \in D, NEW j \in D, g[i] = g[j] PROVE i = j
  <2>1. paths[i] = paths[j] /\ Cardinality(upto(i)) = Cardinality(upto(j))
    <3> HIDE DEF upto
    <3>q. QED BY <1>7
  <2>2. ~ (i < j) /\ ~ (j < i)
    <3> HIDE DEF upto
    <3>q. QED BY <1>6, <2>1
  <2>q. QED BY <1>1, <2>2
<1>8. IsFiniteSet(ToSet(paths)) /\ Cardinality(ToSet(paths)) \in Nat
  <2>1. IsFiniteSet(ToSet(paths))
    BY ListIsFinite
  <2>q. QED BY <2>1, FS_CardinalityType
<1>9. IsFiniteSet(1..most) /\ Cardinality(1..most) = most
  <2>1. 1 \in Int /\ most \in Int
    OBVIOUS
  <2>2. IsFiniteSet(1..most) /\ Cardinality(1..most) = IF 1 > most THEN 0 ELSE most - 1 + 1
    BY <2>1, FS_Interval
  <2>q. QED BY <2>2
<1>10. IsFiniteSet(Pairs) /\ Cardinality(Pairs) = Cardinality(ToSet(paths)) * most
  BY <1>8, <1>9, FS_Product
<1> HIDE DEF g, Pairs, D
<1>11. g \in Injection(D, Pairs)
  BY <1>5, <1>7 DEF Injection, IsInjective
<1>12. Cardinality(D) <= Cardinality(Pairs)
  BY <1>10, <1>11, FS_Injection
<1> DEFINE c == Cardinality(ToSet(paths)) * most
<1>13. Len(paths) <= c /\ c \in Int
  BY <1>1, <1>8, <1>10, <1>12
<1> HIDE DEF c
<1>14. c >= Len(paths)
  BY <1>1, <1>13
<1>q. QED BY <1>8, <1>14 DEF c

(* scoreEvalQuery and recallAt, for any list of relevant paths and any      *)
(* answer: recall grows with k, the first relevant result is where it stops *)
(* being zero, and no document has more results than there are.             *)
THEOREM ScoresAreRight ==
  ASSUME NEW P, NEW relevant \in Seq(P), NEW paths \in Seq(P)
  PROVE  ScoresRight(relevant, paths, Score(relevant, paths))
<1> DEFINE L == Len(paths)
           first == FirstRelevantRank(relevant, paths)
           hits == {i \in DOMAIN paths : paths[i] \in ToSet(relevant)}
           upto(k) == IF k > L THEN L ELSE k
           found(k) == {paths[i] : i \in 1..upto(k)}
           of(k) == {i \in DOMAIN relevant : relevant[i] \in found(k)}
           sizes == {Cardinality({i \in DOMAIN paths : paths[i] = p}) : p \in ToSet(paths)} \union {0}
           said == Score(relevant, paths)
<1>1. L \in Nat /\ DOMAIN paths = 1..L /\ DOMAIN relevant = 1..Len(relevant) /\ Len(relevant) \in Nat
  OBVIOUS
<1>2. /\ said.first = first /\ said.distinct = Cardinality(ToSet(paths)) /\ said.largest = Max(sizes)
      /\ first = (IF hits = {} THEN 0 ELSE Min(hits))
  BY DEF Score, FirstRelevantRank
<1>3. \A k : HitsAt(relevant, paths, k) = Cardinality(of(k))
  BY DEF HitsAt
<1> HIDE DEF said, L, first, sizes
<1>4. ASSUME NEW k \in Nat
      PROVE  IsFiniteSet(of(k)) /\ Cardinality(of(k)) \in Nat /\ (Cardinality(of(k)) = 0 <=> of(k) = {})
  <2>1. of(k) \in SUBSET (1..Len(relevant)) /\ IsFiniteSet(1..Len(relevant))
    BY <1>1, IntervalIsFinite
  <2> HIDE DEF of
  <2>2. IsFiniteSet(of(k))
    BY <2>1, FS_Subset
  <2>q. QED BY <2>2, FS_CardinalityType, FS_EmptySet
<1>5. ASSUME NEW k \in 0..L PROVE Cardinality(of(k)) <= Cardinality(of(k + 1))
  <2>1. 1..upto(k) \subseteq 1..upto(k + 1) /\ k \in Nat /\ k + 1 \in Nat
    BY <1>1
  <2>2. found(k) \subseteq found(k + 1)
    <3> HIDE DEF upto
    <3>q. QED BY <2>1
  <2>3. of(k) \subseteq of(k + 1)
    <3> HIDE DEF found
    <3>q. QED BY <2>2
  <2> HIDE DEF of
  <2>4. IsFiniteSet(of(k + 1))
    BY <1>4, <2>1
  <2>q. QED BY <2>3, <2>4, FS_Subset
<1>6. hits # {} => first \in hits /\ \A i \in hits : first <= i
  <2> SUFFICES ASSUME hits # {} PROVE first \in hits /\ \A i \in hits : first <= i
    OBVIOUS
  <2>1. hits \in SUBSET Nat
    BY <1>1
  <2>2. first = Min(hits)
    BY <1>2
  <2> HIDE DEF hits
  <2>3. \E x \in hits : \A y \in hits : x <= y
    BY <2>1, LeastNumber
  <2>q. QED BY <2>2, <2>3 DEF Min
<1>7. ASSUME NEW k \in 0..L PROVE of(k) # {} <=> first \in 1..k
  <2>1. upto(k) = k
    BY <1>1
  <2>2. of(k) # {} <=> \E j \in 1..k : j \in hits
    <3>1. of(k) # {} <=> \E i \in DOMAIN relevant, j \in 1..k : relevant[i] = paths[j]
      BY <2>1
    <3>2. \A j \in 1..k : j \in DOMAIN paths
      BY <1>1
    <3>3. \A j \in 1..k : j \in hits <=> \E i \in DOMAIN relevant : relevant[i] = paths[j]
      BY <3>2 DEF ToSet
    <3>q. QED BY <3>1, <3>3
  <2>3. ASSUME NEW j \in 1..k, j \in hits PROVE first \in 1..k
    <3>1. first \in hits /\ first <= j
      BY <1>6, <2>3
    <3>2. first \in 1..L
      BY <1>1, <3>1
    <3>q. QED BY <1>1, <3>1, <3>2
  <2>4. ASSUME first \in 1..k PROVE first \in hits
    <3>1. first # 0
      BY <2>4
    <3>2. hits # {}
      BY <1>2, <3>1
    <3>q. QED BY <1>6, <3>2
  <2> HIDE DEF hits, of
  <2>q. QED BY <2>2, <2>3, <2>4
<1> HIDE DEF of, hits
<1>8. ASSUME NEW k \in 0..L
      PROVE  /\ HitsAt(relevant, paths, k) <= HitsAt(relevant, paths, k + 1)
             /\ HitsAt(relevant, paths, k) > 0 <=> said.first \in 1..k
  <2>1. k \in Nat
    BY <1>1
  <2>2. Cardinality(of(k)) \in Nat /\ (Cardinality(of(k)) = 0 <=> of(k) = {})
    BY <1>4, <2>1
  <2>3. Cardinality(of(k)) > 0 <=> of(k) # {}
    BY <2>2
  <2>q. QED BY <1>2, <1>3, <1>5, <1>7, <2>3
<1>9. Max(sizes) \in 0..L /\ \A p \in ToSet(paths) : Cardinality({i \in DOMAIN paths : paths[i] = p}) <= Max(sizes)
  <2>1. ASSUME NEW p \in ToSet(paths) PROVE Cardinality({i \in DOMAIN paths : paths[i] = p}) \in 0..L
    <3> DEFINE C == {i \in DOMAIN paths : paths[i] = p}
    <3>1. C \in SUBSET (1..L) /\ 1 \in Int /\ L \in Int
      BY <1>1
    <3>2. IsFiniteSet(1..L) /\ Cardinality(1..L) = IF 1 > L THEN 0 ELSE L - 1 + 1
      BY <3>1, FS_Interval
    <3> HIDE DEF C
    <3>3. IsFiniteSet(C) /\ Cardinality(C) <= Cardinality(1..L)
      BY <3>1, <3>2, FS_Subset
    <3>4. Cardinality(C) \in Nat
      BY <3>3, FS_CardinalityType
    <3>5. Cardinality(C) \in 0..L
      BY <1>1, <3>2, <3>3, <3>4
    <3>q. QED BY <3>5 DEF C
  <2>2. sizes \in SUBSET (0..L) /\ sizes # {} /\ \A p \in ToSet(paths) : Cardinality({i \in DOMAIN paths : paths[i] = p}) \in sizes
    <3> DEFINE number(p) == Cardinality({i \in DOMAIN paths : paths[i] = p})
    <3>1. sizes = {number(p) : p \in ToSet(paths)} \union {0}
      BY DEF sizes
    <3>2. \A p \in ToSet(paths) : number(p) \in 0..L
      BY <2>1
    <3>3. 0 \in 0..L
      BY <1>1
    <3> HIDE DEF number
    <3>4. sizes \in SUBSET (0..L) /\ sizes # {} /\ \A p \in ToSet(paths) : number(p) \in sizes
      BY <3>1, <3>2, <3>3
    <3>q. QED BY <3>4 DEF number
  <2>3. Max(sizes) \in sizes /\ \A y \in sizes : y <= Max(sizes)
    BY <1>1, <2>2, GreatestUpTo
  <2>q. QED BY <2>2, <2>3
<1>10. said.largest <= Len(paths) /\ said.distinct * said.largest >= Len(paths)
  <2> DEFINE most == Max(sizes)
  <2> HIDE DEF most
  <2>1. most \in Nat /\ most <= L
    BY <1>1, <1>9 DEF most
  <2>2. \A p \in ToSet(paths) : Cardinality({i \in DOMAIN paths : paths[i] = p}) <= most
    BY <1>9 DEF most
  <2>3. Cardinality(ToSet(paths)) * most >= Len(paths)
    BY <2>1, <2>2, ClassesHold
  <2>q. QED BY <1>2, <2>1, <2>3 DEF most, L
<1>q. QED BY <1>8, <1>10 DEF ScoresRight, said, L

-------------------------------------------------------------------------------
(* The report of the checks. *)

Reports == [checks : Seq(CheckNames \X {"passed", "failed", "skipped"}), ok : BOOLEAN, exit : Int]

NoChecks == [checks |-> <<>>, ok |-> TRUE, exit |-> ExitOK]

AllChecks(names, failures) ==
  FoldLeft(LAMBDA report, name : AddCheck(report, name, failures), NoChecks, names)

StatusOf(name, failures) ==
  IF name = "credentials" /\ failures["connectivity"] # ExitOK THEN "skipped"
  ELSE IF failures[name] = ExitOK THEN "passed" ELSE "failed"

Abandoned(report, failures) ==
  "configuration" \in {report.checks[i][1] : i \in DOMAIN report.checks} /\ failures["configuration"] # ExitOK

(* ValidateOperational: what the next check does to a report.               *)
LEMMA AddCheckReports ==
  ASSUME NEW failures \in [CheckNames -> Int], NEW report \in Reports, NEW name \in CheckNames
  PROVE  /\ AddCheck(report, name, failures) \in Reports
         /\ Abandoned(report, failures) => AddCheck(report, name, failures) = report
         /\ ~Abandoned(report, failures) =>
              /\ AddCheck(report, name, failures).checks = Append(report.checks, <<name, StatusOf(name, failures)>>)
              /\ AddCheck(report, name, failures).ok <=> report.ok /\ StatusOf(name, failures) # "failed"
              /\ AddCheck(report, name, failures).exit =
                   IF StatusOf(name, failures) = "failed" THEN Graver(report.exit, failures[name]) ELSE report.exit
<1> DEFINE status == StatusOf(name, failures)
           new == [checks |-> Append(report.checks, <<name, status>>),
                   ok   |-> report.ok /\ status # "failed",
                   exit |-> IF status = "failed" THEN Graver(report.exit, failures[name]) ELSE report.exit]
<1>1. AddCheck(report, name, failures) = IF Abandoned(report, failures) THEN report ELSE new
  BY DEF AddCheck, Abandoned, StatusOf
<1>2. status \in {"passed", "failed", "skipped"}
  BY DEF StatusOf
<1>3. report.checks \in Seq(CheckNames \X {"passed", "failed", "skipped"}) /\ report.ok \in BOOLEAN /\ report.exit \in Int
  BY DEF Reports
<1> HIDE DEF status
<1>4. Append(report.checks, <<name, status>>) \in Seq(CheckNames \X {"passed", "failed", "skipped"})
  <2>1. <<name, status>> \in CheckNames \X {"passed", "failed", "skipped"}
    BY <1>2
  <2> DEFINE c == report.checks
             E == CheckNames \X {"passed", "failed", "skipped"}
             x == <<name, status>>
  <2>2. c \in Seq(E) /\ x \in E
    BY <1>3, <2>1
  <2> HIDE DEF c, E, x
  <2>3. Append(c, x) \in Seq(E)
    BY <2>2
  <2>q. QED BY <2>3 DEF c, E, x
<1>5. (IF status = "failed" THEN Graver(report.exit, failures[name]) ELSE report.exit) \in Int
  BY <1>3 DEF Graver
<1>6. new \in Reports
  BY <1>3, <1>4, <1>5 DEF Reports
<1>7. /\ new.checks = Append(report.checks, <<name, status>>)
      /\ new.ok <=> report.ok /\ status # "failed"
      /\ new.exit = IF status = "failed" THEN Graver(report.exit, failures[name]) ELSE report.exit
  BY <1>3
<1>q. QED BY <1>1, <1>6, <1>7 DEF status

ReportSteps(h, names, failures, n) ==
  /\ AllChecks(names, failures) = h[1..n]
  /\ h[1..0] = NoChecks
  /\ \A k \in 1..n : h[1..k] = AddCheck(h[1..(k - 1)], names[k], failures)

(* The checks are made one by one.                                          *)
LEMMA ChecksGoOn ==
  ASSUME NEW failures \in [CheckNames -> Int], NEW n \in Nat, NEW t, t \in [1..n -> CheckNames]
  PROVE  \E h : ReportSteps(h, t, failures, n)
<1> DEFINE D == DOMAIN t
           V == Reports
           A == CheckNames
           f == [p \in V \X A |-> AddCheck(p[1], p[2], failures)]
           Loop(h) == [s \in SUBSET D |-> IF s = {} THEN NoChecks ELSE LET x == Max(s) IN AddCheck(h[s \ {x}], t[x], failures)]
           iter[s \in SUBSET D] == IF s = {} THEN NoChecks ELSE LET x == Max(s) IN AddCheck(iter[s \ {x}], t[x], failures)
<1>1. AllChecks(t, failures) = iter[D]
  BY DEF AllChecks, FoldLeft, MapThenFoldSet
<1>2. D = 1..n
  OBVIOUS
<1>3. f \in [V \X A -> V]
  <2>1. ASSUME NEW p \in V \X A PROVE AddCheck(p[1], p[2], failures) \in V
    <3>1. p[1] \in Reports /\ p[2] \in CheckNames
      OBVIOUS
    <3>q. QED BY <3>1, AddCheckReports
  <2>q. QED BY <2>1
<1>4. PICK h \in [SUBSET (1..n) -> V] : Accumulates(h, 1..n, f, NoChecks, t)
  <2>1. NoChecks \in V
    BY DEF NoChecks, Reports, ExitOK
  <2> HIDE DEF f, V, A
  <2>2. t \in [1..n -> A]
    BY DEF A
  <2>q. QED BY <1>3, <2>1, <2>2, LoopExists
<1>5. ASSUME NEW u \in SUBSET (1..n)
      PROVE  h[u] = IF u = {} THEN NoChecks ELSE AddCheck(h[u \ {Max(u)}], t[Max(u)], failures)
  <2>1. CASE u = {}
    BY <1>4, <2>1 DEF Accumulates
  <2>2. CASE u # {}
    <3>1. Max(u) \in u
      BY <2>2, GreatestNumber
    <3>2. h[u \ {Max(u)}] \in V /\ t[Max(u)] \in A
      BY <1>4, <3>1
    <3>3. h[u] = f[<<h[u \ {Max(u)}], t[Max(u)]>>]
      BY <1>4, <2>2 DEF Accumulates
    <3> DEFINE a == h[u \ {Max(u)}]
               b == t[Max(u)]
    <3> HIDE DEF a, b
    <3>4. a \in V /\ b \in A /\ h[u] = f[<<a, b>>]
      BY <3>2, <3>3 DEF a, b
    <3> HIDE DEF V, A
    <3>5. f[<<a, b>>] = AddCheck(a, b, failures)
      BY <3>4
    <3>q. QED BY <2>2, <3>4, <3>5 DEF a, b
  <2>q. QED BY <2>1, <2>2
<1>6. h = Loop(h)
  <2>1. h = [u \in SUBSET D |-> h[u]]
    BY <1>2
  <2>2. \A u \in SUBSET D : h[u] = IF u = {} THEN NoChecks ELSE LET x == Max(u) IN AddCheck(h[u \ {x}], t[x], failures)
    BY <1>2, <1>5
  <2> HIDE DEF D
  <2>q. QED BY <2>1, <2>2
<1>7. iter = Loop(iter)
  BY <1>6, Zenon
<1> HIDE DEF iter
<1>8. iter[1..0] = NoChecks
  <2>1. 1..0 = {}
    OBVIOUS
  <2>2. iter[{}] = NoChecks
    BY <1>7
  <2>q. QED BY <2>1, <2>2
<1>9. ASSUME NEW k \in 1..n PROVE iter[1..k] = AddCheck(iter[1..(k - 1)], t[k], failures)
  <2> DEFINE I == 1..k
  <2> HIDE DEF I
  <2>1. I \in SUBSET D /\ I # {} /\ Max(I) = k /\ I \ {k} = 1..(k - 1)
    BY <1>2, UpTo DEF I
  <2>2. iter[I] = AddCheck(iter[I \ {Max(I)}], t[Max(I)], failures)
    <3> HIDE DEF D
    <3>q. QED BY <1>7, <2>1
  <2>q. QED BY <2>1, <2>2 DEF I
<1>10. iter[D] = iter[1..n]
  <2> HIDE DEF D
  <2>q. QED BY <1>2
<1>11. ReportSteps(iter, t, failures, n)
  BY <1>1, <1>8, <1>9, <1>10 DEF ReportSteps
<1>q. QED BY <1>11

Stopped(failures) == [checks |-> <<<<"configuration", "failed">>>>, ok |-> FALSE, exit |-> failures["configuration"]]

(* ValidateOperational: no check follows a wrong configuration.             *)
LEMMA StopsAtConfiguration ==
  ASSUME NEW failures \in [CheckNames -> Int], NEW n \in Nat \ {0}, NEW t, t \in [1..n -> CheckNames],
         t[1] = "configuration", failures["configuration"] # ExitOK
  PROVE  AllChecks(t, failures) = Stopped(failures)
<1> DEFINE R == Stopped(failures)
           conf == "configuration"
<1>0. n \in Nat /\ conf \in CheckNames
  BY DEF CheckNames
<1>1. PICK h : ReportSteps(h, t, failures, n)
  BY <1>0, ChecksGoOn
<1>2. NoChecks \in Reports /\ ~Abandoned(NoChecks, failures) /\ StatusOf(conf, failures) = "failed"
  BY DEF NoChecks, Reports, ExitOK, Abandoned, StatusOf
<1>3. AddCheck(NoChecks, conf, failures) = R
  <2> DEFINE x == <<conf, "failed">>
             new == AddCheck(NoChecks, conf, failures)
  <2>1. /\ new.checks = Append(NoChecks.checks, x)
        /\ new.ok <=> NoChecks.ok /\ "failed" # "failed"
        /\ new.exit = Graver(NoChecks.exit, failures[conf])
        /\ new \in Reports
    BY <1>0, <1>2, AddCheckReports
  <2>2. Append(NoChecks.checks, x) = <<x>>
    BY DEF NoChecks
  <2>3. Graver(NoChecks.exit, failures[conf]) = failures[conf]
    BY DEF Graver, NoChecks, ExitOK
  <2> HIDE DEF new
  <2>4. new \in [checks : Seq(CheckNames \X {"passed", "failed", "skipped"}), ok : BOOLEAN, exit : Int]
    BY <2>1 DEF Reports
  <2>5. new = [checks |-> new.checks, ok |-> new.ok, exit |-> new.exit]
    BY <2>4
  <2>6. new.ok = FALSE
    BY <2>1, <2>4
  <2>q. QED BY <2>1, <2>2, <2>3, <2>5, <2>6 DEF Stopped, new
<1>4. AddCheck(NoChecks, conf, failures) \in Reports
  BY <1>0, <1>2, AddCheckReports
<1>5. R \in Reports /\ Abandoned(R, failures)
  <2>1. R \in Reports
    BY <1>3, <1>4
  <2>2. Abandoned(R, failures)
    BY DEF Abandoned, Stopped
  <2>q. QED BY <2>1, <2>2
<1>6. ASSUME NEW name \in CheckNames PROVE AddCheck(R, name, failures) = R
  BY <1>5, AddCheckReports
<1> HIDE DEF R, conf
<1> DEFINE Bad == {k \in 1..n : h[1..k] # R}
<1>7. Bad = {}
  <2> SUFFICES ASSUME Bad # {} PROVE FALSE
    OBVIOUS
  <2>1. PICK k \in Bad : \A y \in Bad : k <= y
    <3>1. Bad \in SUBSET Nat
      OBVIOUS
    <3> HIDE DEF Bad
    <3>q. QED BY <3>1, LeastNumber
  <2>2. h[1..k] = AddCheck(h[1..(k - 1)], t[k], failures) /\ t[k] \in CheckNames
    BY <1>1 DEF ReportSteps
  <2>3. ASSUME k = 1 PROVE FALSE
    <3>1. h[1..(k - 1)] = NoChecks
      <4>1. k - 1 = 0
        BY <2>3
      <4>q. QED BY <1>1, <4>1 DEF ReportSteps
    <3>q. QED BY <1>3, <2>1, <2>2, <2>3, <3>1 DEF conf
  <2>4. ASSUME k # 1 PROVE FALSE
    <3>1. k - 1 \in 1..n /\ ~ (k <= k - 1)
      BY <2>4
    <3>2. h[1..(k - 1)] = R
      BY <2>1, <3>1
    <3>q. QED BY <1>6, <2>1, <2>2, <3>2
  <2>q. QED BY <2>3, <2>4
<1>8. h[1..n] = R
  BY <1>7
<1>q. QED BY <1>1, <1>8 DEF ReportSteps, R

FailedOf(t, failures, k) == {i \in 1..k : StatusOf(t[i], failures) = "failed"}

\* What a report is after k checks when the configuration is right.
Whole(r, t, failures, k) ==
  /\ r \in Reports
  /\ r.checks = [i \in 1..k |-> <<t[i], StatusOf(t[i], failures)>>]
  /\ r.ok <=> FailedOf(t, failures, k) = {}
  /\ r.exit = ExitOK <=> FailedOf(t, failures, k) = {}
  /\ r.exit # ExitOK => /\ \E i \in FailedOf(t, failures, k) : r.exit = failures[t[i]]
                        /\ \A i \in FailedOf(t, failures, k) : r.exit <= failures[t[i]]

(* ValidateOperational: how the next check makes a report longer.           *)
LEMMA OneMoreCheck ==
  ASSUME NEW failures \in [CheckNames -> Int], NEW n \in Nat, NEW t, t \in [1..n -> CheckNames],
         failures["configuration"] = ExitOK, NEW k \in 1..n, NEW r, Whole(r, t, failures, k - 1)
  PROVE  Whole(AddCheck(r, t[k], failures), t, failures, k)
<1> DEFINE new == AddCheck(r, t[k], failures)
           status == StatusOf(t[k], failures)
           code == failures[t[k]]
           were == FailedOf(t, failures, k - 1)
           are == FailedOf(t, failures, k)
<1>0. t[k] \in CheckNames /\ code \in Int /\ r \in Reports
  BY DEF Whole
<1>1. ~Abandoned(r, failures)
  BY DEF Abandoned
<1>2. /\ new \in Reports
      /\ new.checks = Append(r.checks, <<t[k], status>>)
      /\ new.ok <=> r.ok /\ status # "failed"
      /\ new.exit = IF status = "failed" THEN Graver(r.exit, code) ELSE r.exit
  BY <1>0, <1>1, AddCheckReports
<1>3. are = were \union (IF status = "failed" THEN {k} ELSE {})
  <2>1. 1..k = 1..(k - 1) \union {k}
    OBVIOUS
  <2>q. QED BY <2>1 DEF FailedOf
<1>4. status = "failed" => code # ExitOK
  BY DEF StatusOf
<1>5. new.checks = [i \in 1..k |-> <<t[i], StatusOf(t[i], failures)>>]
  <2> DEFINE item(i) == <<t[i], StatusOf(t[i], failures)>>
             c == [i \in 1..(k - 1) |-> item(i)]
             E == CheckNames \X {"passed", "failed", "skipped"}
             x == item(k)
  <2>1. r.checks = c
    BY DEF Whole
  <2>2. r.checks \in Seq(E)
    BY <1>0 DEF Reports
  <2> HIDE DEF item, E
  <2>3. c \in Seq(E) /\ DOMAIN c = 1..(k - 1)
    BY <2>1, <2>2
  <2>4. Len(c) = k - 1
    <3> HIDE DEF c
    <3>1. DOMAIN c = 1..Len(c) /\ Len(c) \in Nat /\ k - 1 \in Nat
      BY <2>3
    <3>q. QED BY <2>3, <3>1
  <2>5. Append(c, item(k)) = [i \in 1..k |-> item(i)]
    <3>1. item(k) \in E
      BY DEF item, E, StatusOf
    <3>2. ASSUME NEW i \in 1..(k - 1) PROVE c[i] = item(i)
      OBVIOUS
    <3> HIDE DEF c
    <3> DEFINE a == Append(c, item(k))
    <3>3. a \in Seq(E) /\ Len(a) = k /\ a[k] = item(k) /\ \A i \in 1..(k - 1) : a[i] = c[i]
      BY <2>3, <2>4, <3>1
    <3> HIDE DEF a
    <3>4. \A i \in 1..k : a[i] = item(i)
      <4>1. \A i \in 1..k : i = k \/ i \in 1..(k - 1)
        OBVIOUS
      <4>q. QED BY <3>2, <3>3, <4>1
    <3>5. a = [i \in 1..k |-> a[i]]
      BY <3>3
    <3>q. QED BY <3>4, <3>5 DEF a
  <2>q. QED BY <1>2, <2>1, <2>5 DEF item
<1>6. /\ r.ok <=> were = {}
      /\ r.exit = ExitOK <=> were = {}
      /\ r.exit # ExitOK => /\ \E i \in were : r.exit = failures[t[i]]
                            /\ \A i \in were : r.exit <= failures[t[i]]
  BY DEF Whole
<1>7. ASSUME NEW i \in were PROVE t[i] \in CheckNames /\ failures[t[i]] \in Int
  <2>1. i \in 1..n
    BY DEF FailedOf
  <2>q. QED BY <2>1
<1>8. r.exit \in Int
  BY <1>0 DEF Reports
<1>9. ASSUME status # "failed" PROVE Whole(new, t, failures, k)
  <2>1. are = were
    BY <1>3, <1>9
  <2>q. QED BY <1>2, <1>5, <1>6, <1>9, <2>1 DEF Whole
<1>10. ASSUME status = "failed" PROVE Whole(new, t, failures, k)
  <2>1. are = were \union {k} /\ code # ExitOK /\ new.exit = Graver(r.exit, code)
    BY <1>2, <1>3, <1>4, <1>10
  <2>2. ~new.ok /\ are # {}
    BY <1>2, <1>10, <2>1
  <2>3. new.exit # ExitOK
    BY <2>1 DEF Graver
  <2>4. \E i \in are : new.exit = failures[t[i]]
    <3>1. CASE new.exit = code
      BY <2>1, <3>1
    <3>2. CASE new.exit # code
      <4>1. new.exit = r.exit /\ r.exit # ExitOK
        BY <2>1, <3>2 DEF Graver
      <4>q. QED BY <1>6, <2>1, <4>1
    <3>q. QED BY <3>1, <3>2
  <2>5. new.exit <= code /\ (r.exit # ExitOK => new.exit <= r.exit)
    BY <1>0, <1>8, <2>1 DEF Graver
  <2>6. ASSUME NEW i \in are PROVE new.exit <= failures[t[i]]
    <3>1. CASE i = k
      BY <2>5, <3>1
    <3>2. CASE i # k
      <4>1. i \in were /\ were # {}
        BY <2>1, <3>2
      <4>2. r.exit # ExitOK /\ r.exit <= failures[t[i]]
        BY <1>6, <4>1
      <4>3. new.exit \in Int /\ failures[t[i]] \in Int
        BY <1>2, <1>7, <4>1 DEF Reports
      <4>q. QED BY <1>8, <2>5, <4>2, <4>3
    <3>q. QED BY <3>1, <3>2
  <2>q. QED BY <1>2, <1>5, <2>2, <2>3, <2>4, <2>6 DEF Whole
<1>q. QED BY <1>9, <1>10

(* ValidateOperational: every check is reported when the configuration is   *)
(* right.                                                                   *)
LEMMA EveryCheckReported ==
  ASSUME NEW failures \in [CheckNames -> Int], NEW n \in Nat, NEW t, t \in [1..n -> CheckNames],
         failures["configuration"] = ExitOK
  PROVE  Whole(AllChecks(t, failures), t, failures, n)
<1>1. PICK h : ReportSteps(h, t, failures, n)
  BY ChecksGoOn
<1> DEFINE Bad == {k \in 0..n : ~Whole(h[1..k], t, failures, k)}
<1>2. Whole(NoChecks, t, failures, 0)
  <2>1. NoChecks \in Reports
    BY DEF NoChecks, Reports, ExitOK
  <2>2. FailedOf(t, failures, 0) = {} /\ 1..0 = {}
    BY DEF FailedOf
  <2>3. <<>> = [i \in 1..0 |-> <<t[i], StatusOf(t[i], failures)>>]
    BY <2>2
  <2>q. QED BY <2>1, <2>2, <2>3 DEF Whole, NoChecks
<1>3. Bad = {}
  <2> SUFFICES ASSUME Bad # {} PROVE FALSE
    OBVIOUS
  <2>1. PICK k \in Bad : \A y \in Bad : k <= y
    <3>1. Bad \in SUBSET Nat
      OBVIOUS
    <3> HIDE DEF Bad
    <3>q. QED BY <3>1, LeastNumber
  <2>2. k # 0
    <3>1. h[1..0] = NoChecks
      BY <1>1 DEF ReportSteps
    <3>q. QED BY <1>2, <2>1, <3>1
  <2>3. k \in 1..n /\ k - 1 \in 0..n /\ ~ (k <= k - 1)
    BY <2>2
  <2>4. Whole(h[1..(k - 1)], t, failures, k - 1)
    BY <2>1, <2>3
  <2>5. h[1..k] = AddCheck(h[1..(k - 1)], t[k], failures)
    BY <1>1, <2>3 DEF ReportSteps
  <2> HIDE DEF Bad
  <2>6. Whole(AddCheck(h[1..(k - 1)], t[k], failures), t, failures, k)
    BY <2>3, <2>4, OneMoreCheck
  <2>q. QED BY <2>1, <2>5, <2>6 DEF Bad
<1>4. n \in 0..n
  OBVIOUS
<1>q. QED BY <1>1, <1>3, <1>4 DEF ReportSteps

\* What the report r of the checks t says.
ReportTrue(r, t, failures) ==
  LET failed == {failures[r.checks[i][1]] : i \in {k \in DOMAIN r.checks : r.checks[k][2] = "failed"}}
  IN  /\ r.ok = ([i \in DOMAIN t |-> <<t[i], "passed">>] = r.checks)
      /\ r.exit = IF failed = {} THEN ExitOK ELSE Min(failed)
      /\ r.ok = (r.exit = ExitOK)

(* ValidateOperational: the report of any list of checks that starts with   *)
(* the configuration and probes the connection.                             *)
LEMMA ReportIsTrue ==
  ASSUME NEW failures \in [CheckNames -> Int], NEW n \in Nat, n >= 2, NEW t, t \in [1..n -> CheckNames],
         t[1] = "configuration", NEW j \in 1..n, t[j] = "connectivity"
  PROVE  ReportTrue(AllChecks(t, failures), t, failures)
<1> DEFINE r == AllChecks(t, failures)
           places == {k \in DOMAIN r.checks : r.checks[k][2] = "failed"}
           failed == {failures[r.checks[i][1]] : i \in places}
           passed == [i \in DOMAIN t |-> <<t[i], "passed">>]
<1>1. ASSUME failures["configuration"] # ExitOK PROVE ReportTrue(r, t, failures)
  <2>1. r = Stopped(failures)
    <3>1. n \in Nat \ {0}
      OBVIOUS
    <3>q. QED BY <1>1, <3>1, StopsAtConfiguration
  <2> HIDE DEF r
  <2> DEFINE c == <<<<"configuration", "failed">>>>
  <2>2. r.checks = c /\ r.ok = FALSE /\ r.exit = failures["configuration"]
    BY <2>1 DEF Stopped
  <2>3. DOMAIN c = {1} /\ c[1] = <<"configuration", "failed">>
    OBVIOUS
  <2> HIDE DEF c
  <2>4. places = {1}
    BY <2>2, <2>3
  <2>5. failed = {failures["configuration"]}
    <3> HIDE DEF places
    <3>q. QED BY <2>2, <2>3, <2>4
  <2>6. passed # r.checks
    <3>1. DOMAIN passed = 1..n /\ DOMAIN r.checks = {1} /\ 2 \in 1..n /\ 2 \notin {1}
      BY <2>2, <2>3
    <3> HIDE DEF passed
    <3>q. QED BY <3>1
  <2> DEFINE code == failures["configuration"]
  <2>7. Min({code}) = code
    <3>1. code \in Int
      BY DEF CheckNames
    <3> HIDE DEF code
    <3>2. \A m \in {code} : (\A y \in {code} : m <= y) <=> m = code
      BY <3>1
    <3>3. (CHOOSE m \in {code} : \A y \in {code} : m <= y) = code
      BY <3>2
    <3>q. QED BY <3>3 DEF Min
  <2> HIDE DEF failed, passed
  <2>8. r.exit = IF failed = {} THEN ExitOK ELSE Min(failed)
    BY <2>2, <2>5, <2>7
  <2>9. r.ok = (passed = r.checks) /\ r.ok = (r.exit = ExitOK)
    BY <1>1, <2>2, <2>6
  <2>q. QED BY <2>8, <2>9 DEF ReportTrue, failed, places, passed
<1>2. ASSUME failures["configuration"] = ExitOK PROVE ReportTrue(r, t, failures)
  <2> DEFINE bad == FailedOf(t, failures, n)
  <2>1. Whole(r, t, failures, n)
    BY <1>2, EveryCheckReported
  <2>2. /\ r \in Reports
        /\ r.checks = [i \in 1..n |-> <<t[i], StatusOf(t[i], failures)>>]
        /\ r.ok <=> bad = {}
        /\ r.exit = ExitOK <=> bad = {}
        /\ r.exit # ExitOK => (\E i \in bad : r.exit = failures[t[i]]) /\ \A i \in bad : r.exit <= failures[t[i]]
    BY <2>1 DEF Whole
  <2> HIDE DEF r
  <2>3. DOMAIN r.checks = 1..n /\ \A i \in 1..n : r.checks[i] = <<t[i], StatusOf(t[i], failures)>>
    BY <2>2
  <2>4. \A i \in 1..n : r.checks[i][1] = t[i] /\ r.checks[i][2] = StatusOf(t[i], failures)
    BY <2>3
  <2>5. places = bad
    BY <2>3, <2>4 DEF FailedOf
  <2>6. bad \subseteq 1..n
    BY DEF FailedOf
  <2>7. failed = {failures[t[i]] : i \in bad}
    <3> HIDE DEF places, bad
    <3>1. \A i \in bad : failures[r.checks[i][1]] = failures[t[i]]
      BY <2>4, <2>6
    <3>q. QED BY <2>5, <3>1
  <2>8. DOMAIN passed = 1..n /\ \A i \in 1..n : passed[i] = <<t[i], "passed">>
    OBVIOUS
  <2>9. ASSUME bad = {} PROVE passed = r.checks
    <3>1. ASSUME NEW i \in 1..n PROVE StatusOf(t[i], failures) = "passed"
      <4>1. StatusOf(t[i], failures) # "failed" /\ StatusOf(t[j], failures) # "failed"
        BY <2>9 DEF FailedOf
      <4>2. failures["connectivity"] = ExitOK
        BY <4>1 DEF StatusOf
      <4>q. QED BY <4>1, <4>2 DEF StatusOf
    <3>2. passed = [i \in 1..n |-> <<t[i], StatusOf(t[i], failures)>>]
      BY <3>1
    <3>q. QED BY <2>2, <3>2
  <2>10. ASSUME bad # {} PROVE passed # r.checks
    <3>1. PICK i \in bad : TRUE
      BY <2>10
    <3>2. r.checks[i] = <<t[i], "failed">> /\ i \in 1..n
      BY <2>3, <3>1 DEF FailedOf
    <3>3. passed[i] = <<t[i], "passed">>
      BY <2>8, <3>2
    <3>4. r.checks[i][2] = "failed" /\ passed[i][2] = "passed"
      BY <3>2, <3>3
    <3> HIDE DEF passed
    <3>q. QED BY <3>4
  <2>11. r.ok \in BOOLEAN
    BY <2>2 DEF Reports
  <2> HIDE DEF places, bad, passed, failed
  <2>12. r.ok = (passed = r.checks)
    BY <2>2, <2>9, <2>10, <2>11
  <2>13. r.exit = IF failed = {} THEN ExitOK ELSE Min(failed)
    <3>1. failed = {} <=> bad = {}
      BY <2>7
    <3>2. ASSUME failed # {} PROVE r.exit = Min(failed)
      <4>1. r.exit # ExitOK
        BY <2>2, <3>1, <3>2
      <4>2. r.exit \in failed /\ \A y \in failed : r.exit <= y
        BY <2>2, <2>7, <4>1
      <4>3. \A y \in failed : y \in Int
        BY <2>6, <2>7
      <4>4. \A m \in failed : (\A y \in failed : m <= y) => m = r.exit
        BY <4>2, <4>3
      <4>5. (CHOOSE m \in failed : \A y \in failed : m <= y) = r.exit
        BY <4>2, <4>4
      <4>q. QED BY <4>5 DEF Min
    <3>q. QED BY <2>2, <3>1, <3>2
  <2>14. r.ok = (r.exit = ExitOK)
    BY <2>2, <2>11
  <2>q. QED BY <2>12, <2>13, <2>14 DEF ReportTrue, failed, places, passed
<1>q. QED BY <1>1, <1>2

(* ValidateOperational: the checks of a role, in their order.               *)
LEMMA ChecksOfRole ==
  ASSUME NEW writer \in BOOLEAN
  PROVE  \E n \in Nat : /\ n >= 2 /\ Checks(writer) \in [1..n -> CheckNames]
                        /\ Checks(writer)[1] = "configuration"
                        /\ \E j \in 1..n : Checks(writer)[j] = "connectivity"
<1> DEFINE a == <<"configuration", "audit_storage">>
           b == IF writer THEN <<"writer_data_directory">> ELSE <<>>
           c == <<"connectivity", "infrastructure", "credentials", "audit_validation">>
           m == Len(b)
<1>1. a \in Seq(CheckNames) /\ c \in Seq(CheckNames) /\ Len(a) = 2 /\ Len(c) = 4 /\ a[1] = "configuration" /\ c[1] = "connectivity"
  BY DEF CheckNames
<1>2. b \in Seq(CheckNames) /\ m \in Nat
  <2>1. <<"writer_data_directory">> \in Seq(CheckNames) /\ <<>> \in Seq(CheckNames)
    BY DEF CheckNames
  <2>2. b \in Seq(CheckNames)
    BY <2>1
  <2> HIDE DEF b
  <2>q. QED BY <2>2
<1> HIDE DEF a, b, c, m
<1>3. Checks(writer) = (a \o b) \o c
  BY DEF Checks, a, b, c
<1> DEFINE ab == a \o b
           all == ab \o c
<1>4. ab \in Seq(CheckNames) /\ Len(ab) = 2 + m /\ ab[1] = "configuration"
  <2>1. a \in Seq(CheckNames) /\ b \in Seq(CheckNames) /\ Len(a) = 2 /\ Len(b) = m /\ m \in Nat
    BY <1>1, <1>2 DEF m
  <2>2. ab \in Seq(CheckNames) /\ Len(ab) = Len(a) + Len(b)
        /\ \A i \in 1..(Len(a) + Len(b)) : ab[i] = IF i <= Len(a) THEN a[i] ELSE b[i - Len(a)]
    BY <2>1, OneAfterAnother
  <2> HIDE DEF ab
  <2>3. Len(ab) = 2 + m /\ ab[1] = a[1]
    BY <2>1, <2>2
  <2>q. QED BY <1>1, <2>2, <2>3
<1> HIDE DEF ab
<1>5. all \in Seq(CheckNames) /\ Len(all) = 6 + m /\ all[1] = "configuration" /\ all[3 + m] = "connectivity"
  <2>1. all \in Seq(CheckNames) /\ Len(all) = Len(ab) + Len(c)
        /\ \A i \in 1..(Len(ab) + Len(c)) : all[i] = IF i <= Len(ab) THEN ab[i] ELSE c[i - Len(ab)]
    BY <1>1, <1>4, OneAfterAnother
  <2> HIDE DEF all
  <2>2. Len(all) = 6 + m /\ all[1] = ab[1]
    BY <1>1, <1>2, <1>4, <2>1
  <2>3. all[3 + m] = c[1]
    <3> DEFINE i == 3 + m
    <3>1. i \in 1..(Len(ab) + Len(c)) /\ ~ (i <= Len(ab)) /\ i - Len(ab) = 1
      BY <1>1, <1>2, <1>4
    <3> HIDE DEF i
    <3>2. all[i] = c[i - Len(ab)]
      BY <2>1, <3>1
    <3>q. QED BY <3>1, <3>2 DEF i
  <2>q. QED BY <1>1, <1>4, <2>1, <2>2, <2>3
<1> HIDE DEF all
<1>6. Checks(writer) = all
  BY <1>3 DEF all, ab
<1>7. all \in [1..(6 + m) -> CheckNames] /\ 6 + m \in Nat /\ 6 + m >= 2 /\ 3 + m \in 1..(6 + m)
  BY <1>2, <1>5
<1>q. QED BY <1>5, <1>6, <1>7

(* ValidateOperational: a report is OK only if every check of its role was  *)
(* made and passed, and of several failures the smallest code is the exit   *)
(* code, whatever the codes are.                                            *)
THEOREM ValidationIsTrue ==
  ASSUME NEW writer \in BOOLEAN, NEW failures \in [CheckNames -> Int]
  PROVE  ReportTrue(Validate(writer, failures), Checks(writer), failures)
<1>1. PICK n \in Nat : /\ n >= 2 /\ Checks(writer) \in [1..n -> CheckNames]
                       /\ Checks(writer)[1] = "configuration"
                       /\ \E j \in 1..n : Checks(writer)[j] = "connectivity"
  BY ChecksOfRole
<1>2. PICK j \in 1..n : Checks(writer)[j] = "connectivity"
  BY <1>1
<1> DEFINE t == Checks(writer)
<1>3. Validate(writer, failures) = AllChecks(t, failures)
  BY DEF Validate, AllChecks, NoChecks
<1> HIDE DEF t
<1>4. n >= 2 /\ t \in [1..n -> CheckNames] /\ t[1] = "configuration" /\ t[j] = "connectivity"
  BY <1>1, <1>2 DEF t
<1>5. ReportTrue(AllChecks(t, failures), t, failures)
  BY <1>4, ReportIsTrue
<1>q. QED BY <1>3, <1>5 DEF t

-------------------------------------------------------------------------------
(* The use report. *)

\* s has the sums of the first numbers of c.
SumsTo(s, c, n) == s \in [0..n -> Int] /\ s[0] = 0 /\ \A k \in 1..n : s[k] = s[k - 1] + c[k]

SumOf(c, n) == CHOOSE s : SumsTo(s, c, n)

(* Numbers can be added up.                                                 *)
LEMMA SumsExist ==
  ASSUME NEW n \in Nat, NEW c \in [1..n -> Int]
  PROVE  SumsTo(SumOf(c, n), c, n)
<1> DEFINE f == [p \in Int \X Int |-> p[1] + p[2]]
<1>1. f \in [Int \X Int -> Int]
  OBVIOUS
<1>2. \A a, b \in Int : f[<<a, b>>] = a + b
  OBVIOUS
<1> HIDE DEF f
<1>3. PICK h \in [SUBSET (1..n) -> Int] : Accumulates(h, 1..n, f, 0, c)
  <2>1. 0 \in Int
    OBVIOUS
  <2>q. QED BY <1>1, <2>1, LoopExists
<1>4. StepByStep(h, n, f, 0, c)
  BY <1>3, LoopSteps
<1> DEFINE s == [k \in 0..n |-> h[1..k]]
<1>5. \A k \in 0..n : 1..k \in SUBSET (1..n) /\ s[k] = h[1..k] /\ s[k] \in Int
  <2>1. \A k \in 0..n : 1..k \in SUBSET (1..n)
    OBVIOUS
  <2>q. QED BY <2>1
<1>6. s \in [0..n -> Int]
  BY <1>5
<1>7. s[0] = 0
  BY <1>4, <1>5 DEF StepByStep
<1>8. ASSUME NEW k \in 1..n PROVE s[k] = s[k - 1] + c[k]
  <2>1. k \in 0..n /\ k - 1 \in 0..n /\ c[k] \in Int
    OBVIOUS
  <2>2. h[1..k] = f[<<h[1..(k - 1)], c[k]>>]
    BY <1>4 DEF StepByStep
  <2>3. s[k] = h[1..k] /\ s[k - 1] = h[1..(k - 1)] /\ s[k - 1] \in Int
    BY <1>5, <2>1
  <2> HIDE DEF s
  <2>q. QED BY <1>2, <2>1, <2>2, <2>3
<1> HIDE DEF s
<1>9. SumsTo(s, c, n)
  BY <1>6, <1>7, <1>8 DEF SumsTo
<1>q. QED BY <1>9 DEF SumOf

(* Sums of sums.                                                            *)
LEMMA SumsAdd ==
  ASSUME NEW n \in Nat, NEW a, NEW b, NEW s, NEW c, NEW d, NEW e, SumsTo(a, c, n), SumsTo(b, d, n), SumsTo(s, e, n),
         c \in [1..n -> Int], d \in [1..n -> Int], \A k \in 1..n : e[k] = c[k] + d[k]
  PROVE  \A k \in 0..n : s[k] = a[k] + b[k]
<1> DEFINE Bad == {k \in 0..n : s[k] # a[k] + b[k]}
<1>1. Bad = {}
  <2> SUFFICES ASSUME Bad # {} PROVE FALSE
    OBVIOUS
  <2>1. PICK k \in Bad : \A y \in Bad : k <= y
    <3>1. Bad \in SUBSET Nat
      OBVIOUS
    <3> HIDE DEF Bad
    <3>q. QED BY <3>1, LeastNumber
  <2>2. k # 0
    BY <2>1 DEF SumsTo
  <2>3. k \in 1..n /\ k - 1 \in 0..n /\ ~ (k <= k - 1)
    BY <2>2
  <2>4. s[k - 1] = a[k - 1] + b[k - 1]
    BY <2>1, <2>3
  <2>5. s[k] = s[k - 1] + e[k] /\ a[k] = a[k - 1] + c[k] /\ b[k] = b[k - 1] + d[k]
    BY <2>3 DEF SumsTo
  <2>6. a[k - 1] \in Int /\ b[k - 1] \in Int /\ c[k] \in Int /\ d[k] \in Int /\ e[k] = c[k] + d[k]
    BY <2>3 DEF SumsTo
  <2>q. QED BY <2>1, <2>4, <2>5, <2>6
<1>q. QED BY <1>1

(* Sums of nothing.                                                         *)
LEMMA NothingAdds ==
  ASSUME NEW n \in Nat, NEW s, NEW c, SumsTo(s, c, n), \A k \in 1..n : c[k] = 0
  PROVE  \A k \in 0..n : s[k] = 0
<1> DEFINE Bad == {k \in 0..n : s[k] # 0}
<1>1. Bad = {}
  <2> SUFFICES ASSUME Bad # {} PROVE FALSE
    OBVIOUS
  <2>1. PICK k \in Bad : \A y \in Bad : k <= y
    <3>1. Bad \in SUBSET Nat
      OBVIOUS
    <3> HIDE DEF Bad
    <3>q. QED BY <3>1, LeastNumber
  <2>2. k # 0
    BY <2>1 DEF SumsTo
  <2>3. k \in 1..n /\ k - 1 \in 0..n /\ ~ (k <= k - 1)
    BY <2>2
  <2>4. s[k - 1] = 0 /\ s[k] = s[k - 1] + c[k]
    BY <2>1, <2>3 DEF SumsTo
  <2>q. QED BY <2>1, <2>3, <2>4
<1>q. QED BY <1>1

Fields == {"queries", "failed", "truncated", "size"}

Amount(event, f) ==
  IF f = "queries" THEN 1
  ELSE IF f = "failed" THEN IF event.failed THEN 1 ELSE 0
  ELSE IF f = "truncated" THEN IF event.cut THEN 1 ELSE 0
  ELSE event.size

(* accumulate: every figure of a row grows by what the event has of it.     *)
LEMMA AccumulateAdds ==
  ASSUME NEW row \in [Fields -> Int], NEW event, event.size \in Int
  PROVE  /\ Accumulate(row, event) \in [Fields -> Int]
         /\ \A f \in Fields : Accumulate(row, event)[f] = row[f] + Amount(event, f) /\ Amount(event, f) \in Int
<1> DEFINE new == Accumulate(row, event)
<1>1. /\ DOMAIN new = Fields
      /\ new["queries"] = row["queries"] + 1
      /\ new["failed"] = row["failed"] + (IF event.failed THEN 1 ELSE 0)
      /\ new["truncated"] = row["truncated"] + (IF event.cut THEN 1 ELSE 0)
      /\ new["size"] = row["size"] + event.size
  BY DEF Accumulate, Fields
<1>2. new = [f \in DOMAIN new |-> new[f]]
  BY DEF Accumulate
<1> HIDE DEF new
<1>3. ASSUME NEW f \in Fields PROVE new[f] = row[f] + Amount(event, f) /\ Amount(event, f) \in Int /\ row[f] \in Int
  <2>1. CASE f = "queries"
    BY <1>1, <2>1 DEF Amount
  <2>2. CASE f = "failed"
    BY <1>1, <2>2 DEF Amount
  <2>3. CASE f = "truncated"
    BY <1>1, <2>3 DEF Amount
  <2>4. CASE f = "size"
    BY <1>1, <2>4 DEF Amount
  <2>q. QED BY <2>1, <2>2, <2>3, <2>4 DEF Fields
<1>4. \A f \in Fields : new[f] \in Int
  BY <1>3
<1>5. new \in [Fields -> Int]
  BY <1>1, <1>2, <1>4
<1>q. QED BY <1>3, <1>5 DEF new

Usages(L) ==
  [events : Int, rows : UNION {[K -> [Fields -> Int]] : K \in SUBSET {RowKey(e) : e \in L}},
   totals : [Fields -> Int], noted : BOOLEAN]

RowBefore(report, key) == IF key \in DOMAIN report.rows THEN report.rows[key] ELSE NoUse

(* A report starts with nothing.                                            *)
LEMMA NoLinesYet ==
  ASSUME NEW L
  PROVE  /\ NoLines \in Usages(L) /\ DOMAIN NoLines.rows = {} /\ NoLines.events = 0
         /\ NoUse \in [Fields -> Int] /\ NoLines.totals = NoUse /\ \A f \in Fields : NoUse[f] = 0
<1>1. NoUse \in [Fields -> Int] /\ \A f \in Fields : NoUse[f] = 0
  <2> DEFINE new == NoUse
  <2>1. new = [f \in DOMAIN new |-> new[f]] /\ DOMAIN new = Fields
    BY DEF NoUse, Fields
  <2>2. new["queries"] = 0 /\ new["failed"] = 0 /\ new["truncated"] = 0 /\ new["size"] = 0
    BY DEF NoUse
  <2> HIDE DEF new
  <2>3. \A f \in Fields : new[f] = 0 /\ new[f] \in Int
    BY <2>2 DEF Fields
  <2>4. new \in [Fields -> Int]
    BY <2>1, <2>3
  <2>q. QED BY <2>3, <2>4 DEF new
<1>2. <<>> \in [{} -> [Fields -> Int]]
  OBVIOUS
<1>3. <<>> \in UNION {[K -> [Fields -> Int]] : K \in SUBSET {RowKey(e) : e \in L}}
  <2> DEFINE Ks == SUBSET {RowKey(e) : e \in L}
  <2>1. {} \in Ks
    OBVIOUS
  <2> HIDE DEF Ks
  <2>2. <<>> \in UNION {[K -> [Fields -> Int]] : K \in Ks}
    BY <1>2, <2>1
  <2>q. QED BY <2>2 DEF Ks
<1>4. NoLines \in Usages(L)
  <2> DEFINE Rows == UNION {[K -> [Fields -> Int]] : K \in SUBSET {RowKey(e) : e \in L}}
             none == NoUse
  <2>1. none \in [Fields -> Int] /\ <<>> \in Rows
    BY <1>1, <1>3
  <2> HIDE DEF Rows, none
  <2>2. [events |-> 0, rows |-> <<>>, totals |-> none, noted |-> FALSE]
          \in [events : Int, rows : Rows, totals : [Fields -> Int], noted : BOOLEAN]
    BY <2>1
  <2>q. QED BY <2>2 DEF NoLines, Usages, Rows, none
<1>5. NoLines.rows = <<>> /\ NoLines.events = 0 /\ NoLines.totals = NoUse
  BY DEF NoLines
<1>6. DOMAIN NoLines.rows = {}
  BY <1>5
<1>q. QED BY <1>1, <1>4, <1>5, <1>6

(* What is known of a report after a line that counts.                      *)
Counted(L, report, line, since, program, any) ==
  /\ AddLine(report, line, since, program, any) \in Usages(L)
  /\ AddLine(report, line, since, program, any).events = report.events + 1
  /\ AddLine(report, line, since, program, any).totals = Accumulate(report.totals, line)
  /\ AddLine(report, line, since, program, any).rows =
       [k \in DOMAIN report.rows \union {RowKey(line)} |->
          IF k = RowKey(line) THEN Accumulate(RowBefore(report, RowKey(line)), line) ELSE report.rows[k]]

(* A line that counts.                                                      *)
LEMMA CountedLine ==
  ASSUME NEW L, LinesFit(L), NEW report \in Usages(L), NEW line \in L, NEW since, NEW program, NEW any,
         Tallied(line, since, program, any)
  PROVE  Counted(L, report, line, since, program, any)
<1> DEFINE key == RowKey(line)
           row == Accumulate(RowBefore(report, key), line)
           rows == [k \in DOMAIN report.rows \union {key} |-> IF k = key THEN row ELSE report.rows[k]]
           new == [events |-> report.events + 1, rows |-> rows, totals |-> Accumulate(report.totals, line),
                   noted |-> report.noted]
           Rows == UNION {[K -> [Fields -> Int]] : K \in SUBSET {RowKey(e) : e \in L}}
<1>1. AddLine(report, line, since, program, any) = new
  BY DEF AddLine, RowBefore
<1>2. report.events \in Int /\ report.rows \in Rows /\ report.totals \in [Fields -> Int] /\ report.noted \in BOOLEAN
  BY DEF Usages
<1>3. line.size \in Int
  BY DEF Tallied, Wanted, LinesFit
<1>4. PICK K \in SUBSET {RowKey(e) : e \in L} : report.rows \in [K -> [Fields -> Int]]
  BY <1>2
<1>5. key \in {RowKey(e) : e \in L}
  OBVIOUS
<1>6. RowBefore(report, key) \in [Fields -> Int]
  BY <1>4, NoLinesYet DEF RowBefore
<1> HIDE DEF key
<1>7. row \in [Fields -> Int] /\ Accumulate(report.totals, line) \in [Fields -> Int]
  BY <1>2, <1>3, <1>6, AccumulateAdds
<1> HIDE DEF row
<1>8. rows \in [K \union {key} -> [Fields -> Int]] /\ K \union {key} \in SUBSET {RowKey(e) : e \in L}
  BY <1>4, <1>5, <1>7
<1> HIDE DEF rows
<1>9. rows \in Rows
  BY <1>8
<1>10. new \in Usages(L)
  <2> HIDE DEF Rows
  <2>1. [events |-> report.events + 1, rows |-> rows, totals |-> Accumulate(report.totals, line), noted |-> report.noted]
          \in [events : Int, rows : Rows, totals : [Fields -> Int], noted : BOOLEAN]
    BY <1>2, <1>7, <1>9
  <2>q. QED BY <2>1 DEF Usages, Rows
<1>11. new.events = report.events + 1 /\ new.rows = rows /\ new.totals = Accumulate(report.totals, line)
  OBVIOUS
<1>q. QED BY <1>1, <1>10, <1>11 DEF rows, row, key, Counted

(* A line that does not count.                                              *)
LEMMA OtherLine ==
  ASSUME NEW L, NEW report \in Usages(L), NEW line \in L, NEW since, NEW program, NEW any,
         ~Tallied(line, since, program, any)
  PROVE  /\ AddLine(report, line, since, program, any) \in Usages(L)
         /\ AddLine(report, line, since, program, any).events = report.events
         /\ AddLine(report, line, since, program, any).totals = report.totals
         /\ AddLine(report, line, since, program, any).rows = report.rows
<1> DEFINE note == report.noted \/ line = Unreadable \/ (Wanted(line, program, any) /\ line.day = 0)
           new == [report EXCEPT !.noted = note]
           Rows == UNION {[K -> [Fields -> Int]] : K \in SUBSET {RowKey(e) : e \in L}}
<1>1. AddLine(report, line, since, program, any) = new
  BY DEF AddLine
<1>2. note \in BOOLEAN
  OBVIOUS
<1>3. report \in [events : Int, rows : Rows, totals : [Fields -> Int], noted : BOOLEAN]
  BY DEF Usages
<1> HIDE DEF note, Rows
<1>4. new \in [events : Int, rows : Rows, totals : [Fields -> Int], noted : BOOLEAN]
  BY <1>2, <1>3
<1>5. new.events = report.events /\ new.rows = report.rows /\ new.totals = report.totals
  BY <1>3
<1> HIDE DEF new
<1>6. new \in Usages(L)
  BY <1>4 DEF Usages, Rows
<1>q. QED BY <1>1, <1>5, <1>6

UsageSteps(h, t, since, program, any, n) ==
  /\ AllLines(t, since, program, any) = h[1..n]
  /\ h[1..0] = NoLines
  /\ \A k \in 1..n : h[1..k] = AddLine(h[1..(k - 1)], t[k], since, program, any)

(* The lines are read one by one.                                           *)
LEMMA LinesGoOn ==
  ASSUME NEW L, LinesFit(L), NEW n \in Nat, NEW t, t \in [1..n -> L], NEW since, NEW program, NEW any
  PROVE  \E h : UsageSteps(h, t, since, program, any, n)
<1> DEFINE D == DOMAIN t
           V == Usages(L)
           Add(r, e) == AddLine(r, e, since, program, any)
           f == [p \in V \X L |-> Add(p[1], p[2])]
           Loop(h) == [s \in SUBSET D |-> IF s = {} THEN NoLines ELSE LET x == Max(s) IN AddLine(h[s \ {x}], t[x], since, program, any)]
           iter[s \in SUBSET D] == IF s = {} THEN NoLines ELSE LET x == Max(s) IN AddLine(iter[s \ {x}], t[x], since, program, any)
<1>1. AllLines(t, since, program, any) = iter[D]
  BY DEF AllLines, FoldLeft, MapThenFoldSet
<1>2. D = 1..n
  OBVIOUS
<1>0. ASSUME NEW r \in V, NEW e \in L PROVE Add(r, e) \in V
  BY CountedLine, OtherLine DEF Counted
<1>3. f \in [V \X L -> V] /\ \A a \in V, b \in L : f[<<a, b>>] = Add(a, b)
  <2> HIDE DEF V, Add
  <2>1. ASSUME NEW p \in V \X L PROVE Add(p[1], p[2]) \in V
    <3>1. p[1] \in V /\ p[2] \in L
      OBVIOUS
    <3>q. QED BY <1>0, <3>1
  <2>q. QED BY <2>1
<1> HIDE DEF f
<1>4. PICK h \in [SUBSET (1..n) -> V] : Accumulates(h, 1..n, f, NoLines, t)
  <2>1. NoLines \in V
    BY NoLinesYet
  <2> HIDE DEF V
  <2>q. QED BY <1>3, <2>1, LoopExists
<1>5. ASSUME NEW u \in SUBSET (1..n)
      PROVE  h[u] = IF u = {} THEN NoLines ELSE Add(h[u \ {Max(u)}], t[Max(u)])
  <2>1. CASE u = {}
    BY <1>4, <2>1 DEF Accumulates
  <2>2. CASE u # {}
    <3>1. Max(u) \in u
      BY <2>2, GreatestNumber
    <3> HIDE DEF V
    <3>2. h[u \ {Max(u)}] \in V /\ t[Max(u)] \in L
      BY <1>4, <3>1
    <3>3. h[u] = f[<<h[u \ {Max(u)}], t[Max(u)]>>]
      BY <1>4, <2>2 DEF Accumulates
    <3> HIDE DEF Add
    <3>q. QED BY <1>3, <2>2, <3>2, <3>3
  <2>q. QED BY <2>1, <2>2
<1>6. h = Loop(h)
  <2>1. h = [u \in SUBSET D |-> h[u]]
    BY <1>2
  <2>2. \A u \in SUBSET D : h[u] = IF u = {} THEN NoLines ELSE LET x == Max(u) IN AddLine(h[u \ {x}], t[x], since, program, any)
    BY <1>2, <1>5
  <2> HIDE DEF D
  <2>q. QED BY <2>1, <2>2
<1>7. iter = Loop(iter)
  BY <1>6, Zenon
<1> HIDE DEF iter
<1>8. iter[1..0] = NoLines
  <2>1. 1..0 = {}
    OBVIOUS
  <2>2. iter[{}] = NoLines
    BY <1>7
  <2>q. QED BY <2>1, <2>2
<1>9. ASSUME NEW k \in 1..n PROVE iter[1..k] = AddLine(iter[1..(k - 1)], t[k], since, program, any)
  <2> DEFINE I == 1..k
  <2> HIDE DEF I
  <2>1. I \in SUBSET D /\ I # {} /\ Max(I) = k /\ I \ {k} = 1..(k - 1)
    BY <1>2, UpTo DEF I
  <2>2. iter[I] = AddLine(iter[I \ {Max(I)}], t[Max(I)], since, program, any)
    <3> HIDE DEF D
    <3>q. QED BY <1>7, <2>1
  <2>q. QED BY <2>1, <2>2 DEF I
<1>10. iter[D] = iter[1..n]
  <2> HIDE DEF D
  <2>q. QED BY <1>2
<1>11. UsageSteps(iter, t, since, program, any, n)
  BY <1>1, <1>8, <1>9, <1>10 DEF UsageSteps
<1>q. QED BY <1>11

\* What the places in C with a key in K have of the figure f.
Share(t, C, K, f) == [i \in DOMAIN t |-> IF i \in C /\ RowKey(t[i]) \in K THEN Amount(t[i], f) ELSE 0]

Part(t, C, K, f, n) == SumOf(Share(t, C, K, f), n)

KeysIn(t, C, k) == {RowKey(t[i]) : i \in C \intersect 1..k}

\* Every figure of the counted lines is a number.
Countable(t, C, n) == DOMAIN t = 1..n /\ C \subseteq 1..n /\ \A i \in C : \A f \in Fields : Amount(t[i], f) \in Int

(* What keys have in common is added up line by line.                       *)
LEMMA PartsAdd ==
  ASSUME NEW n \in Nat, NEW t, NEW C, Countable(t, C, n), NEW f \in Fields, NEW K
  PROVE  /\ SumsTo(Part(t, C, K, f, n), Share(t, C, K, f), n)
         /\ Share(t, C, K, f) \in [1..n -> Int]
         /\ \A i \in 1..n : Share(t, C, K, f)[i] = IF i \in C /\ RowKey(t[i]) \in K THEN Amount(t[i], f) ELSE 0
<1> DEFINE c == Share(t, C, K, f)
<1>1. DOMAIN t = 1..n /\ \A i \in C : Amount(t[i], f) \in Int
  BY DEF Countable
<1>2. c = [i \in 1..n |-> IF i \in C /\ RowKey(t[i]) \in K THEN Amount(t[i], f) ELSE 0]
  BY <1>1 DEF Share
<1>3. c \in [1..n -> Int] /\ \A i \in 1..n : c[i] = IF i \in C /\ RowKey(t[i]) \in K THEN Amount(t[i], f) ELSE 0
  <2> HIDE DEF c
  <2>1. \A i \in 1..n : (IF i \in C /\ RowKey(t[i]) \in K THEN Amount(t[i], f) ELSE 0) \in Int
    BY <1>1
  <2>q. QED BY <1>2, <2>1
<1> HIDE DEF c
<1>4. SumsTo(SumOf(c, n), c, n)
  BY <1>3, SumsExist
<1>q. QED BY <1>3, <1>4 DEF c, Part

(* Rows of the same events, taken together.                                 *)
LEMMA PartsJoin ==
  ASSUME NEW n \in Nat, NEW t, NEW C, Countable(t, C, n), NEW f \in Fields, NEW K, NEW x, x \in K
  PROVE  Part(t, C, K, f, n)[n] = Part(t, C, K \ {x}, f, n)[n] + Part(t, C, {x}, f, n)[n]
<1> DEFINE c(U) == Share(t, C, U, f)
           s(U) == Part(t, C, U, f, n)
<1>1. ASSUME NEW U
      PROVE  /\ SumsTo(s(U), c(U), n) /\ c(U) \in [1..n -> Int]
             /\ \A i \in 1..n : c(U)[i] = IF i \in C /\ RowKey(t[i]) \in U THEN Amount(t[i], f) ELSE 0
  BY PartsAdd
<1>2. ASSUME NEW i \in 1..n PROVE c(K)[i] = c(K \ {x})[i] + c({x})[i]
  <2>1. ASSUME i \in C PROVE Amount(t[i], f) \in Int
    BY <2>1 DEF Countable
  <2>2. /\ c(K)[i] = IF i \in C /\ RowKey(t[i]) \in K THEN Amount(t[i], f) ELSE 0
        /\ c(K \ {x})[i] = IF i \in C /\ RowKey(t[i]) \in K \ {x} THEN Amount(t[i], f) ELSE 0
        /\ c({x})[i] = IF i \in C /\ RowKey(t[i]) \in {x} THEN Amount(t[i], f) ELSE 0
    BY <1>1
  <2> HIDE DEF c
  <2>q. QED BY <2>1, <2>2
<1>3. /\ SumsTo(s(K), c(K), n) /\ SumsTo(s(K \ {x}), c(K \ {x}), n) /\ SumsTo(s({x}), c({x}), n)
      /\ c(K \ {x}) \in [1..n -> Int] /\ c({x}) \in [1..n -> Int]
  BY <1>1
<1> HIDE DEF c, s
<1>4. \A k \in 0..n : s(K)[k] = s(K \ {x})[k] + s({x})[k]
  <2> DEFINE c1 == c(K \ {x})
             c2 == c({x})
             c3 == c(K)
             s1 == s(K \ {x})
             s2 == s({x})
             s3 == s(K)
  <2>1. /\ SumsTo(s1, c1, n) /\ SumsTo(s2, c2, n) /\ SumsTo(s3, c3, n)
        /\ c1 \in [1..n -> Int] /\ c2 \in [1..n -> Int] /\ \A i \in 1..n : c3[i] = c1[i] + c2[i]
    BY <1>2, <1>3
  <2> HIDE DEF c1, c2, c3, s1, s2, s3
  <2>2. \A k \in 0..n : s3[k] = s1[k] + s2[k]
    BY <2>1, SumsAdd, SMTT(60)
  <2>q. QED BY <2>2 DEF s1, s2, s3
<1>5. n \in 0..n
  OBVIOUS
<1>q. QED BY <1>4, <1>5 DEF s

\* What a report of the first k lines has.
TallyOf(r, key, f) == IF key \in DOMAIN r.rows THEN r.rows[key][f] ELSE 0

Tallies(r, L, t, C, n, k) ==
  /\ r \in Usages(L)
  /\ DOMAIN r.rows = KeysIn(t, C, k)
  /\ \A f \in Fields : r.totals[f] = Part(t, C, KeysIn(t, C, n), f, n)[k]
  /\ \A f \in Fields : \A key \in KeysIn(t, C, n) : TallyOf(r, key, f) = Part(t, C, {key}, f, n)[k]
  /\ r.events = r.totals["queries"]

(* BuildAuditUsageReport: the row of an event and the totals grow together. *)
LEMMA TallyGoesOn ==
  ASSUME NEW L, LinesFit(L), NEW n \in Nat, NEW t, t \in [1..n -> L], NEW since, NEW program, NEW any,
         NEW C, C = {i \in 1..n : Tallied(t[i], since, program, any)}, Countable(t, C, n),
         NEW k \in 1..n, NEW r, Tallies(r, L, t, C, n, k - 1)
  PROVE  Tallies(AddLine(r, t[k], since, program, any), L, t, C, n, k)
<1> DEFINE line == t[k]
           key == RowKey(line)
           new == AddLine(r, line, since, program, any)
           All == KeysIn(t, C, n)
           were == KeysIn(t, C, k - 1)
           s(K, f) == Part(t, C, K, f, n)
<1>1. line \in L /\ r \in Usages(L) /\ DOMAIN r.rows = were
  BY DEF Tallies
<1>2. 1..k = 1..(k - 1) \union {k} /\ k \in 1..n
  OBVIOUS
<1>3. KeysIn(t, C, k) = were \union (IF k \in C THEN {key} ELSE {})
  <2>1. C \intersect 1..k = (C \intersect 1..(k - 1)) \union (IF k \in C THEN {k} ELSE {})
    BY <1>2
  <2>q. QED BY <2>1 DEF KeysIn
<1>4. ASSUME NEW f \in Fields, NEW K
      PROVE  /\ s(K, f)[k] = s(K, f)[k - 1] + IF k \in C /\ key \in K THEN Amount(line, f) ELSE 0
             /\ s(K, f)[k - 1] \in Int
  <2>1. SumsTo(s(K, f), Share(t, C, K, f), n)
        /\ Share(t, C, K, f)[k] = IF k \in C /\ key \in K THEN Amount(line, f) ELSE 0
    BY PartsAdd
  <2>2. k - 1 \in 0..n
    BY <1>2
  <2>q. QED BY <2>1, <2>2 DEF SumsTo
<1>5. /\ \A f \in Fields : r.totals[f] = s(All, f)[k - 1]
      /\ \A f \in Fields : \A x \in All : TallyOf(r, x, f) = s({x}, f)[k - 1]
      /\ r.events = r.totals["queries"]
  BY DEF Tallies
<1>6. k \in C <=> Tallied(line, since, program, any)
  OBVIOUS
<1>7. ASSUME k \in C PROVE key \in All
  BY <1>7 DEF KeysIn
<1> HIDE DEF s, All, were
<1>8. ASSUME k \notin C PROVE Tallies(new, L, t, C, n, k)
  <2>1. new \in Usages(L) /\ new.events = r.events /\ new.totals = r.totals /\ new.rows = r.rows
    BY <1>1, <1>6, <1>8, OtherLine
  <2>2. \A f \in Fields : \A K : s(K, f)[k] = s(K, f)[k - 1]
    BY <1>4, <1>8
  <2> HIDE DEF new, line, key
  <2>3. DOMAIN new.rows = KeysIn(t, C, k)
    BY <1>1, <1>3, <1>8, <2>1
  <2>4. \A f \in Fields : new.totals[f] = s(All, f)[k]
    BY <1>5, <2>1, <2>2
  <2>5. \A f \in Fields : \A x \in All : TallyOf(new, x, f) = s({x}, f)[k]
    <3>1. \A f \in Fields : \A x \in All : TallyOf(new, x, f) = TallyOf(r, x, f)
      BY <2>1 DEF TallyOf
    <3>q. QED BY <1>5, <2>2, <3>1
  <2>6. new.events = new.totals["queries"]
    BY <1>5, <2>1
  <2>q. QED BY <2>1, <2>3, <2>4, <2>5, <2>6 DEF Tallies, s, All
<1>9. ASSUME k \in C PROVE Tallies(new, L, t, C, n, k)
  <2> DEFINE before == RowBefore(r, key)
             row == Accumulate(before, line)
             rows == [x \in DOMAIN r.rows \union {key} |-> IF x = key THEN row ELSE r.rows[x]]
  <2>1. new \in Usages(L) /\ new.events = r.events + 1 /\ new.totals = Accumulate(r.totals, line) /\ new.rows = rows
    <3>1. Tallied(line, since, program, any)
      BY <1>6, <1>9
    <3> HIDE DEF line
    <3>2. Counted(L, r, line, since, program, any)
      BY <1>1, <3>1, CountedLine
    <3>q. QED BY <3>2 DEF Counted
  <2>2. line.size \in Int
    <3>1. Tallied(line, since, program, any)
      BY <1>6, <1>9
    <3>q. QED BY <1>1, <3>1 DEF Tallied, Wanted, LinesFit
  <2>3. r.totals \in [Fields -> Int] /\ before \in [Fields -> Int]
    <3>1. r.totals \in [Fields -> Int]
      BY <1>1 DEF Usages
    <3>2. r.rows \in UNION {[K -> [Fields -> Int]] : K \in SUBSET {RowKey(e) : e \in L}}
      BY <1>1 DEF Usages
    <3>3. PICK K \in SUBSET {RowKey(e) : e \in L} : r.rows \in [K -> [Fields -> Int]]
      BY <3>2
    <3>4. before \in [Fields -> Int]
      <4> HIDE DEF key
      <4>q. QED BY <3>3, NoLinesYet DEF RowBefore
    <3>q. QED BY <3>1, <3>4
  <2>4. \A f \in Fields : Accumulate(r.totals, line)[f] = r.totals[f] + Amount(line, f)
    BY <2>2, <2>3, AccumulateAdds
  <2>5. \A f \in Fields : row[f] = before[f] + Amount(line, f)
    <3> HIDE DEF before
    <3>q. QED BY <2>2, <2>3, AccumulateAdds
  <2>6. key \in All
    BY <1>7, <1>9
  <2>7. \A f \in Fields : before[f] = TallyOf(r, key, f)
    BY NoLinesYet DEF RowBefore, TallyOf
  <2> HIDE DEF new, before, row
  <2>8. DOMAIN rows = were \union {key} /\ rows[key] = row /\ \A x \in were : x # key => rows[x] = r.rows[x]
    BY <1>1
  <2> HIDE DEF rows, key
  <2>9. DOMAIN new.rows = KeysIn(t, C, k)
    BY <1>3, <1>9, <2>1, <2>8
  <2>10. ASSUME NEW f \in Fields PROVE new.totals[f] = s(All, f)[k]
    <3>1. s(All, f)[k] = s(All, f)[k - 1] + Amount(line, f)
      BY <1>4, <1>9, <2>6
    <3>q. QED BY <1>5, <2>1, <2>4, <3>1
  <2>11. ASSUME NEW f \in Fields, NEW x \in All PROVE TallyOf(new, x, f) = s({x}, f)[k]
    <3>1. s({x}, f)[k] = s({x}, f)[k - 1] + IF x = key THEN Amount(line, f) ELSE 0
      BY <1>4, <1>9
    <3>2. TallyOf(r, x, f) = s({x}, f)[k - 1] /\ s({x}, f)[k - 1] \in Int
      BY <1>4, <1>5
    <3>3. CASE x = key
      <4>1. TallyOf(new, x, f) = row[f]
        BY <2>1, <2>8, <3>3 DEF TallyOf
      <4>q. QED BY <2>5, <2>7, <3>1, <3>2, <3>3, <4>1
    <3>4. CASE x # key
      <4>1. TallyOf(new, x, f) = TallyOf(r, x, f)
        BY <1>1, <2>1, <2>8, <3>4 DEF TallyOf
      <4>q. QED BY <3>1, <3>2, <3>4, <4>1
    <3>q. QED BY <3>3, <3>4
  <2>12. new.events = new.totals["queries"]
    <3>1. "queries" \in Fields /\ Amount(line, "queries") = 1
      BY DEF Fields, Amount
    <3>q. QED BY <1>5, <2>1, <2>4, <3>1
  <2>q. QED BY <2>1, <2>9, <2>10, <2>11, <2>12 DEF Tallies, s, All
<1>q. QED BY <1>8, <1>9

RowsSum(R, f) == FoldSet(LAMBDA k, n : n + R[k][f], 0, DOMAIN R)

(* The rows of a report add up to what all counted lines have.              *)
LEMMA RowsAddUp ==
  ASSUME NEW n \in Nat, NEW t, NEW C, Countable(t, C, n), NEW f \in Fields, NEW R, DOMAIN R = KeysIn(t, C, n),
         \A key \in DOMAIN R : R[key][f] = Part(t, C, {key}, f, n)[n]
  PROVE  RowsSum(R, f) = Part(t, C, DOMAIN R, f, n)[n]
<1> DEFINE D == DOMAIN R
           v(s) == Part(t, C, s, f, n)[n]
           V == [s \in SUBSET D |-> v(s)]
           Loop(h) == [s \in SUBSET D |-> IF s = {} THEN 0 ELSE LET x == CHOOSE x \in s : TRUE IN h[s \ {x}] + R[x][f]]
           iter[s \in SUBSET D] == IF s = {} THEN 0 ELSE LET x == CHOOSE x \in s : TRUE IN iter[s \ {x}] + R[x][f]
<1>1. RowsSum(R, f) = iter[D]
  BY DEF RowsSum, FoldSet, MapThenFoldSet
<1>2. v({}) = 0
  <2>1. SumsTo(Part(t, C, {}, f, n), Share(t, C, {}, f), n)
        /\ \A i \in 1..n : Share(t, C, {}, f)[i] = IF i \in C /\ RowKey(t[i]) \in {} THEN Amount(t[i], f) ELSE 0
    BY PartsAdd
  <2>2. \A i \in 1..n : Share(t, C, {}, f)[i] = 0
    BY <2>1
  <2>3. \A k \in 0..n : Part(t, C, {}, f, n)[k] = 0
    BY <2>1, <2>2, NothingAdds
  <2>4. n \in 0..n
    OBVIOUS
  <2>q. QED BY <2>3, <2>4
<1>3. ASSUME NEW s \in SUBSET D, s # {}, NEW x \in s PROVE v(s) = v(s \ {x}) + R[x][f]
  <2>1. x \in D
    OBVIOUS
  <2>2. v(s) = v(s \ {x}) + v({x})
    BY PartsJoin
  <2>q. QED BY <2>1, <2>2
<1> HIDE DEF v
<1>4. V = Loop(V)
  <2>1. ASSUME NEW s \in SUBSET D
        PROVE  v(s) = IF s = {} THEN 0 ELSE LET x == CHOOSE x \in s : TRUE IN V[s \ {x}] + R[x][f]
    <3>1. CASE s = {}
      BY <1>2, <3>1
    <3>2. CASE s # {}
      <4> DEFINE x == CHOOSE x \in s : TRUE
      <4>1. x \in s
        BY <3>2
      <4> HIDE DEF x
      <4>2. v(s) = v(s \ {x}) + R[x][f]
        BY <1>3, <3>2, <4>1
      <4>3. s \ {x} \in SUBSET D
        OBVIOUS
      <4> HIDE DEF D
      <4>4. V[s \ {x}] = v(s \ {x})
        BY <4>3
      <4> HIDE DEF V
      <4>5. v(s) = V[s \ {x}] + R[x][f]
        BY <4>2, <4>4
      <4>q. QED BY <3>2, <4>5 DEF x
    <3>q. QED BY <3>1, <3>2
  <2> HIDE DEF D
  <2>q. QED BY <2>1
<1>5. iter = Loop(iter)
  <2> HIDE DEF V
  <2>q. QED BY <1>4, Zenon
<1> HIDE DEF iter, V
<1> DEFINE Bad == {s \in SUBSET D : iter[s] # v(s)}
<1>6. IsFiniteSet(D)
  <2> DEFINE I == C \intersect 1..n
             g == [i \in I |-> RowKey(t[i])]
  <2>1. IsFiniteSet(1..n) /\ I \subseteq 1..n
    BY IntervalIsFinite
  <2>2. IsFiniteSet(I)
    BY <2>1, FS_Subset
  <2>3. D = {RowKey(t[i]) : i \in I}
    BY DEF KeysIn
  <2> HIDE DEF D, I
  <2>4. g \in Surjection(I, D)
    BY <2>3 DEF Surjection
  <2> HIDE DEF g
  <2>q. QED BY <2>2, <2>4, FS_Surjection
<1>7. Bad = {}
  <2> SUFFICES ASSUME Bad # {} PROVE FALSE
    OBVIOUS
  <2>1. Bad \subseteq SUBSET D
    OBVIOUS
  <2>2. PICK s \in Bad : \A y \in Bad : y \subseteq s => y = s
    <3> HIDE DEF Bad, D
    <3>q. QED BY <1>6, <2>1, SmallestPart
  <2>3. s \in SUBSET D /\ iter[s] # v(s)
    OBVIOUS
  <2>4. iter[s] = IF s = {} THEN 0 ELSE LET x == CHOOSE x \in s : TRUE IN iter[s \ {x}] + R[x][f]
    <3> HIDE DEF D
    <3>q. QED BY <1>5, <2>3
  <2>5. s # {}
    BY <1>2, <2>3, <2>4
  <2> DEFINE x == CHOOSE x \in s : TRUE
  <2>6. x \in s
    BY <2>5
  <2>7. iter[s] = iter[s \ {x}] + R[x][f]
    BY <2>4, <2>5
  <2> HIDE DEF x, D
  <2>8. s \ {x} \in SUBSET D /\ s \ {x} # s /\ s \ {x} \subseteq s
    BY <2>3, <2>6
  <2>9. iter[s \ {x}] = v(s \ {x})
    BY <2>2, <2>8
  <2>q. QED BY <1>3, <2>3, <2>5, <2>6, <2>7, <2>9 DEF D
<1>8. D \in SUBSET D
  OBVIOUS
<1>9. iter[D] = v(D)
  <2> HIDE DEF D
  <2>q. QED BY <1>7, <1>8
<1>q. QED BY <1>1, <1>9 DEF v

(* BuildAuditUsageReport: what a report of all lines has.                   *)
LEMMA AllTallied ==
  ASSUME NEW L, LinesFit(L), NEW n \in Nat, NEW t, t \in [1..n -> L], NEW since, NEW program, NEW any,
         NEW C, C = {i \in 1..n : Tallied(t[i], since, program, any)}
  PROVE  /\ Countable(t, C, n)
         /\ Tallies(AllLines(t, since, program, any), L, t, C, n, n)
<1>1. PICK h : UsageSteps(h, t, since, program, any, n)
  BY LinesGoOn
<1>2. Countable(t, C, n)
  <2>1. DOMAIN t = 1..n /\ C \subseteq 1..n
    OBVIOUS
  <2>2. ASSUME NEW i \in C, NEW f \in Fields PROVE Amount(t[i], f) \in Int
    <3>1. t[i] \in L /\ Tallied(t[i], since, program, any)
      OBVIOUS
    <3>2. t[i].size \in Int
      BY <3>1 DEF Tallied, Wanted, LinesFit
    <3>q. QED BY <3>2 DEF Amount
  <2>q. QED BY <2>1, <2>2 DEF Countable
<1> DEFINE Bad == {k \in 0..n : ~Tallies(h[1..k], L, t, C, n, k)}
<1>3. Tallies(NoLines, L, t, C, n, 0)
  <2>1. KeysIn(t, C, 0) = {}
    <3>1. 1..0 = {}
      OBVIOUS
    <3>q. QED BY <3>1 DEF KeysIn
  <2>2. ASSUME NEW f \in Fields, NEW K PROVE Part(t, C, K, f, n)[0] = 0
    <3>1. SumsTo(Part(t, C, K, f, n), Share(t, C, K, f), n)
      BY <1>2, PartsAdd
    <3>q. QED BY <3>1 DEF SumsTo
  <2>3. /\ NoLines \in Usages(L) /\ DOMAIN NoLines.rows = {} /\ NoLines.events = 0
        /\ \A f \in Fields : NoLines.totals[f] = 0
    BY NoLinesYet
  <2>4. \A key, f : TallyOf(NoLines, key, f) = 0
    BY <2>3 DEF TallyOf
  <2>5. NoLines.totals["queries"] = 0
    BY <2>3 DEF Fields
  <2>q. QED BY <2>1, <2>2, <2>3, <2>4, <2>5 DEF Tallies
<1>4. Bad = {}
  <2> SUFFICES ASSUME Bad # {} PROVE FALSE
    OBVIOUS
  <2>1. PICK k \in Bad : \A y \in Bad : k <= y
    <3>1. Bad \in SUBSET Nat
      OBVIOUS
    <3> HIDE DEF Bad
    <3>q. QED BY <3>1, LeastNumber
  <2>2. k # 0
    <3>1. h[1..0] = NoLines
      BY <1>1 DEF UsageSteps
    <3>q. QED BY <1>3, <2>1, <3>1
  <2>3. k \in 1..n /\ k - 1 \in 0..n /\ ~ (k <= k - 1)
    BY <2>2
  <2>4. Tallies(h[1..(k - 1)], L, t, C, n, k - 1)
    BY <2>1, <2>3
  <2>5. h[1..k] = AddLine(h[1..(k - 1)], t[k], since, program, any)
    BY <1>1, <2>3 DEF UsageSteps
  <2> HIDE DEF Bad
  <2>6. Tallies(AddLine(h[1..(k - 1)], t[k], since, program, any), L, t, C, n, k)
    BY <1>2, <2>3, <2>4, TallyGoesOn
  <2>q. QED BY <2>1, <2>5, <2>6 DEF Bad
<1>5. n \in 0..n
  OBVIOUS
<1>q. QED BY <1>1, <1>2, <1>4, <1>5 DEF UsageSteps

(* BuildAuditUsageReport: the rows add up to the totals, and a row is of    *)
(* one device, program, tool and day of an event, for any lines.            *)
THEOREM UsageIsTrue ==
  ASSUME NEW L, LinesFit(L), NEW n \in Nat, NEW t, t \in [1..n -> L], NEW since, NEW program, NEW any
  PROVE  AddsUp(AllLines(t, since, program, any), t, since)
<1> DEFINE said == AllLines(t, since, program, any)
           C == {i \in 1..n : Tallied(t[i], since, program, any)}
           R == said.rows
<1>1. Countable(t, C, n) /\ Tallies(said, L, t, C, n, n)
  BY AllTallied
<1>2. /\ DOMAIN R = KeysIn(t, C, n)
      /\ \A f \in Fields : said.totals[f] = Part(t, C, KeysIn(t, C, n), f, n)[n]
      /\ \A f \in Fields : \A key \in KeysIn(t, C, n) : TallyOf(said, key, f) = Part(t, C, {key}, f, n)[n]
      /\ said.events = said.totals["queries"]
  BY <1>1 DEF Tallies
<1> HIDE DEF said
<1>3. ASSUME NEW f \in DOMAIN NoUse
      PROVE  FoldSet(LAMBDA k, m : m + said.rows[k][f], 0, DOMAIN said.rows) = said.totals[f]
  <2>1. f \in Fields
    BY DEF NoUse, Fields
  <2>2. ASSUME NEW key \in DOMAIN R PROVE R[key][f] = Part(t, C, {key}, f, n)[n]
    <3>1. TallyOf(said, key, f) = R[key][f]
      BY DEF TallyOf
    <3> HIDE DEF C, R
    <3>q. QED BY <1>2, <2>1, <3>1
  <2> HIDE DEF C, R
  <2>3. RowsSum(R, f) = Part(t, C, DOMAIN R, f, n)[n]
    BY <1>1, <1>2, <2>1, <2>2, RowsAddUp
  <2>4. RowsSum(R, f) = said.totals[f]
    BY <1>2, <2>1, <2>3
  <2>q. QED BY <2>4 DEF RowsSum, R
<1>4. ASSUME NEW k \in DOMAIN R
      PROVE  /\ Len(k) = 4 /\ k[1] >= since
             /\ {e \in ToSet(t) : e.tool = k[4] /\ e.day = k[1] /\ e.program = k[3] /\ e.device = k[2]} # {}
  <2>1. PICK i \in C \intersect 1..n : k = RowKey(t[i])
    BY <1>2 DEF KeysIn
  <2> DEFINE e == t[i]
  <2>2. k = <<e.day, e.device, e.program, e.tool>>
    BY <2>1 DEF RowKey
  <2>3. e.day >= since
    BY DEF Tallied
  <2>4. e \in ToSet(t)
    BY DEF ToSet
  <2> HIDE DEF e
  <2>5. Len(k) = 4 /\ k[1] = e.day /\ k[2] = e.device /\ k[3] = e.program /\ k[4] = e.tool
    BY <2>2
  <2>q. QED BY <2>3, <2>4, <2>5
<1>5. said.events = said.totals.queries
  BY <1>2
<1> HIDE DEF C
<1>q. QED BY <1>3, <1>4, <1>5 DEF AddsUp, said

-------------------------------------------------------------------------------
(* All figures. *)

ExitOf(errors, c) == IF errors[c] = {} THEN ExitOK ELSE Classify(CHOOSE e \in errors[c] : TRUE)

(* classifyOperationalError: an error has an exit code.                     *)
LEMMA ErrorsHaveCodes ==
  ASSUME NEW e, ErrorFits(e)
  PROVE  Classify(e) \in Int
<1> DEFINE I == {i \in 1..Len(Telling) : Telling[i] \in e.words}
           told == ByMessage(e.words)
<1>1. Len(Telling) = 6
  BY DEF Telling
<1>2. told = IF (IF I # {} THEN Min(I) ELSE 0) = 0 THEN ExitConnectivity ELSE ToldExit[IF I # {} THEN Min(I) ELSE 0]
  BY DEF ByMessage, SelectInSeq
<1>3. ASSUME I # {} PROVE Min(I) \in 1..6
  <2>1. I \in SUBSET Nat /\ I \subseteq 1..6
    BY <1>1
  <2> HIDE DEF I
  <2>2. PICK x \in I : \A y \in I : x <= y
    BY <1>3, <2>1, LeastNumber
  <2>3. Min(I) \in I
    BY <2>2 DEF Min
  <2>q. QED BY <2>1, <2>3
<1>4. \A i \in 1..6 : ToldExit[i] \in Int
  <2>1. ToldExit = <<10, 12, 13, 13, 14, 15>>
    BY DEF ToldExit, ExitConfiguration, ExitAuthorization, ExitTLS, ExitCompatibility, ExitPartialFailure
  <2>2. \A i \in 1..6 : i = 1 \/ i = 2 \/ i = 3 \/ i = 4 \/ i = 5 \/ i = 6
    OBVIOUS
  <2>q. QED BY <2>1, <2>2
<1> HIDE DEF I
<1>5. told \in Int
  BY <1>2, <1>3, <1>4 DEF ExitConnectivity
<1> HIDE DEF told
<1>6. Classify(e) = e.code \/ Classify(e) \in {ExitAuthorization, ExitTLS, ExitConnectivity} \/ Classify(e) = told
  <2>1. CASE e.code # 0
    BY <2>1 DEF Classify
  <2>2. CASE e.code = 0 /\ e.grpc = "denied"
    BY <2>2 DEF Classify
  <2>3. CASE e.code = 0 /\ e.grpc = "unavailable"
    BY <2>3 DEF Classify
  <2>4. CASE e.code = 0 /\ e.grpc = "other"
    BY <2>4 DEF Classify, told
  <2>q. QED BY <2>1, <2>2, <2>3, <2>4 DEF ErrorFits
<1>q. QED BY <1>5, <1>6 DEF ErrorFits, ExitAuthorization, ExitTLS, ExitConnectivity

(* Two files, one after the other.                                          *)
LEMMA TwoFlattened ==
  ASSUME NEW one, NEW two
  PROVE  FlattenSeq(<<one, two>>) = one \o two
<1> DEFINE seqs == <<one, two>>
           V == [i \in 1..2 |-> IF i = 1 THEN one ELSE one \o two]
           Loop(h) == [i \in 1..Len(seqs) |-> IF i = 1 THEN seqs[i] ELSE h[i - 1] \o seqs[i]]
           flatten[i \in 1..Len(seqs)] == IF i = 1 THEN seqs[i] ELSE flatten[i - 1] \o seqs[i]
<1>1. Len(seqs) = 2 /\ seqs[1] = one /\ seqs[2] = two
  OBVIOUS
<1>2. FlattenSeq(seqs) = flatten[Len(seqs)]
  BY <1>1 DEF FlattenSeq
<1> HIDE DEF seqs
<1>3. V = Loop(V)
  <2>1. ASSUME NEW i \in 1..2 PROVE (IF i = 1 THEN one ELSE one \o two) = IF i = 1 THEN seqs[i] ELSE V[i - 1] \o seqs[i]
    <3>1. CASE i = 1
      BY <1>1, <3>1
    <3>2. CASE i # 1
      <4>1. i = 2 /\ V[i - 1] = one
        BY <3>2
      <4> HIDE DEF V
      <4>q. QED BY <1>1, <4>1
    <3>q. QED BY <3>1, <3>2
  <2>q. QED BY <1>1, <2>1
<1>4. flatten = Loop(flatten)
  <2> HIDE DEF V
  <2>q. QED BY <1>3, Zenon
<1> HIDE DEF flatten
<1>5. flatten[1] = one /\ flatten[2] = flatten[1] \o two
  <2>1. \A i \in 1..2 : flatten[i] = IF i = 1 THEN seqs[i] ELSE flatten[i - 1] \o seqs[i]
    BY <1>1, <1>4
  <2>2. flatten[1] = one
    BY <1>1, <2>1
  <2> DEFINE i == 2
  <2>3. i \in 1..2 /\ i # 1 /\ i - 1 = 1
    OBVIOUS
  <2> HIDE DEF i
  <2>4. flatten[i] = flatten[i - 1] \o seqs[i]
    BY <2>1, <2>3
  <2>q. QED BY <1>1, <2>2, <2>3, <2>4 DEF i
<1>q. QED BY <1>1, <1>2, <1>5 DEF seqs

(* backoffDelay, ValidateOperational, BuildAuditUsageReport, scoreEvalQuery *)
(* and recallAt: the figures of any policy, of any failures, of any lines   *)
(* of the audit files and of any answers are what they are meant to be.     *)
THEOREM FiguresRightAlways ==
  ASSUME Delays \subseteq Int, \A errors \in FailureMaps : FailuresFit(errors), LinesFit(AuditLines)
  PROVE  DecisionsSpec => []FiguresRight
<1> DEFINE Quiet == asked.what \notin {"backoff", "validate", "usage", "score"}
<1>0. Quiet => FiguresRight
  BY DEF FiguresRight, BackoffDoubles, ValidationExits, UsageAddsUp, RecallGrows
<1>1. DecisionsInit => FiguresRight
  <2>1. DecisionsInit => Quiet
    BY DEF DecisionsInit, Idle
  <2> HIDE DEF Quiet
  <2>q. QED BY <1>0, <2>1
<1>2. FiguresRight /\ [DecisionsNext]_<<asked, answer>> => FiguresRight'
  <2> SUFFICES ASSUME FiguresRight, [DecisionsNext]_<<asked, answer>> PROVE FiguresRight'
    OBVIOUS
  <2>1. CASE WaitAgain
    <3>1. PICK first \in Delays, most \in Delays, failed \in 1..6 :
            /\ asked' = [what |-> "backoff", first |-> first, most |-> most, failed |-> failed]
            /\ answer' = <<Backoff(first, most, failed)>>
      BY <2>1, Zenon DEF WaitAgain, Ask
    <3> DEFINE waited == Backoff(first, most, failed)
    <3>2. waited = LET initial == IF first < 0 THEN 0 ELSE first
                   IN  Least(initial * 2 ^ (failed - 1), IF most < initial THEN initial ELSE most)
      <4>1. first \in Int /\ most \in Int /\ failed \in Nat \ {0}
        OBVIOUS
      <4>q. QED BY <4>1, BackoffIsDoubled
    <3> HIDE DEF waited
    <3>3. asked'.what = "backoff" /\ asked'.first = first /\ asked'.most = most /\ asked'.failed = failed /\ answer'[1] = waited
      BY <3>1 DEF waited
    <3>4. BackoffDoubles'
      BY <3>2, <3>3 DEF BackoffDoubles, Said
    <3>5. ValidationExits' /\ UsageAddsUp' /\ RecallGrows'
      BY <3>3 DEF ValidationExits, UsageAddsUp, RecallGrows
    <3>q. QED BY <3>4, <3>5 DEF FiguresRight
  <2>2. CASE ValidateAll
    <3>1. PICK writer \in BOOLEAN, errors \in FailureMaps :
            LET failures == [c \in DOMAIN errors |-> IF errors[c] = {} THEN ExitOK ELSE Classify(CHOOSE e \in errors[c] : TRUE)]
            IN  /\ asked' = [what |-> "validate", writer |-> writer, failures |-> failures]
                /\ answer' = <<Validate(writer, failures)>>
      BY <2>2, Zenon DEF ValidateAll, Ask
    <3> DEFINE failures == [c \in DOMAIN errors |-> ExitOf(errors, c)]
               said == Validate(writer, failures)
    <3>2. failures \in [CheckNames -> Int]
      <4>1. FailuresFit(errors)
        OBVIOUS
      <4>2. ASSUME NEW c \in CheckNames PROVE ExitOf(errors, c) \in Int
        <5>1. CASE errors[c] = {}
          BY <5>1 DEF ExitOf, ExitOK
        <5>2. CASE errors[c] # {}
          <6> DEFINE e == CHOOSE e \in errors[c] : TRUE
          <6>1. e \in errors[c]
            BY <5>2
          <6>2. ErrorFits(e)
            BY <4>1, <6>1 DEF FailuresFit
          <6>3. ExitOf(errors, c) = Classify(e)
            BY <5>2 DEF ExitOf
          <6> HIDE DEF e
          <6>q. QED BY <6>2, <6>3, ErrorsHaveCodes
        <5>q. QED BY <5>1, <5>2
      <4>q. QED BY <4>1, <4>2 DEF FailuresFit
    <3>3. /\ asked' = [what |-> "validate", writer |-> writer, failures |-> failures]
          /\ answer' = <<said>>
      BY <3>1 DEF ExitOf
    <3> HIDE DEF failures
    <3>4. ReportTrue(said, Checks(writer), failures)
      BY <3>2, ValidationIsTrue
    <3> HIDE DEF said
    <3>5. asked'.what = "validate" /\ asked'.writer = writer /\ asked'.failures = failures /\ answer'[1] = said
      BY <3>3
    <3>6. ValidationExits'
      <4>1. ReportTrue(answer'[1], Checks(asked'.writer), asked'.failures)
        BY <3>4, <3>5
      <4>q. QED BY <4>1 DEF ValidationExits, Said, ReportTrue
    <3>7. BackoffDoubles' /\ UsageAddsUp' /\ RecallGrows'
      BY <3>5 DEF BackoffDoubles, UsageAddsUp, RecallGrows
    <3>q. QED BY <3>6, <3>7 DEF FiguresRight
  <2>3. CASE ReportUsage
    <3>1. PICK n \in 0..2, k \in 0..2 : \E one \in [1..n -> AuditLines], two \in [1..k -> AuditLines] :
            \E since \in Days, program \in Programs \union {AllPrograms} :
              /\ asked' = [what |-> "usage", files |-> <<one, two>>, since |-> since, program |-> program]
              /\ answer' = <<UsageReport(<<one, two>>, since, program, AllPrograms)>>
      BY <2>3, Zenon DEF ReportUsage, Ask
    <3>2. PICK one \in [1..n -> AuditLines], two \in [1..k -> AuditLines] :
            \E since \in Days, program \in Programs \union {AllPrograms} :
              /\ asked' = [what |-> "usage", files |-> <<one, two>>, since |-> since, program |-> program]
              /\ answer' = <<UsageReport(<<one, two>>, since, program, AllPrograms)>>
      BY <3>1
    <3>3. PICK since \in Days, program \in Programs \union {AllPrograms} :
            /\ asked' = [what |-> "usage", files |-> <<one, two>>, since |-> since, program |-> program]
            /\ answer' = <<UsageReport(<<one, two>>, since, program, AllPrograms)>>
      BY <3>2
    <3> DEFINE files == <<one, two>>
               t == FlattenSeq(files)
               said == AllLines(t, since, program, AllPrograms)
    <3>4. Len(t) \in Nat /\ t \in [1..Len(t) -> AuditLines]
      <4>1. t = one \o two
        BY TwoFlattened
      <4>2. one \in Seq(AuditLines) /\ two \in Seq(AuditLines)
        OBVIOUS
      <4> HIDE DEF t
      <4>3. t \in Seq(AuditLines)
        BY <4>1, <4>2
      <4>q. QED BY <4>3
    <3>5. /\ answer' = <<NoReport>> \/ answer' = <<said>>
          /\ asked' = [what |-> "usage", files |-> files, since |-> since, program |-> program]
      <4> DEFINE report == UsageReport(files, since, program, AllPrograms)
      <4>1. report = NoReport \/ report = said
        BY DEF UsageReport
      <4>2. /\ answer' = <<report>>
            /\ asked' = [what |-> "usage", files |-> files, since |-> since, program |-> program]
        BY <3>3
      <4> HIDE DEF report, said
      <4>q. QED BY <4>1, <4>2
    <3> HIDE DEF t
    <3>6. AddsUp(said, t, since)
      BY <3>4, UsageIsTrue
    <3> HIDE DEF said, files
    <3>7. /\ asked'.what = "usage" /\ asked'.files = files /\ asked'.since = since
          /\ answer'[1] = NoReport \/ answer'[1] = said
      BY <3>5
    <3>8. UsageAddsUp'
      <4>1. AddsUp(said, FlattenSeq(files), since)
        BY <3>6 DEF t
      <4>2. answer'[1] = NoReport \/ AddsUp(answer'[1], FlattenSeq(asked'.files), asked'.since)
        BY <3>7, <4>1
      <4>q. QED BY <4>2 DEF UsageAddsUp, Said, NoReport
    <3>9. BackoffDoubles' /\ ValidationExits' /\ RecallGrows'
      BY <3>7 DEF BackoffDoubles, ValidationExits, RecallGrows
    <3>q. QED BY <3>8, <3>9 DEF FiguresRight
  <2>4. CASE ScoreAnswer
    <3>1. PICK n \in 1..2, k \in 0..3 : \E relevant \in [1..n -> Paths], paths \in [1..k -> Paths] :
            /\ asked' = [what |-> "score", relevant |-> relevant, paths |-> paths]
            /\ answer' = <<Score(relevant, paths)>>
      BY <2>4, Zenon DEF ScoreAnswer, Ask
    <3>2. PICK relevant \in [1..n -> Paths], paths \in [1..k -> Paths] :
            /\ asked' = [what |-> "score", relevant |-> relevant, paths |-> paths]
            /\ answer' = <<Score(relevant, paths)>>
      BY <3>1
    <3> DEFINE said == Score(relevant, paths)
    <3>3. ScoresRight(relevant, paths, said)
      <4>1. relevant \in Seq(Paths) /\ paths \in Seq(Paths)
        OBVIOUS
      <4>q. QED BY <4>1, ScoresAreRight
    <3> HIDE DEF said
    <3>4. asked'.what = "score" /\ asked'.relevant = relevant /\ asked'.paths = paths /\ answer'[1] = said
      BY <3>2 DEF said
    <3>5. RecallGrows'
      BY <3>3, <3>4 DEF RecallGrows, Said, ScoresRight
    <3>6. BackoffDoubles' /\ ValidationExits' /\ UsageAddsUp'
      BY <3>4 DEF BackoffDoubles, ValidationExits, UsageAddsUp
    <3>q. QED BY <3>5, <3>6 DEF FiguresRight
  <2>5. CASE \/ CutText \/ CutMarkdown \/ CutBlocks \/ JudgeAssets \/ PublishRules \/ AnswerSearch \/ AnswerContext
             \/ ListTargets \/ RankTargets \/ Done
    <3>1. Quiet'
      <4>1. CutText => Quiet'
        BY DEF CutText, Ask
      <4>2. CutMarkdown => Quiet'
        BY DEF CutMarkdown, Ask
      <4>3. CutBlocks => Quiet'
        BY DEF CutBlocks, Ask
      <4>4. JudgeAssets => Quiet'
        BY DEF JudgeAssets, Ask
      <4>5. PublishRules => Quiet'
        BY DEF PublishRules, Ask
      <4>6. AnswerSearch => Quiet'
        BY DEF AnswerSearch, Ask
      <4>7. AnswerContext => Quiet'
        BY DEF AnswerContext, Ask
      <4>8. ListTargets => Quiet'
        BY DEF ListTargets, Ask
      <4>9. RankTargets => Quiet'
        BY DEF RankTargets, Ask
      <4>10. Done => Quiet'
        BY DEF Done, Idle
      <4> HIDE DEF Quiet
      <4>q. QED BY <2>5, <4>1, <4>2, <4>3, <4>4, <4>5, <4>6, <4>7, <4>8, <4>9, <4>10
    <3>q. QED BY <3>1 DEF FiguresRight, BackoffDoubles, ValidationExits, UsageAddsUp, RecallGrows
  <2>6. CASE UNCHANGED <<asked, answer>>
    <3>1. asked' = asked /\ answer' = answer
      BY <2>6
    <3>2. BackoffDoubles'
      BY <3>1 DEF FiguresRight, BackoffDoubles, Said
    <3>3. ValidationExits'
      <4>1. asked.what = "validate" => ReportTrue(answer[1], Checks(asked.writer), asked.failures)
        BY DEF FiguresRight, ValidationExits, Said, ReportTrue
      <4>2. asked'.what = "validate" => ReportTrue(answer'[1], Checks(asked'.writer), asked'.failures)
        BY <3>1, <4>1
      <4>q. QED BY <4>2 DEF ValidationExits, Said, ReportTrue
    <3>4. UsageAddsUp'
      <4>1. asked.what = "usage" => answer[1] = NoReport \/ AddsUp(answer[1], FlattenSeq(asked.files), asked.since)
        BY DEF FiguresRight, UsageAddsUp, Said, NoReport
      <4>2. asked'.what = "usage" =>
              answer'[1] = NoReport \/ AddsUp(answer'[1], FlattenSeq(asked'.files), asked'.since)
        BY <3>1, <4>1
      <4>q. QED BY <4>2 DEF UsageAddsUp, Said, NoReport
    <3>5. RecallGrows'
      BY <3>1 DEF FiguresRight, RecallGrows, Said
    <3>q. QED BY <3>2, <3>3, <3>4, <3>5 DEF FiguresRight
  <2>q. QED BY <2>1, <2>2, <2>3, <2>4, <2>5, <2>6 DEF DecisionsNext
<1>q. QED BY <1>1, <1>2, PTL DEF DecisionsSpec
=================================================================================
