------------------------------ MODULE AnswersProofs ------------------------------
(***************************************************************************)
(* Theorems about the answers of hive_search, hive_get_context and         *)
(* hive_list_targets as Decisions has them, for stores, requests, limits,  *)
(* scans and candidates of any number and size.                            *)
(*                                                                         *)
(* Both kinds of answer are sorted and filtered lists, and DecisionsProofs *)
(* says what Lists returns: a sort has every element once, because how     *)
(* many elements go before one tells its place.  An answer is what its     *)
(* steps leave of the ranking: the limit, the text budget and              *)
(* fitSearchResponse each keep a beginning (CutFrom), which is why nothing *)
(* better than what is shown is left out, and why an answer that nothing   *)
(* was cut from has all.                                                   *)
(***************************************************************************)
EXTENDS DecisionsProofs

-------------------------------------------------------------------------------
(* The text of results. *)

(* What is kept of the texts, one result after the other.                   *)
KeptSums(h, results, n) ==
  /\ TextOf(results) = h[1..n]
  /\ h[1..0] = 0
  /\ \A k \in 1..n : h[1..k] = h[1..(k - 1)] + results[k].kept

(* The text of any results is summed in this way.                           *)
LEMMA TextGoesOn ==
  ASSUME NEW R, \A r \in R : r.kept \in Int, NEW n \in Nat, NEW t, t \in [1..n -> R]
  PROVE  \E h : KeptSums(h, t, n)
<1> DEFINE D == DOMAIN t
           f == [p \in Int \X R |-> p[1] + p[2].kept]
           Loop(h) == [s \in SUBSET D |-> IF s = {} THEN 0 ELSE LET x == Max(s) IN h[s \ {x}] + t[x].kept]
           iter[s \in SUBSET D] == IF s = {} THEN 0 ELSE LET x == Max(s) IN iter[s \ {x}] + t[x].kept
<1>1. TextOf(t) = iter[D]
  BY DEF TextOf, FoldLeft, MapThenFoldSet
<1>2. D = 1..n
  OBVIOUS
<1>3. f \in [Int \X R -> Int]
  OBVIOUS
<1>4. PICK h \in [SUBSET (1..n) -> Int] : Accumulates(h, 1..n, f, 0, t)
  <2> HIDE DEF f
  <2>1. 0 \in Int
    OBVIOUS
  <2>q. QED BY <1>3, <2>1, LoopExists
<1>5. ASSUME NEW u \in SUBSET (1..n)
      PROVE  h[u] = IF u = {} THEN 0 ELSE h[u \ {Max(u)}] + t[Max(u)].kept
  <2>1. CASE u = {}
    BY <1>4, <2>1 DEF Accumulates
  <2>2. CASE u # {}
    <3>1. Max(u) \in u
      BY <2>2, GreatestNumber
    <3>2. h[u \ {Max(u)}] \in Int /\ t[Max(u)] \in R
      BY <1>4, <3>1
    <3>3. h[u] = f[<<h[u \ {Max(u)}], t[Max(u)]>>]
      BY <1>4, <2>2 DEF Accumulates
    <3> DEFINE a == h[u \ {Max(u)}]
               b == t[Max(u)]
    <3> HIDE DEF a, b
    <3>4. a \in Int /\ b \in R /\ h[u] = f[<<a, b>>]
      BY <3>2, <3>3 DEF a, b
    <3>5. f[<<a, b>>] = a + b.kept
      BY <3>4
    <3>q. QED BY <2>2, <3>4, <3>5 DEF a, b
  <2>q. QED BY <2>1, <2>2
<1>6. h = Loop(h)
  <2>1. h = [u \in SUBSET D |-> h[u]]
    BY <1>2
  <2>2. \A u \in SUBSET D : h[u] = IF u = {} THEN 0 ELSE LET x == Max(u) IN h[u \ {x}] + t[x].kept
    BY <1>2, <1>5
  <2> HIDE DEF D
  <2>q. QED BY <2>1, <2>2
<1>7. iter = Loop(iter)
  BY <1>6, Zenon
<1> HIDE DEF iter
<1>8. iter[1..0] = 0
  <2>1. 1..0 = {}
    OBVIOUS
  <2>2. iter[{}] = 0
    BY <1>7
  <2>q. QED BY <2>1, <2>2
<1>9. ASSUME NEW k \in 1..n PROVE iter[1..k] = iter[1..(k - 1)] + t[k].kept
  <2> DEFINE I == 1..k
  <2> HIDE DEF I
  <2>1. I \in SUBSET D /\ I # {} /\ Max(I) = k /\ I \ {k} = 1..(k - 1)
    BY <1>2, UpTo DEF I
  <2>2. iter[I] = iter[I \ {Max(I)}] + t[Max(I)].kept
    <3> HIDE DEF D
    <3>q. QED BY <1>7, <2>1
  <2>q. QED BY <2>1, <2>2 DEF I
<1>10. iter[D] = iter[1..n]
  <2> HIDE DEF D
  <2>q. QED BY <1>2
<1>11. KeptSums(iter, t, n)
  BY <1>1, <1>8, <1>9, <1>10 DEF KeptSums
<1>q. QED BY <1>11

(* No result has no text, and one more adds what is kept of it.             *)
LEMMA TextOfAppend ==
  ASSUME NEW R, \A r \in R : r.kept \in Int, NEW s \in Seq(R), NEW last \in R
  PROVE  TextOf(<<>>) = 0 /\ TextOf(s) \in Int /\ TextOf(Append(s, last)) = TextOf(s) + last.kept
<1> DEFINE L == Len(s)
           t == Append(s, last)
<1>1. L \in Nat /\ s \in [1..L -> R] /\ t \in [1..(L + 1) -> R] /\ L + 1 \in Nat
  <2>1. L \in Nat /\ L + 1 \in Nat /\ t \in Seq(R) /\ Len(t) = L + 1
    OBVIOUS
  <2>2. s \in [1..L -> R]
    OBVIOUS
  <2> HIDE DEF t, L
  <2>3. t \in [1..(L + 1) -> R]
    BY <2>1
  <2>q. QED BY <2>1, <2>2, <2>3
<1>2. t[L + 1] = last /\ \A i \in 1..L : t[i] = s[i]
  OBVIOUS
<1>3. TextOf(<<>>) = 0
  <2> DEFINE none == [i \in 1..0 |-> last]
  <2>1. none \in [1..0 -> R] /\ 0 \in Nat
    OBVIOUS
  <2>2. none = <<>>
    OBVIOUS
  <2> HIDE DEF none
  <2>3. PICK g : KeptSums(g, none, 0)
    BY <2>1, TextGoesOn
  <2>q. QED BY <2>2, <2>3 DEF KeptSums
<1> HIDE DEF L, t
<1>4. PICK h : KeptSums(h, s, L)
  BY <1>1, TextGoesOn
<1>5. PICK g : KeptSums(g, t, L + 1)
  BY <1>1, TextGoesOn
<1> DEFINE Bad == {k \in 0..L : ~ (h[1..k] = g[1..k] /\ h[1..k] \in Int)}
<1>6. Bad = {}
  <2> SUFFICES ASSUME Bad # {} PROVE FALSE
    OBVIOUS
  <2>1. PICK k \in Bad : \A y \in Bad : k <= y
    <3>1. Bad \in SUBSET Nat
      BY <1>1
    <3> HIDE DEF Bad
    <3>q. QED BY <3>1, LeastNumber
  <2>2. k # 0
    <3>1. h[1..0] = 0 /\ g[1..0] = 0
      BY <1>4, <1>5 DEF KeptSums
    <3>q. QED BY <2>1, <3>1
  <2>3. k \in 1..L /\ k \in 1..(L + 1) /\ k - 1 \in 0..L /\ ~ (k <= k - 1)
    BY <1>1, <2>2
  <2>4. h[1..(k - 1)] = g[1..(k - 1)] /\ h[1..(k - 1)] \in Int
    BY <2>1, <2>3
  <2>5. h[1..k] = h[1..(k - 1)] + s[k].kept /\ g[1..k] = g[1..(k - 1)] + t[k].kept
    BY <1>4, <1>5, <2>3 DEF KeptSums
  <2>6. s[k] \in R /\ t[k] = s[k] /\ s[k].kept \in Int
    BY <1>1, <1>2, <2>3
  <2>7. h[1..k] = g[1..k] /\ h[1..k] \in Int
    BY <2>4, <2>5, <2>6
  <2>q. QED BY <2>1, <2>7
<1>7. h[1..L] = g[1..L] /\ h[1..L] \in Int
  <2>1. L \in 0..L
    BY <1>1
  <2>q. QED BY <1>6, <2>1
<1>8. g[1..(L + 1)] = g[1..L] + last.kept
  <2> DEFINE K == L + 1
  <2>1. K \in 1..K /\ K - 1 = L /\ t[K] = last
    BY <1>1, <1>2
  <2>2. KeptSums(g, t, K)
    BY <1>5
  <2> HIDE DEF K
  <2>3. g[1..K] = g[1..(K - 1)] + t[K].kept
    BY <2>1, <2>2 DEF KeptSums
  <2>q. QED BY <2>1, <2>3 DEF K
<1>9. TextOf(s) = h[1..L] /\ TextOf(t) = g[1..(L + 1)]
  BY <1>4, <1>5 DEF KeptSums
<1>q. QED BY <1>3, <1>7, <1>8, <1>9 DEF t

-------------------------------------------------------------------------------
(* fitSearchResponse, step by step. *)

(* Results may be cut: what is kept of a text may become less.              *)
Cuttable(R) ==
  /\ \A r \in R : r.kept \in Nat
  /\ \A r \in R : r = Result(r.chunk, r.kept) /\ \A k \in Nat : Result(r.chunk, k) \in R

(* What is left of results when some are cut, from the end.                 *)
CutFrom(a, b) ==
  /\ Len(a) <= Len(b) /\ TextOf(a) <= TextOf(b)
  /\ \A i \in 1..Len(a) : a[i].chunk = b[i].chunk /\ a[i].kept <= b[i].kept

(* How many more times results can be cut.                                  *)
CutsLeft(s) == IF s = <<>> THEN 0 ELSE 2 * Len(s) - (IF s[Len(s)].kept = 0 THEN 1 ELSE 0)

(* A cut makes the results fit, or leaves fewer cuts.                       *)
LEMMA FitOnceCuts ==
  ASSUME NEW R, Cuttable(R), NEW s \in Seq(R), s # <<>>, ~ (Bytes(s) <= MostBytes)
  PROVE  /\ FitOnce(s) \in Seq(R) /\ CutFrom(FitOnce(s), s)
         /\ Bytes(FitOnce(s)) <= MostBytes \/ CutsLeft(FitOnce(s)) < CutsLeft(s)
<1> DEFINE L == Len(s)
           F == Front(s)
           e == s[L]
           T == TextOf(F)
           new == FitOnce(s)
<1>1. L \in Nat /\ L # 0 /\ F \in Seq(R) /\ Len(F) = L - 1 /\ e \in R /\ L \in 1..L
  <2>1. L \in Nat /\ L # 0 /\ L \in 1..L /\ e \in R
    OBVIOUS
  <2>2. SubSeq(s, 1, L - 1) \in Seq(R) /\ Len(SubSeq(s, 1, L - 1)) = L - 1
    <3> DEFINE n == L - 1
    <3>1. n \in Nat /\ n <= L
      BY <2>1
    <3> HIDE DEF n
    <3>2. SubSeq(s, 1, n) \in Seq(R) /\ Len(SubSeq(s, 1, n)) = n
      BY <2>1, <3>1
    <3>q. QED BY <3>2 DEF n
  <2>q. QED BY <2>1, <2>2 DEF Front
<1>2. ASSUME NEW i \in 1..(L - 1) PROVE F[i] = s[i] /\ i \in 1..L
  <2>1. i \in 1..L
    BY <1>1
  <2>2. SubSeq(s, 1, L - 1)[i] = s[i]
    BY <1>1
  <2>q. QED BY <2>1, <2>2 DEF Front
<1>3. \A r \in R : r.kept \in Int
  <2>1. \A r \in R : r.kept \in Nat
    BY Zenon DEF Cuttable
  <2>q. QED BY <2>1
<1>4. s = Append(F, e)
  <2> DEFINE b == Append(F, e)
  <2>1. b \in Seq(R) /\ Len(b) = L /\ \A i \in 1..L : b[i] = s[i]
    <3>1. b \in Seq(R) /\ Len(b) = L
      <4> HIDE DEF F, e, L
      <4>q. QED BY <1>1
    <3>2. ASSUME NEW i \in 1..L PROVE b[i] = s[i]
      <4>1. b[i] = IF i <= L - 1 THEN F[i] ELSE e
        <5> HIDE DEF F, e, L
        <5>q. QED BY <1>1
      <4>2. CASE i <= L - 1
        <5>1. i \in 1..(L - 1)
          BY <4>2
        <5>q. QED BY <1>2, <4>1, <4>2, <5>1
      <4>3. CASE ~ (i <= L - 1)
        <5>1. i = L
          BY <1>1, <4>3
        <5>q. QED BY <4>1, <4>3, <5>1
      <4>q. QED BY <4>2, <4>3
    <3>q. QED BY <3>1, <3>2
  <2> HIDE DEF b
  <2>2. s \in Seq(R) /\ Len(s) = Len(b) /\ \A i \in 1..Len(s) : s[i] = b[i]
    BY <2>1
  <2>3. s = b
    BY <2>1, <2>2, SeqEqual, Zenon
  <2>q. QED BY <2>3 DEF b
<1> HIDE DEF F, e, T, new
<1>5. T \in Int /\ TextOf(s) = T + e.kept /\ e.kept \in Nat
  <2>1. TextOf(F) \in Int /\ TextOf(Append(F, e)) = TextOf(F) + e.kept
    BY <1>1, <1>3, TextOfAppend
  <2>2. e.kept \in Nat
    BY <1>1 DEF Cuttable
  <2>q. QED BY <1>4, <2>1, <2>2 DEF T
<1>6. ItemBytes \in Nat /\ MostBytes \in Nat /\ Slack \in Nat
  BY RetrievalAssumption
<1> DEFINE X == ItemBytes * L
<1>7. X \in Int /\ Bytes(s) = X + (T + e.kept) /\ X + (T + e.kept) > MostBytes
  <2>1. Bytes(s) = ItemBytes * L + TextOf(s)
    BY DEF Bytes
  <2> HIDE DEF L
  <2>2. X \in Int
    BY <1>1, <1>6
  <2> HIDE DEF X
  <2>3. Bytes(s) = X + (T + e.kept)
    BY <1>5, <2>1 DEF X
  <2>q. QED BY <1>5, <1>6, <2>2, <2>3
<1>8. CASE e.kept > 0
  <2> DEFINE keep == e.kept - (Bytes(s) - MostBytes) - Slack
             k == IF keep < 0 THEN 0 ELSE keep
             cut == [e EXCEPT !.kept = k]
             c == Append(F, cut)
  <2>1. new = [s EXCEPT ![L].kept = k]
    BY <1>8 DEF FitOnce, new, e
  <2>2. k \in Nat /\ k <= e.kept /\ (X + (T + k) <= MostBytes \/ k = 0)
    <3>1. keep = MostBytes - X - T - Slack /\ keep \in Int
      <4> HIDE DEF X, L
      <4>q. QED BY <1>5, <1>6, <1>7
    <3>2. keep < e.kept
      <4> HIDE DEF X, L, keep
      <4>q. QED BY <1>5, <1>6, <1>7, <3>1
    <3> HIDE DEF keep, X, L
    <3>3. CASE keep < 0
      BY <1>5, <3>3
    <3>4. CASE ~ (keep < 0)
      <4>1. k = keep
        BY <3>4
      <4> HIDE DEF k
      <4>q. QED BY <1>5, <1>6, <1>7, <3>1, <3>2, <3>4, <4>1
    <3>q. QED BY <3>3, <3>4
  <2> HIDE DEF keep, k
  <2>3. cut = Result(e.chunk, k) /\ cut \in R
    <3>1. e = Result(e.chunk, e.kept) /\ Result(e.chunk, k) \in R
      BY <1>1, <2>2 DEF Cuttable
    <3> DEFINE a == e.chunk
               b == e.kept
    <3> HIDE DEF a, b
    <3>2. e = Result(a, b)
      BY <3>1 DEF a, b
    <3>3. [e EXCEPT !.kept = k] = Result(a, k)
      BY <3>2 DEF Result
    <3>q. QED BY <3>1, <3>3 DEF a
  <2>4. cut.kept = k /\ cut.chunk = e.chunk
    BY <2>3 DEF Result
  <2> HIDE DEF cut
  <2>5. new = c
    <3>1. new = [s EXCEPT ![L] = cut]
      BY <2>1 DEF cut, e
    <3>2. new \in Seq(R) /\ Len(new) = L /\ \A i \in 1..L : new[i] = IF i = L THEN cut ELSE s[i]
      BY <1>1, <2>3, <3>1
    <3>3. c \in Seq(R) /\ Len(c) = L
      <4> HIDE DEF L
      <4>q. QED BY <1>1, <2>3
    <3>4. ASSUME NEW i \in 1..L PROVE c[i] = IF i = L THEN cut ELSE s[i]
      <4>1. c[i] = IF i <= L - 1 THEN F[i] ELSE cut
        <5> HIDE DEF L
        <5>q. QED BY <1>1, <2>3
      <4>2. CASE i <= L - 1
        <5>1. i \in 1..(L - 1) /\ i # L
          BY <4>2
        <5>q. QED BY <1>2, <4>1, <4>2, <5>1
      <4>3. CASE ~ (i <= L - 1)
        <5>1. i = L
          BY <1>1, <4>3
        <5>q. QED BY <4>1, <4>3, <5>1
      <4>q. QED BY <4>2, <4>3
    <3> HIDE DEF c
    <3>5. Len(new) = Len(c) /\ \A i \in 1..Len(new) : new[i] = c[i]
      BY <3>2, <3>3, <3>4
    <3>q. QED BY <3>2, <3>3, <3>5, SeqEqual, Zenon
  <2>6. TextOf(new) = T + k
    <3>1. TextOf(Append(F, cut)) = TextOf(F) + cut.kept
      BY <1>1, <1>3, <2>3, TextOfAppend
    <3>q. QED BY <2>4, <2>5, <3>1 DEF T
  <2>7. new \in Seq(R) /\ Len(new) = L /\ new[L] = cut /\ \A i \in 1..(L - 1) : new[i] = s[i]
    <3>1. c \in Seq(R) /\ Len(c) = L /\ c[L] = cut
      <4> HIDE DEF L
      <4>q. QED BY <1>1, <2>3
    <3>2. ASSUME NEW i \in 1..(L - 1) PROVE c[i] = s[i]
      <4>1. c[i] = F[i]
        <5> HIDE DEF L
        <5>q. QED BY <1>1, <2>3
      <4>q. QED BY <1>2, <4>1
    <3> HIDE DEF c
    <3>q. QED BY <2>5, <3>1, <3>2
  <2>8. CutFrom(new, s)
    <3>1. Len(new) <= Len(s) /\ TextOf(new) <= TextOf(s)
      <4>1. T + k <= T + e.kept
        BY <1>5, <2>2
      <4>q. QED BY <1>1, <1>5, <2>6, <2>7, <4>1
    <3>2. ASSUME NEW i \in 1..L PROVE new[i].chunk = s[i].chunk /\ new[i].kept <= s[i].kept
      <4>1. CASE i = L
        BY <2>2, <2>4, <2>7, <4>1 DEF e
      <4>2. CASE i # L
        <5>1. i \in 1..(L - 1) /\ s[i] \in R
          BY <1>1, <4>2
        <5>2. s[i].kept \in Int
          BY <1>3, <5>1
        <5>q. QED BY <2>7, <5>1, <5>2
      <4>q. QED BY <4>1, <4>2
    <3>q. QED BY <2>7, <3>1, <3>2 DEF CutFrom
  <2>9. Bytes(new) <= MostBytes \/ CutsLeft(new) < CutsLeft(s)
    <3>1. Bytes(new) = X + (T + k)
      BY <2>6, <2>7 DEF Bytes
    <3>2. CASE k = 0
      <4>1. new # <<>> /\ new[Len(new)].kept = 0 /\ Len(new) = L
        BY <1>1, <2>4, <2>7, <3>2
      <4>2. s[L].kept # 0
        BY <1>5, <1>8 DEF e
      <4> HIDE DEF L
      <4>3. CutsLeft(new) = 2 * L - 1
        BY <1>1, <4>1 DEF CutsLeft
      <4>4. CutsLeft(s) = 2 * L - 0
        BY <1>1, <4>2 DEF CutsLeft, L
      <4>q. QED BY <1>1, <4>3, <4>4
    <3>3. CASE k # 0
      BY <2>2, <3>1, <3>3
    <3>q. QED BY <3>2, <3>3
  <2>q. QED BY <2>7, <2>8, <2>9 DEF new
<1>9. CASE ~ (e.kept > 0)
  <2>1. e.kept = 0
    BY <1>5, <1>9
  <2>2. new = F
    BY <1>9 DEF FitOnce, new, e, F
  <2>3. CutFrom(F, s)
    <3>1. Len(F) <= Len(s) /\ TextOf(F) <= TextOf(s)
      BY <1>1, <1>5, <2>1 DEF T
    <3>2. ASSUME NEW i \in 1..Len(F) PROVE F[i].chunk = s[i].chunk /\ F[i].kept <= s[i].kept
      <4>1. i \in 1..(L - 1) /\ i \in 1..L
        BY <1>1
      <4>2. F[i] = s[i] /\ s[i] \in R
        BY <1>2, <4>1
      <4>3. s[i].kept \in Int
        BY <1>3, <4>2
      <4>q. QED BY <4>2, <4>3
    <3>q. QED BY <3>1, <3>2 DEF CutFrom
  <2>4. CutsLeft(F) < CutsLeft(s)
    <3>1. CutsLeft(s) = 2 * L - 1
      BY <2>1 DEF CutsLeft, e
    <3>2. CutsLeft(F) <= 2 * (L - 1)
      <4>1. CASE F = <<>>
        BY <1>1, <4>1 DEF CutsLeft
      <4>2. CASE F # <<>>
        BY <1>1, <4>2 DEF CutsLeft
      <4>q. QED BY <4>1, <4>2
    <3>3. CutsLeft(F) \in Int
      BY <1>1 DEF CutsLeft
    <3>q. QED BY <1>1, <3>1, <3>2, <3>3
  <2>q. QED BY <1>1, <2>2, <2>3, <2>4 DEF new
<1>q. QED BY <1>8, <1>9

(* Results that are cut twice are cut.                                      *)
LEMMA CutFurther ==
  ASSUME NEW R, Cuttable(R), R # {}, NEW a \in Seq(R), NEW b \in Seq(R), NEW c \in Seq(R), CutFrom(a, b), CutFrom(b, c)
  PROVE  CutFrom(a, c)
<1>1. \A r \in R : r.kept \in Int
  <2>1. \A r \in R : r.kept \in Nat
    BY Zenon DEF Cuttable
  <2>q. QED BY <2>1
<1>2. TextOf(a) \in Int /\ TextOf(b) \in Int /\ TextOf(c) \in Int
  <2>1. ASSUME NEW s \in Seq(R) PROVE TextOf(s) \in Int
    <3>1. PICK r \in R : TRUE
      OBVIOUS
    <3>q. QED BY <1>1, <3>1, TextOfAppend
  <2>q. QED BY <2>1
<1>3. Len(a) \in Nat /\ Len(b) \in Nat /\ Len(c) \in Nat
  OBVIOUS
<1>4. Len(a) <= Len(c) /\ TextOf(a) <= TextOf(c)
  BY <1>2, <1>3 DEF CutFrom
<1>5. ASSUME NEW i \in 1..Len(a) PROVE a[i].chunk = c[i].chunk /\ a[i].kept <= c[i].kept
  <2>1. i \in 1..Len(b) /\ i \in 1..Len(c)
    BY <1>3 DEF CutFrom
  <2>2. a[i] \in R /\ b[i] \in R /\ c[i] \in R
    BY <2>1
  <2>3. a[i].kept \in Int /\ b[i].kept \in Int /\ c[i].kept \in Int
    BY <1>1, <2>2
  <2>4. a[i].chunk = b[i].chunk /\ a[i].kept <= b[i].kept /\ b[i].chunk = c[i].chunk /\ b[i].kept <= c[i].kept
    BY <2>1 DEF CutFrom
  <2>q. QED BY <2>3, <2>4
<1>q. QED BY <1>4, <1>5 DEF CutFrom

FitStep(s) == IF Bytes(s) <= MostBytes \/ s = <<>> THEN s ELSE FitOnce(s)

FitSteps(f, s, top) == f = [n \in 0..top |-> IF n = 0 THEN s ELSE FitStep(f[n - 1])]

(* Cutting can be repeated any number of times.                             *)
LEMMA FitStepsExist ==
  ASSUME NEW R, Cuttable(R), NEW s \in Seq(R), NEW top \in Nat
  PROVE  \E f : FitSteps(f, s, top)
<1> DEFINE V == Seq(R)
           f == [p \in V \X {0} |-> FitStep(p[1])]
           t == [i \in 1..top |-> 0]
<1>1. f \in [V \X {0} -> V]
  <2>1. ASSUME NEW v \in V PROVE FitStep(v) \in V
    <3>1. CASE Bytes(v) <= MostBytes \/ v = <<>>
      BY <3>1 DEF FitStep
    <3>2. CASE ~ (Bytes(v) <= MostBytes) /\ v # <<>>
      BY <3>2, FitOnceCuts DEF FitStep
    <3>q. QED BY <3>1, <3>2
  <2> HIDE DEF V
  <2>q. QED BY <2>1
<1>2. t \in [1..top -> {0}] /\ s \in V
  OBVIOUS
<1> HIDE DEF f, t, V
<1>3. PICK h \in [SUBSET (1..top) -> V] : Accumulates(h, 1..top, f, s, t)
  BY <1>1, <1>2, LoopExists
<1>4. h[1..0] = s /\ \A k \in 1..top : h[1..k] = f[<<h[1..(k - 1)], t[k]>>]
  <2>1. StepByStep(h, top, f, s, t)
    BY <1>3, LoopSteps
  <2>q. QED BY <2>1 DEF StepByStep
<1> DEFINE g == [n \in 0..top |-> h[1..n]]
<1>5. ASSUME NEW n \in 0..top PROVE g[n] = IF n = 0 THEN s ELSE FitStep(g[n - 1])
  <2>1. CASE n = 0
    BY <1>4, <2>1
  <2>2. CASE n # 0
    <3>1. n \in 1..top /\ n - 1 \in 0..top
      BY <2>2
    <3>2. h[1..n] = f[<<h[1..(n - 1)], t[n]>>]
      BY <1>4, <3>1
    <3> DEFINE a == h[1..(n - 1)]
    <3>3. a \in V /\ t[n] = 0
      <4>1. 1..(n - 1) \in SUBSET (1..top)
        BY <3>1
      <4>q. QED BY <1>3, <3>1, <4>1 DEF t
    <3>4. g[n] = h[1..n] /\ g[n - 1] = a
      BY <3>1
    <3> HIDE DEF a, g
    <3>5. f[<<a, 0>>] = FitStep(a)
      BY <3>3 DEF f
    <3>6. g[n] = f[<<a, 0>>]
      BY <3>2, <3>3, <3>4 DEF a
    <3>q. QED BY <2>2, <3>4, <3>5, <3>6
  <2>q. QED BY <2>1, <2>2
<1>6. g = [n \in 0..top |-> g[n]]
  OBVIOUS
<1> HIDE DEF g
<1>7. FitSteps(g, s, top)
  BY <1>5, <1>6 DEF FitSteps
<1>q. QED BY <1>7

(* fitSearchResponse: what it returns fits, and was only cut from the end.  *)
LEMMA FitFits ==
  ASSUME NEW R, Cuttable(R), R # {}, NEW s \in Seq(R)
  PROVE  Fit(s) \in Seq(R) /\ CutFrom(Fit(s), s) /\ Bytes(Fit(s)) <= MostBytes
<1> DEFINE top == 2 * Len(s)
           fits[n \in 0..top] ==
             IF n = 0 THEN s
             ELSE IF Bytes(fits[n - 1]) <= MostBytes \/ fits[n - 1] = <<>> THEN fits[n - 1]
             ELSE FitOnce(fits[n - 1])
<1>1. Fit(s) = fits[top]
  BY DEF Fit
<1>2. top \in Nat /\ Len(s) \in Nat
  OBVIOUS
<1>3. \E f : f = [n \in 0..top |-> IF n = 0 THEN s
                                   ELSE IF Bytes(f[n - 1]) <= MostBytes \/ f[n - 1] = <<>> THEN f[n - 1]
                                   ELSE FitOnce(f[n - 1])]
  <2> HIDE DEF top
  <2>1. PICK f : FitSteps(f, s, top)
    BY <1>2, FitStepsExist
  <2>2. f = [n \in 0..top |-> IF n = 0 THEN s
                              ELSE IF Bytes(f[n - 1]) <= MostBytes \/ f[n - 1] = <<>> THEN f[n - 1]
                              ELSE FitOnce(f[n - 1])]
    BY <2>1 DEF FitSteps, FitStep
  <2>q. QED BY <2>2
<1>4. FitSteps(fits, s, top)
  <2> HIDE DEF top
  <2>1. fits = [n \in 0..top |-> IF n = 0 THEN s
                                 ELSE IF Bytes(fits[n - 1]) <= MostBytes \/ fits[n - 1] = <<>> THEN fits[n - 1]
                                 ELSE FitOnce(fits[n - 1])]
    BY <1>3, Zenon
  <2> HIDE DEF fits
  <2>q. QED BY <2>1 DEF FitSteps, FitStep
<1> HIDE DEF fits
<1>5. fits[0] = s /\ \A n \in 1..top : fits[n] = FitStep(fits[n - 1])
  <2> HIDE DEF top
  <2>q. QED BY <1>2, <1>4 DEF FitSteps
<1>6. \A r \in R : r.kept \in Int
  <2>1. \A r \in R : r.kept \in Nat
    BY Zenon DEF Cuttable
  <2>q. QED BY <2>1
<1>7. ASSUME NEW v \in Seq(R) PROVE CutsLeft(v) \in Nat /\ CutFrom(v, v) /\ (CutsLeft(v) = 0 => v = <<>>)
  <2>1. CutsLeft(v) \in Nat /\ (CutsLeft(v) = 0 => v = <<>>)
    BY DEF CutsLeft
  <2>2. TextOf(v) \in Int
    BY <1>6, TextOfAppend
  <2>3. ASSUME NEW i \in 1..Len(v) PROVE v[i].kept <= v[i].kept
    <3>1. v[i] \in R
      OBVIOUS
    <3>2. v[i].kept \in Int
      BY <1>6, <3>1
    <3>q. QED BY <3>2
  <2>4. Len(v) \in Nat
    OBVIOUS
  <2>q. QED BY <2>1, <2>2, <2>3, <2>4 DEF CutFrom
<1> DEFINE Good(n) == /\ fits[n] \in Seq(R) /\ CutFrom(fits[n], s)
                      /\ Bytes(fits[n]) <= MostBytes \/ CutsLeft(fits[n]) <= top - n
           Bad == {n \in 0..top : ~ Good(n)}
<1>8. Bad = {}
  <2> SUFFICES ASSUME Bad # {} PROVE FALSE
    OBVIOUS
  <2>1. PICK k \in Bad : \A y \in Bad : k <= y
    <3>1. Bad \in SUBSET Nat
      BY <1>2
    <3> HIDE DEF Bad
    <3>q. QED BY <3>1, LeastNumber
  <2>2. Good(0)
    <3>1. CutsLeft(s) <= top - 0
      BY DEF CutsLeft
    <3>q. QED BY <1>5, <1>7, <3>1
  <2>3. k # 0
    BY <2>1, <2>2
  <2>4. k \in 1..top /\ k - 1 \in 0..top /\ ~ (k <= k - 1)
    <3> HIDE DEF top, Good
    <3>q. QED BY <1>2, <2>1, <2>3
  <2>5. Good(k - 1)
    <3> HIDE DEF Good
    <3>q. QED BY <2>1, <2>4
  <2> DEFINE v == fits[k - 1]
  <2>6. v \in Seq(R) /\ CutFrom(v, s) /\ (Bytes(v) <= MostBytes \/ CutsLeft(v) <= top - (k - 1))
    BY <2>5
  <2>7. fits[k] = FitStep(v)
    BY <1>5, <2>4
  <2> HIDE DEF v, top
  <2>8. CASE Bytes(v) <= MostBytes
    <3>1. fits[k] = v
      BY <2>7, <2>8 DEF FitStep
    <3>2. Good(k)
      BY <2>6, <2>8, <3>1
    <3>q. QED BY <2>1, <3>2
  <2>9. CASE ~ (Bytes(v) <= MostBytes) /\ v = <<>>
    <3>1. fits[k] = v
      BY <2>7, <2>9 DEF FitStep
    <3>2. CutsLeft(v) = 0 /\ CutsLeft(v) <= top - k
      <4>1. CutsLeft(v) = 0
        BY <2>9 DEF CutsLeft
      <4>q. QED BY <1>2, <2>4, <4>1
    <3>3. Good(k)
      BY <2>6, <3>1, <3>2
    <3>q. QED BY <2>1, <3>3
  <2>10. CASE ~ (Bytes(v) <= MostBytes) /\ v # <<>>
    <3>1. fits[k] = FitOnce(v)
      BY <2>7, <2>10 DEF FitStep
    <3>2. /\ FitOnce(v) \in Seq(R) /\ CutFrom(FitOnce(v), v)
          /\ Bytes(FitOnce(v)) <= MostBytes \/ CutsLeft(FitOnce(v)) < CutsLeft(v)
      BY <2>6, <2>10, FitOnceCuts
    <3>3. CutFrom(FitOnce(v), s)
      BY <2>6, <3>2, CutFurther
    <3>4. Bytes(FitOnce(v)) <= MostBytes \/ CutsLeft(FitOnce(v)) <= top - k
      <4>1. CutsLeft(FitOnce(v)) \in Nat /\ CutsLeft(v) \in Nat /\ CutsLeft(v) <= top - (k - 1)
        BY <1>7, <2>6, <2>10, <3>2
      <4>q. QED BY <1>2, <2>4, <3>2, <4>1
    <3>5. Good(k)
      BY <3>1, <3>2, <3>3, <3>4
    <3>q. QED BY <2>1, <3>5
  <2>q. QED BY <2>8, <2>9, <2>10
<1>9. Good(top)
  <2>1. top \in 0..top
    BY <1>2
  <2> HIDE DEF Good
  <2>q. QED BY <1>8, <2>1
<1> DEFINE v == fits[top]
<1>10. v \in Seq(R) /\ CutFrom(v, s) /\ (Bytes(v) <= MostBytes \/ CutsLeft(v) <= top - top)
  BY <1>9
<1> HIDE DEF v, top
<1>11. Bytes(v) <= MostBytes
  <2> SUFFICES ASSUME CutsLeft(v) <= 0 PROVE Bytes(v) <= MostBytes
    BY <1>2, <1>10
  <2>1. v = <<>>
    <3>1. CutsLeft(v) \in Nat /\ (CutsLeft(v) = 0 => v = <<>>)
      BY <1>7, <1>10
    <3>q. QED BY <3>1
  <2>2. TextOf(<<>>) = 0
    <3>1. PICK r \in R : TRUE
      OBVIOUS
    <3>q. QED BY <1>6, <1>10, <3>1, TextOfAppend
  <2>3. Bytes(<<>>) = 0
    BY <2>2, RetrievalAssumption DEF Bytes
  <2>4. MostBytes \in Nat
    BY RetrievalAssumption
  <2>q. QED BY <2>1, <2>3, <2>4
<1>q. QED BY <1>1, <1>10, <1>11 DEF v

-------------------------------------------------------------------------------
(* The text budget. *)

ResultsOf(E) == {Result(c, k) : c \in E, k \in Nat}

(* The results that chunks can become may be cut.                           *)
LEMMA ResultsCuttable ==
  ASSUME NEW E
  PROVE  /\ Cuttable(ResultsOf(E))
         /\ \A r \in ResultsOf(E) : r.chunk \in E /\ r.kept \in Nat
         /\ \A c \in E, k \in Nat : Result(c, k) \in ResultsOf(E) /\ Result(c, k).chunk = c /\ Result(c, k).kept = k
<1>1. ASSUME NEW c \in E, NEW k \in Nat
      PROVE  Result(c, k) \in ResultsOf(E) /\ Result(c, k).chunk = c /\ Result(c, k).kept = k
  BY DEF ResultsOf, Result
<1>2. ASSUME NEW r \in ResultsOf(E)
      PROVE  r.chunk \in E /\ r.kept \in Nat /\ r = Result(r.chunk, r.kept)
  <2>1. PICK c \in E, k \in Nat : r = Result(c, k)
    BY DEF ResultsOf
  <2>q. QED BY <1>1, <2>1
<1>3. ASSUME NEW r \in ResultsOf(E), NEW k \in Nat PROVE Result(r.chunk, k) \in ResultsOf(E)
  BY <1>1, <1>2
<1>q. QED BY <1>1, <1>2, <1>3 DEF Cuttable

(* The results so far keep within the text budget.                          *)
InBudget(R) == {v \in Seq(R) : TextOf(v) <= MostText}

\* What the next chunk adds: nothing when the budget is used up, else a result of its own.
Adds(v, c, w) ==
  \/ w = v /\ v # <<>> /\ MostText - TextOf(v) = 0
  \/ \E k \in Nat : k <= c.size /\ w = Append(v, Result(c, k))

(* A result more leaves them within it.                                     *)
LEMMA AddTextStays ==
  ASSUME NEW E, \A c \in E : c.size \in Nat, NEW v \in InBudget(ResultsOf(E)), NEW c \in E
  PROVE  AddText(v, c) \in InBudget(ResultsOf(E)) /\ Adds(v, c, AddText(v, c))
<1> DEFINE R == ResultsOf(E)
           room == MostText - TextOf(v)
           k == Smaller(c.size, room)
<1>1. Cuttable(R) /\ \A x \in E, j \in Nat : Result(x, j) \in R /\ Result(x, j).kept = j
  BY ResultsCuttable
<1>2. \A r \in R : r.kept \in Int
  <2>1. \A r \in R : r.kept \in Nat
    BY <1>1, Zenon DEF Cuttable
  <2>q. QED BY <2>1
<1>3. v \in Seq(R) /\ TextOf(v) <= MostText
  BY DEF InBudget
<1> HIDE DEF R
<1>4. TextOf(v) \in Int
  <2>1. Result(c, 0) \in R
    BY <1>1
  <2>q. QED BY <1>2, <1>3, <2>1, TextOfAppend
<1>5. MostText \in Nat /\ c.size \in Nat
  BY RetrievalAssumption
<1>6. k \in Nat /\ k <= c.size /\ k <= room
  BY <1>3, <1>4, <1>5 DEF Smaller
<1>7. CASE v # <<>> /\ room = 0
  <2>1. AddText(v, c) = v
    BY <1>7 DEF AddText
  <2>q. QED BY <1>7, <2>1 DEF Adds
<1>8. CASE ~ (v # <<>> /\ room = 0)
  <2>1. AddText(v, c) = Append(v, Result(c, k))
    BY <1>8 DEF AddText
  <2> HIDE DEF k
  <2>2. Result(c, k) \in R /\ Result(c, k).kept = k
    BY <1>1, <1>6
  <2>3. Append(v, Result(c, k)) \in Seq(R)
    BY <1>3, <2>2
  <2>4. TextOf(Append(v, Result(c, k))) = TextOf(v) + k
    BY <1>2, <1>3, <2>2, TextOfAppend
  <2>5. TextOf(v) + k <= MostText
    BY <1>4, <1>5, <1>6
  <2>6. Append(v, Result(c, k)) \in InBudget(R)
    BY <2>3, <2>4, <2>5 DEF InBudget
  <2>q. QED BY <1>6, <2>1, <2>6 DEF Adds, R
<1>q. QED BY <1>7, <1>8

AddAll(chosen) == FoldLeft(AddText, <<>>, chosen)

AddSteps(h, chosen, n) ==
  /\ AddAll(chosen) = h[1..n]
  /\ h[1..0] = <<>>
  /\ \A k \in 1..n : h[1..k] = AddText(h[1..(k - 1)], chosen[k])

(* The texts of any chunks are added one by one.                            *)
LEMMA AddTextGoesOn ==
  ASSUME NEW E, \A c \in E : c.size \in Nat, NEW n \in Nat, NEW t, t \in [1..n -> E]
  PROVE  \E h : AddSteps(h, t, n)
<1> DEFINE D == DOMAIN t
           V == InBudget(ResultsOf(E))
           f == [p \in V \X E |-> AddText(p[1], p[2])]
           Loop(h) == [s \in SUBSET D |-> IF s = {} THEN <<>> ELSE LET x == Max(s) IN AddText(h[s \ {x}], t[x])]
           iter[s \in SUBSET D] == IF s = {} THEN <<>> ELSE LET x == Max(s) IN AddText(iter[s \ {x}], t[x])
<1>1. AddAll(t) = iter[D]
  BY DEF AddAll, FoldLeft, MapThenFoldSet
<1>2. D = 1..n
  OBVIOUS
<1>3. f \in [V \X E -> V]
  <2>1. ASSUME NEW p \in V \X E PROVE AddText(p[1], p[2]) \in V
    <3>1. p[1] \in V /\ p[2] \in E
      OBVIOUS
    <3>q. QED BY <3>1, AddTextStays
  <2>q. QED BY <2>1
<1>4. PICK h \in [SUBSET (1..n) -> V] : Accumulates(h, 1..n, f, <<>>, t)
  <2>1. <<>> \in V
    <3>1. <<>> \in Seq(ResultsOf(E))
      OBVIOUS
    <3>2. TextOf(<<>>) = 0
      <4> DEFINE one == {Result(0, 0)}
      <4>1. Result(0, 0) \in one /\ \A r \in one : r.kept \in Int
        BY DEF Result
      <4>2. <<>> \in Seq(one)
        OBVIOUS
      <4> HIDE DEF one
      <4>q. QED BY <4>1, <4>2, TextOfAppend
    <3>3. MostText \in Nat
      BY RetrievalAssumption
    <3>q. QED BY <3>1, <3>2, <3>3 DEF InBudget
  <2> HIDE DEF f, V
  <2>q. QED BY <1>3, <2>1, LoopExists
<1>5. ASSUME NEW u \in SUBSET (1..n)
      PROVE  h[u] = IF u = {} THEN <<>> ELSE AddText(h[u \ {Max(u)}], t[Max(u)])
  <2>1. CASE u = {}
    BY <1>4, <2>1 DEF Accumulates
  <2>2. CASE u # {}
    <3>1. Max(u) \in u
      BY <2>2, GreatestNumber
    <3>2. h[u \ {Max(u)}] \in V /\ t[Max(u)] \in E
      BY <1>4, <3>1
    <3>3. h[u] = f[<<h[u \ {Max(u)}], t[Max(u)]>>]
      BY <1>4, <2>2 DEF Accumulates
    <3> DEFINE a == h[u \ {Max(u)}]
               b == t[Max(u)]
    <3> HIDE DEF a, b
    <3>4. a \in V /\ b \in E /\ h[u] = f[<<a, b>>]
      BY <3>2, <3>3 DEF a, b
    <3> HIDE DEF V
    <3>5. f[<<a, b>>] = AddText(a, b)
      BY <3>4
    <3>q. QED BY <2>2, <3>4, <3>5 DEF a, b
  <2>q. QED BY <2>1, <2>2
<1>6. h = Loop(h)
  <2>1. h = [u \in SUBSET D |-> h[u]]
    BY <1>2
  <2>2. \A u \in SUBSET D : h[u] = IF u = {} THEN <<>> ELSE LET x == Max(u) IN AddText(h[u \ {x}], t[x])
    BY <1>2, <1>5
  <2> HIDE DEF D
  <2>q. QED BY <2>1, <2>2
<1>7. iter = Loop(iter)
  BY <1>6, Zenon
<1> HIDE DEF iter
<1>8. iter[1..0] = <<>>
  <2>1. 1..0 = {}
    OBVIOUS
  <2>2. iter[{}] = <<>>
    BY <1>7
  <2>q. QED BY <2>1, <2>2
<1>9. ASSUME NEW k \in 1..n PROVE iter[1..k] = AddText(iter[1..(k - 1)], t[k])
  <2> DEFINE I == 1..k
  <2> HIDE DEF I
  <2>1. I \in SUBSET D /\ I # {} /\ Max(I) = k /\ I \ {k} = 1..(k - 1)
    BY <1>2, UpTo DEF I
  <2>2. iter[I] = AddText(iter[I \ {Max(I)}], t[Max(I)])
    <3> HIDE DEF D
    <3>q. QED BY <1>7, <2>1
  <2>q. QED BY <2>1, <2>2 DEF I
<1>10. iter[D] = iter[1..n]
  <2> HIDE DEF D
  <2>q. QED BY <1>2
<1>11. AddSteps(iter, t, n)
  BY <1>1, <1>8, <1>9, <1>10 DEF AddSteps
<1>q. QED BY <1>11

\* Results that show a beginning of the chunks, no more than there is of each, within the budget.
Shows(all, E, chosen) ==
  /\ all \in Seq(ResultsOf(E)) /\ Len(all) <= Len(chosen) /\ TextOf(all) <= MostText
  /\ \A i \in 1..Len(all) : all[i].chunk = chosen[i] /\ all[i].kept <= chosen[i].size

(* HiveSearch: the loop over the chosen chunks shows a beginning of them.   *)
LEMMA TextAdded ==
  ASSUME NEW E, \A c \in E : c.size \in Nat, NEW chosen \in Seq(E)
  PROVE  Shows(AddAll(chosen), E, chosen)
<1> DEFINE n == Len(chosen)
           R == ResultsOf(E)
<1>1. n \in Nat /\ chosen \in [1..n -> E]
  OBVIOUS
<1> HIDE DEF n
<1>2. PICK h : AddSteps(h, chosen, n)
  BY <1>1, AddTextGoesOn
<1> DEFINE Good(k) ==
             LET v == h[1..k]
             IN  /\ v \in InBudget(R) /\ Len(v) <= k
                 /\ Len(v) = k \/ (v # <<>> /\ MostText - TextOf(v) = 0)
                 /\ \A i \in 1..Len(v) : v[i].chunk = chosen[i] /\ v[i].kept <= chosen[i].size
           Bad == {k \in 0..n : ~ Good(k)}
<1>3. Good(0)
  <2>1. h[1..0] = <<>>
    BY <1>2 DEF AddSteps
  <2>2. <<>> \in InBudget(R)
    <3>1. <<>> \in Seq(R)
      OBVIOUS
    <3>2. TextOf(<<>>) = 0
      <4> DEFINE one == {Result(0, 0)}
      <4>1. Result(0, 0) \in one /\ \A r \in one : r.kept \in Int
        BY DEF Result
      <4>2. <<>> \in Seq(one)
        OBVIOUS
      <4> HIDE DEF one
      <4>q. QED BY <4>1, <4>2, TextOfAppend
    <3>3. MostText \in Nat
      BY RetrievalAssumption
    <3>q. QED BY <3>1, <3>2, <3>3 DEF InBudget
  <2>q. QED BY <2>1, <2>2
<1>4. Bad = {}
  <2> SUFFICES ASSUME Bad # {} PROVE FALSE
    OBVIOUS
  <2>1. PICK k \in Bad : \A y \in Bad : k <= y
    <3>1. Bad \in SUBSET Nat
      BY <1>1
    <3> HIDE DEF Bad
    <3>q. QED BY <3>1, LeastNumber
  <2>2. k \in 1..n /\ k - 1 \in 0..n /\ ~ (k <= k - 1)
    <3>1. k # 0
      BY <1>3, <2>1
    <3> HIDE DEF Good
    <3>q. QED BY <1>1, <2>1, <3>1
  <2>3. Good(k - 1)
    <3> HIDE DEF Good
    <3>q. QED BY <2>1, <2>2
  <2> DEFINE v == h[1..(k - 1)]
             w == h[1..k]
             c == chosen[k]
  <2>4. v \in InBudget(R) /\ Len(v) <= k - 1
        /\ (Len(v) = k - 1 \/ (v # <<>> /\ MostText - TextOf(v) = 0))
        /\ \A i \in 1..Len(v) : v[i].chunk = chosen[i] /\ v[i].kept <= chosen[i].size
    BY <2>3
  <2>5. w = AddText(v, c) /\ c \in E
    BY <1>1, <1>2, <2>2 DEF AddSteps
  <2> HIDE DEF v
  <2>6. AddText(v, c) \in InBudget(R) /\ Adds(v, c, AddText(v, c))
    BY <2>4, <2>5, AddTextStays
  <2>7. v \in Seq(R) /\ Len(v) \in Nat
    BY <2>4 DEF InBudget
  <2>8. CASE w = v /\ v # <<>> /\ MostText - TextOf(v) = 0
    <3>1. Len(v) <= k
      BY <2>2, <2>4, <2>7
    <3>2. Good(k)
      BY <2>4, <2>8, <3>1
    <3>q. QED BY <2>1, <3>2
  <2>9. CASE ~ (w = v /\ v # <<>> /\ MostText - TextOf(v) = 0)
    <3>1. Len(v) = k - 1
      <4>1. ASSUME v # <<>>, MostText - TextOf(v) = 0 PROVE FALSE
        <5>1. AddText(v, c) = v
          BY <4>1 DEF AddText
        <5>q. QED BY <2>5, <2>9, <4>1, <5>1
      <4>q. QED BY <2>4, <4>1
    <3>2. PICK j \in Nat : j <= c.size /\ w = Append(v, Result(c, j))
      BY <2>5, <2>6, <2>9 DEF Adds
    <3>3. Result(c, j) \in R /\ Result(c, j).chunk = c /\ Result(c, j).kept = j
      BY <2>5, ResultsCuttable
    <3> DEFINE r == Result(c, j)
    <3> HIDE DEF r, R, w
    <3>4. Len(w) = k /\ w[k] = r /\ \A i \in 1..(k - 1) : w[i] = v[i]
      BY <2>2, <2>7, <3>1, <3>2, <3>3 DEF r
    <3>5. ASSUME NEW i \in 1..k PROVE w[i].chunk = chosen[i] /\ w[i].kept <= chosen[i].size
      <4>1. CASE i = k
        BY <3>2, <3>3, <3>4, <4>1 DEF r
      <4>2. CASE i # k
        <5>1. i \in 1..(k - 1)
          BY <2>2, <4>2
        <5>q. QED BY <2>4, <3>1, <3>4, <5>1
      <4>q. QED BY <4>1, <4>2
    <3>6. w \in InBudget(R) /\ Len(w) <= k
      BY <2>2, <2>5, <2>6, <3>4
    <3>7. Good(k)
      BY <3>4, <3>5, <3>6 DEF w
    <3>q. QED BY <2>1, <3>7
  <2>q. QED BY <2>8, <2>9
<1>5. Good(n)
  <2>1. n \in 0..n
    BY <1>1
  <2> HIDE DEF Good
  <2>q. QED BY <1>4, <2>1
<1>6. AddAll(chosen) = h[1..n]
  BY <1>2 DEF AddSteps
<1>q. QED BY <1>5, <1>6 DEF Shows, InBudget, n

-------------------------------------------------------------------------------
(* The query and the ranking. *)

\* What the answer of a query has: of what matches, all or the best up to the limit.
Answers(points, stored, kind, limit) ==
  /\ \A c \in ToSet(points) : c \in ToSet(stored) /\ WithinBoundary(c, kind)
  /\ \A c \in ToSet(stored) : WithinBoundary(c, kind) =>
       \/ c \in ToSet(points)
       \/ Len(points) >= CandidateLimit(limit) /\ \A p \in ToSet(points) : p.score >= c.score

(* queryVariant and enforceSearchBoundary.                                  *)
LEMMA QueryAnswers ==
  ASSUME NEW E, ChunksFit(E), NEW stored, Stocked(stored, E), NEW kind, NEW limit \in Nat
  PROVE  Query(stored, kind, limit) \in Seq(E) /\ Answers(Query(stored, kind, limit), stored, kind, limit)
<1> DEFINE P == {i \in DOMAIN stored : WithinBoundary(stored[i], kind)}
           m == Cardinality(P)
           all == AtPlaces(stored, P)
           top == CandidateLimit(limit)
           n == Smaller(top, Len(all))
           points == Query(stored, kind, limit)
<1>1. stored \in Seq(E) /\ Len(stored) \in Nat /\ DOMAIN stored = 1..Len(stored) /\ P \in SUBSET (1..Len(stored))
  BY DEF Stocked
<1>2. \A i \in P : WithinBoundary(stored[i], kind)
  OBVIOUS
<1>3. \A i \in 1..Len(stored) : WithinBoundary(stored[i], kind) => i \in P
  BY <1>1
<1> HIDE DEF P
<1>4. /\ m \in Nat /\ all \in Seq(E) /\ Len(all) = m
      /\ \A i \in 1..m : Places(P)[i] \in P /\ all[i] = stored[Places(P)[i]]
  BY <1>1, PlacesTaken
<1>5. /\ \A i, j \in 1..m : i < j => Places(P)[i] < Places(P)[j]
      /\ \A x \in P : \E k \in 1..m : Places(P)[k] = x
  BY <1>1, PlacesAscend
<1>6. top \in Nat
  BY RetrievalAssumption DEF CandidateLimit, Smaller
<1>7. points = SubSeq(all, 1, n)
  BY DEF Query, P
<1> HIDE DEF m, all, points, top
<1>8. n \in 0..Len(all) /\ n <= top /\ (n = m \/ n = top)
  BY <1>4, <1>6 DEF Smaller
<1> HIDE DEF n
<1>9. points \in Seq(E) /\ Len(points) = n /\ \A i \in 1..n : points[i] = all[i]
  BY <1>4, <1>7, <1>8, Beginning
<1>10. n \in Nat /\ n <= m /\ \A i \in 1..n : i \in 1..m
  BY <1>4, <1>8
<1>11. ASSUME NEW c \in ToSet(points) PROVE c \in ToSet(stored) /\ WithinBoundary(c, kind)
  <2>1. PICK i \in 1..n : points[i] = c
    BY <1>9, Elements
  <2>2. i \in 1..m /\ c = stored[Places(P)[i]] /\ Places(P)[i] \in P
    BY <1>4, <1>9, <1>10, <2>1
  <2>q. QED BY <1>1, <1>2, <2>2, Elements
<1>12. ASSUME NEW c \in ToSet(stored), WithinBoundary(c, kind)
       PROVE  c \in ToSet(points) \/ (Len(points) >= top /\ \A p \in ToSet(points) : p.score >= c.score)
  <2>1. PICK q \in 1..Len(stored) : stored[q] = c
    BY <1>1, Elements
  <2>2. PICK k \in 1..m : Places(P)[k] = q
    BY <1>3, <1>5, <1>12, <2>1
  <2>3. CASE k <= n
    <3>1. k \in 1..n
      BY <2>3, <1>10
    <3>2. points[k] = c
      BY <1>4, <1>9, <2>1, <2>2, <3>1
    <3>q. QED BY <1>9, <3>1, <3>2, Elements
  <2>4. CASE ~ (k <= n)
    <3>1. n = top /\ n < k
      BY <1>4, <1>8, <1>10, <2>4
    <3>2. ASSUME NEW p \in ToSet(points) PROVE p.score >= c.score
      <4>1. PICK i \in 1..n : points[i] = p
        BY <1>9, Elements
      <4>2. i \in 1..m /\ i < k
        BY <1>10, <3>1
      <4> DEFINE a == Places(P)[i]
      <4>3. a \in P /\ p = stored[a] /\ a < q
        BY <1>4, <1>5, <1>9, <2>2, <4>1, <4>2
      <4> HIDE DEF a
      <4>4. a \in 1..Len(stored)
        BY <1>1, <4>3
      <4>q. QED BY <2>1, <4>3, <4>4 DEF Stocked
    <3>3. Len(points) >= top
      BY <1>6, <1>9, <3>1
    <3>q. QED BY <3>2, <3>3
  <2>q. QED BY <2>3, <2>4
<1>q. QED BY <1>9, <1>11, <1>12 DEF Answers, points, top

\* What a ranking has: all that is current, the better before the worse.
Ranks(ranked, points) ==
  /\ \A i \in 1..Len(ranked) : ranked[i] \in ToSet(points) /\ ranked[i].current
  /\ \A i, j \in 1..Len(ranked) : i < j => Before(ranked[i], ranked[j]) /\ Place(ranked[i]) # Place(ranked[j])
  /\ \A c \in ToSet(points) : c.current => \E k \in 1..Len(ranked) : ranked[k] = c

(* deduplicateSearchPoints and the sort, of points that a store gave.       *)
LEMMA RankedRanks ==
  ASSUME NEW E, ChunksFit(E), NEW points \in Seq(E),
         \A c, e \in ToSet(points) : c.current /\ e.current /\ Place(c) = Place(e) => c = e
  PROVE  Ranked(points) \in Seq(E) /\ Ranks(Ranked(points), points)
<1> DEFINE live == {c \in ToSet(points) : c.current}
           best == BestOfPlace(live)
           order == {p \in best \X best : Before(p[1], p[2])}
           m == Cardinality(best)
           ranked == Ranked(points)
<1>1. ToSet(points) \subseteq E
  BY Elements
<1>2. best = live
  <2>1. \A c, e \in live : Place(e) = Place(c) => e.score <= c.score
    <3> SUFFICES ASSUME NEW c \in live, NEW e \in live, Place(e) = Place(c) PROVE e.score <= c.score
      OBVIOUS
    <3>1. c = e /\ c \in E
      BY <1>1
    <3>q. QED BY <3>1 DEF ChunksFit
  <2> HIDE DEF live
  <2>q. QED BY <2>1 DEF BestOfPlace
<1>3. best \subseteq E /\ best \subseteq ToSet(points) /\ \A c \in best : c.current
  BY <1>1, <1>2
<1>4. \A c \in ToSet(points) : c.current => c \in best
  BY <1>2
<1>5. IsFiniteSet(best)
  <2>1. IsFiniteSet(ToSet(points))
    <3>1. DOMAIN points = 1..Len(points) /\ Len(points) \in Nat
      OBVIOUS
    <3>2. IsFiniteSet(1..Len(points))
      BY <3>1, IntervalIsFinite
    <3> DEFINE I == 1..Len(points)
               J == ToSet(points)
               g == [i \in I |-> points[i]]
    <3>3. g \in [I -> J] /\ \A y \in J : \E i \in I : g[i] = y
      BY <3>1 DEF ToSet
    <3> HIDE DEF g, J
    <3>4. g \in Surjection(I, J)
      BY <3>3 DEF Surjection
    <3>q. QED BY <3>2, <3>4, FS_Surjection DEF J
  <2>q. QED BY <1>3, <2>1, FS_Subset
<1>6. \A a, b \in best : Place(a) = Place(b) => a = b
  BY <1>3
<1>7. \A a, b \in best : <<a, b>> \in order <=> Before(a, b)
  OBVIOUS
<1>8. ranked = InOrder(best, order)
  BY DEF Ranked
<1>9. \A c \in best : c.doc \in Int /\ c.ord \in Int /\ c.score \in Int
  BY <1>3 DEF ChunksFit
<1> HIDE DEF best, order, ranked, live
<1>10. Sorts(order, best)
  <2>1. \A x \in best : <<x, x>> \notin order
    BY <1>7, <1>9 DEF Before
  <2>2. ASSUME NEW x \in best, NEW y \in best, x # y PROVE <<x, y>> \in order \/ <<y, x>> \in order
    <3>1. ~ (x.doc = y.doc /\ x.ord = y.ord)
      BY <1>6, <2>2 DEF Place
    <3>q. QED BY <1>7, <1>9, <3>1 DEF Before
  <2>3. ASSUME NEW x \in best, NEW y \in best, NEW z \in best, <<x, y>> \in order, <<y, z>> \in order
        PROVE  <<x, z>> \in order
    <3>1. Before(x, y) /\ Before(y, z)
      BY <1>7, <2>3
    <3>2. Before(x, z)
      BY <1>9, <3>1 DEF Before
    <3>q. QED BY <1>7, <3>2
  <2>q. QED BY <2>1, <2>2, <2>3 DEF Sorts
<1>11. /\ m \in Nat /\ ranked \in [1..m -> best]
       /\ \A i, j \in 1..m : i < j => <<ranked[i], ranked[j]>> \in order
       /\ \A x \in best : \E k \in 1..m : ranked[k] = x
  BY <1>5, <1>8, <1>10, InOrderLists
<1> HIDE DEF m
<1>12. ranked \in Seq(E) /\ Len(ranked) = m
  BY <1>3, <1>11
<1>13. \A i \in 1..m : ranked[i] \in best
  BY <1>11
<1>14. ASSUME NEW i \in 1..m, NEW j \in 1..m, i < j
       PROVE  Before(ranked[i], ranked[j]) /\ Place(ranked[i]) # Place(ranked[j])
  <2>1. <<ranked[i], ranked[j]>> \in order /\ ranked[i] \in best /\ ranked[j] \in best
    BY <1>11, <1>13, <1>14
  <2>2. ranked[i] # ranked[j]
    BY <1>10, <2>1 DEF Sorts
  <2>q. QED BY <1>6, <1>7, <2>1, <2>2
<1>q. QED BY <1>3, <1>4, <1>11, <1>12, <1>13, <1>14 DEF Ranks, ranked

-------------------------------------------------------------------------------
(* HiveSearch. *)

\* What the answer of a search is.
Sound(told, stored, kind, limit, E) ==
  /\ told.results \in Seq(ResultsOf(E)) /\ Len(told.results) <= limit
  /\ Bytes(told.results) <= MostBytes /\ TextOf(told.results) <= MostText
  /\ \A i, j \in 1..Len(told.results) : i < j => Before(told.results[i].chunk, told.results[j].chunk)
  /\ Proper(stored, {kind}, told.results)
  /\ NoneBetter(stored, kind, told.results)
  /\ ~told.truncated => /\ Complete(stored, {kind}, told.results)
                        /\ \A i \in 1..Len(told.results) : told.results[i].kept = told.results[i].chunk.size

(* HiveSearch: its answer fits, is in order, proper, shows nothing worse    *)
(* than it leaves out, and unless it says it was cut, it is complete.       *)
LEMMA SearchIsSound ==
  ASSUME NEW E, E # {}, ChunksFit(E), NEW stored, Stocked(stored, E), NEW kind, NEW limit \in Nat
  PROVE  Sound(Search(stored, kind, limit), stored, kind, limit, E)
<1> DEFINE R == ResultsOf(E)
           points == Query(stored, kind, limit)
           unique == Ranked(points)
           n == Smaller(limit, Len(unique))
           chosen == SubSeq(unique, 1, n)
           added == AddAll(chosen)
           results == Fit(added)
           m == Len(results)
           truncated == MoreExist(points, unique, limit) \/ CutShort(chosen, results)
<1>1. Search(stored, kind, limit) = [results |-> results, truncated |-> truncated]
  BY DEF Search, AddAll
<1>2. stored \in Seq(E) /\ \A c, e \in ToSet(stored) : c.current /\ e.current /\ Place(c) = Place(e) => c = e
  BY DEF Stocked
<1> HIDE DEF points
<1>3. points \in Seq(E) /\ Answers(points, stored, kind, limit)
  BY QueryAnswers DEF points
<1>4. \A c \in ToSet(points) : c \in ToSet(stored) /\ WithinBoundary(c, kind)
  BY <1>3 DEF Answers
<1> HIDE DEF unique
<1>5. unique \in Seq(E) /\ Ranks(unique, points)
  <2>1. \A c, e \in ToSet(points) : c.current /\ e.current /\ Place(c) = Place(e) => c = e
    BY <1>2, <1>4
  <2>q. QED BY <1>3, <2>1, RankedRanks DEF unique
<1>6. n \in 0..Len(unique) /\ n <= limit /\ (n = limit \/ n = Len(unique))
  BY <1>5 DEF Smaller
<1> HIDE DEF n, chosen
<1>7. chosen \in Seq(E) /\ Len(chosen) = n /\ \A i \in 1..n : chosen[i] = unique[i]
  BY <1>5, <1>6, Beginning DEF chosen
<1>8. \A c \in E : c.size \in Nat /\ c.score \in Int
  BY DEF ChunksFit
<1> HIDE DEF added, results
<1>9. Shows(added, E, chosen)
  BY <1>7, <1>8, TextAdded DEF added
<1>10. Cuttable(R) /\ R # {} /\ \A r \in R : r.chunk \in E /\ r.kept \in Nat
  <2>1. PICK c \in E : TRUE
    OBVIOUS
  <2>2. Result(c, 0) \in R
    BY ResultsCuttable
  <2>q. QED BY <2>2, ResultsCuttable
<1> HIDE DEF R
<1>11. results \in Seq(R) /\ CutFrom(results, added) /\ Bytes(results) <= MostBytes /\ added \in Seq(R)
  <2>1. added \in Seq(R)
    BY <1>9 DEF Shows, R
  <2>q. QED BY <1>10, <2>1, FitFits DEF results
<1>12. m \in Nat /\ m <= n /\ n \in Nat /\ Len(added) \in Nat /\ m <= Len(added) /\ Len(added) <= n
  BY <1>6, <1>7, <1>9, <1>11 DEF CutFrom, Shows
<1> HIDE DEF m
<1>13. ASSUME NEW i \in 1..m
       PROVE  /\ i \in 1..n /\ i \in 1..Len(unique) /\ results[i] \in R
              /\ results[i].chunk = unique[i] /\ results[i].kept <= unique[i].size
  <2>1. i \in 1..n /\ i \in 1..Len(unique) /\ i \in 1..Len(added) /\ i \in 1..Len(results)
    BY <1>6, <1>12 DEF m
  <2>2. results[i].chunk = added[i].chunk /\ results[i].kept <= added[i].kept
    BY <1>11, <2>1 DEF CutFrom
  <2>3. added[i].chunk = chosen[i] /\ added[i].kept <= chosen[i].size
    BY <1>9, <2>1 DEF Shows
  <2>4. chosen[i] = unique[i] /\ unique[i] \in E
    BY <1>5, <1>7, <2>1
  <2>5. results[i] \in R /\ added[i] \in R
    BY <1>11, <2>1
  <2>6. results[i].kept \in Int /\ added[i].kept \in Int /\ unique[i].size \in Int
    BY <1>8, <1>10, <2>4, <2>5
  <2>q. QED BY <2>1, <2>2, <2>3, <2>4, <2>5, <2>6
<1>14. TextOf(results) <= MostText
  <2>1. TextOf(results) <= TextOf(added) /\ TextOf(added) <= MostText
    BY <1>9, <1>11 DEF CutFrom, Shows
  <2>2. TextOf(results) \in Int /\ TextOf(added) \in Int
    <3>1. PICK r \in R : TRUE
      BY <1>10
    <3>2. \A x \in R : x.kept \in Int
      BY <1>10
    <3>q. QED BY <1>11, <3>1, <3>2, TextOfAppend
  <2>3. MostText \in Int
    BY RetrievalAssumption
  <2>q. QED BY <2>1, <2>2, <2>3
<1>15. /\ \A i \in 1..Len(unique) : unique[i] \in ToSet(points) /\ unique[i].current /\ unique[i] \in E
       /\ \A i, j \in 1..Len(unique) : i < j => Before(unique[i], unique[j]) /\ Place(unique[i]) # Place(unique[j])
       /\ \A c \in ToSet(points) : c.current => \E k \in 1..Len(unique) : unique[k] = c
  BY <1>5 DEF Ranks
<1>16. \A i, j \in 1..m : i < j => Before(results[i].chunk, results[j].chunk)
  BY <1>13, <1>15
<1>17. DOMAIN results = 1..m
  BY <1>11 DEF m
<1>18. Proper(stored, {kind}, results)
  <2>1. ASSUME NEW i \in 1..m
        PROVE  /\ results[i].chunk \in ToSet(stored) /\ results[i].chunk.mine /\ results[i].chunk.current
               /\ Asked(results[i].chunk, kind)
    <3>1. results[i].chunk \in ToSet(points) /\ results[i].chunk.current
      BY <1>13, <1>15
    <3>q. QED BY <1>4, <3>1 DEF WithinBoundary
  <2>2. ASSUME NEW i \in 1..m, NEW j \in 1..m, j # i PROVE Place(results[j].chunk) # Place(results[i].chunk)
    <3>1. i < j \/ j < i
      BY <2>2
    <3>2. /\ i \in 1..Len(unique) /\ j \in 1..Len(unique)
          /\ results[i].chunk = unique[i] /\ results[j].chunk = unique[j]
      BY <1>13
    <3>q. QED BY <1>15, <3>1, <3>2
  <2> HIDE DEF results
  <2>q. QED BY <1>17, <2>1, <2>2 DEF Proper
<1>19. ASSUME NEW c \in ToSet(stored), c.mine, c.current, Asked(c, kind)
       PROVE  /\ \/ \E k \in 1..Len(unique) : unique[k] = c
                 \/ Len(points) >= CandidateLimit(limit) /\ \A p \in ToSet(points) : p.score >= c.score
              /\ c \in E
  <2>1. c \in E
    BY <1>2, Elements
  <2>2. c \in ToSet(points) \/ (Len(points) >= CandidateLimit(limit) /\ \A p \in ToSet(points) : p.score >= c.score)
    BY <1>3, <1>19 DEF Answers, WithinBoundary
  <2>q. QED BY <1>15, <1>19, <2>1, <2>2
<1>20. NoneBetter(stored, kind, results)
  <2>1. ASSUME NEW c \in ToSet(stored), c.mine, c.current, Asked(c, kind)
        PROVE  (\E i \in 1..m : results[i].chunk = c) \/ \A i \in 1..m : results[i].chunk.score >= c.score
    <3>1. CASE \E k \in 1..Len(unique) : unique[k] = c
      <4>1. PICK k \in 1..Len(unique) : unique[k] = c
        BY <3>1
      <4>2. CASE k <= m
        <5>1. k \in 1..m
          BY <1>12, <4>2
        <5>q. QED BY <1>13, <4>1, <5>1
      <4>3. CASE ~ (k <= m)
        <5>1. ASSUME NEW i \in 1..m PROVE results[i].chunk.score >= c.score
          <6>1. i < k /\ i \in 1..Len(unique) /\ results[i].chunk = unique[i]
            BY <1>12, <1>13, <4>3
          <6>2. Before(unique[i], c)
            BY <1>15, <4>1, <6>1
          <6>3. unique[i].score \in Int /\ c.score \in Int
            BY <1>8, <1>15, <4>1, <6>1
          <6>q. QED BY <6>1, <6>2, <6>3 DEF Before
        <5>q. QED BY <5>1
      <4>q. QED BY <4>2, <4>3
    <3>2. CASE \A p \in ToSet(points) : p.score >= c.score
      <4>1. ASSUME NEW i \in 1..m PROVE results[i].chunk.score >= c.score
        BY <1>13, <1>15, <3>2
      <4>q. QED BY <4>1
    <3>q. QED BY <1>19, <2>1, <3>1, <3>2
  <2>q. QED BY <1>17, <2>1 DEF NoneBetter
<1>21. ASSUME ~ truncated
       PROVE  Complete(stored, {kind}, results) /\ \A i \in 1..m : results[i].kept = results[i].chunk.size
  <2>1. ~ (Len(unique) > limit) /\ ~ (Len(points) >= CandidateLimit(limit))
        /\ ~ (m < n) /\ ~ (\E i \in 1..m : results[i].kept < results[i].chunk.size)
    BY <1>7, <1>17, <1>21 DEF MoreExist, CutShort, m
  <2>2. m = n /\ n = Len(unique)
    BY <1>5, <1>6, <1>12, <2>1
  <2>3. ASSUME NEW i \in 1..m PROVE results[i].kept = results[i].chunk.size
    <3>1. results[i].kept <= results[i].chunk.size /\ ~ (results[i].kept < results[i].chunk.size)
      BY <1>13, <2>1
    <3>2. results[i].kept \in Int /\ results[i].chunk.size \in Int
      BY <1>8, <1>10, <1>13
    <3>q. QED BY <3>1, <3>2
  <2>4. ASSUME NEW c \in ToSet(stored), c.mine, c.current, \E k \in {kind} : Asked(c, k)
        PROVE  \E i \in 1..m : results[i].chunk = c /\ results[i].kept = c.size
    <3>1. Asked(c, kind)
      BY <2>4
    <3>2. PICK k \in 1..Len(unique) : unique[k] = c
      BY <1>19, <2>1, <2>4, <3>1
    <3>3. k \in 1..m /\ results[k].chunk = c
      BY <1>13, <2>2, <3>2
    <3>q. QED BY <2>3, <3>3
  <2>q. QED BY <1>17, <2>3, <2>4 DEF Complete
<1> HIDE DEF truncated
<1> DEFINE said == Search(stored, kind, limit)
<1>22. said.results = results /\ said.truncated = truncated
  BY <1>1
<1> HIDE DEF said
<1>23. Len(results) <= limit
  BY <1>6, <1>12 DEF m
<1>24. Sound(said, stored, kind, limit, E)
  BY <1>11, <1>14, <1>16, <1>18, <1>20, <1>21, <1>22, <1>23 DEF Sound, m, R
<1>q. QED BY <1>24 DEF said

-------------------------------------------------------------------------------
(* HiveGetContext. *)

\* No two items are of the same place.
EachOnce(items) ==
  \A i, j \in 1..Len(items) : i # j => Place(items[i].chunk) # Place(items[j].chunk)

Gathered(R) == {v \in Seq(R) : EachOnce(v)}

\* What adding results to items does.
Extends(more, items, results) ==
  /\ \A x \in ToSet(more) : x \in ToSet(items) \/ x \in ToSet(results)
  /\ ToSet(items) \subseteq ToSet(more)
  /\ \A r \in ToSet(results) : \E x \in ToSet(more) : Place(x.chunk) = Place(r.chunk)
  /\ items = <<>> => ToSet(results) \subseteq ToSet(more)

(* appendUniqueContextItems.                                                *)
LEMMA AddUniqueExtends ==
  ASSUME NEW R, NEW items \in Gathered(R), NEW results \in Gathered(R)
  PROVE  AddUnique(items, results) \in Gathered(R) /\ Extends(AddUnique(items, results), items, results)
<1> DEFINE known(r) == \E i \in DOMAIN items : Place(items[i].chunk) = Place(r.chunk)
           P == {i \in DOMAIN results : ~ known(results[i])}
           m == Cardinality(P)
           new == AtPlaces(results, P)
           L == Len(items)
           more == AddUnique(items, results)
<1>1. items \in Seq(R) /\ results \in Seq(R) /\ EachOnce(items) /\ EachOnce(results)
  BY DEF Gathered
<1>2. L \in Nat /\ DOMAIN items = 1..L /\ DOMAIN results = 1..Len(results) /\ Len(results) \in Nat
  BY <1>1
<1>3. P \in SUBSET (1..Len(results)) /\ \A i \in 1..Len(results) : i \in P <=> ~ known(results[i])
  BY <1>2
<1>4. more = items \o new
  BY DEF AddUnique
<1> HIDE DEF P
<1>5. /\ m \in Nat /\ new \in Seq(R) /\ Len(new) = m
      /\ \A k \in 1..m : Places(P)[k] \in P /\ new[k] = results[Places(P)[k]]
  BY <1>1, <1>3, PlacesTaken
<1>6. /\ \A i, j \in 1..m : i < j => Places(P)[i] < Places(P)[j]
      /\ \A x \in P : \E k \in 1..m : Places(P)[k] = x
  BY <1>2, <1>3, PlacesAscend
<1> HIDE DEF new, m, more, known
<1>7. more \in Seq(R) /\ Len(more) = L + m /\ \A i \in 1..(L + m) : more[i] = IF i <= L THEN items[i] ELSE new[i - L]
  <2>1. more \in Seq(R) /\ Len(more) = L + m
    BY <1>1, <1>4, <1>5, OneAfterAnother
  <2>2. ASSUME NEW i \in 1..(L + m) PROVE more[i] = IF i <= L THEN items[i] ELSE new[i - L]
    BY <1>1, <1>4, <1>5, OneAfterAnother
  <2>q. QED BY <2>1, <2>2
<1> HIDE DEF L
<1>8. \A i \in 1..L : i \in 1..(L + m) /\ more[i] = items[i]
  BY <1>2, <1>5, <1>7
<1>9. ASSUME NEW k \in 1..m PROVE L + k \in 1..(L + m) /\ more[L + k] = new[k]
  <2> DEFINE i == L + k
  <2>1. i \in 1..(L + m) /\ ~ (i <= L) /\ i - L = k
    BY <1>2, <1>5
  <2> HIDE DEF i
  <2>2. more[i] = new[k]
    BY <1>7, <2>1
  <2>q. QED BY <2>1, <2>2 DEF i
<1>10. ASSUME NEW i \in 1..(L + m), ~ (i \in 1..L) PROVE i - L \in 1..m /\ more[i] = new[i - L]
  <2>1. ~ (i <= L) /\ i - L \in 1..m
    BY <1>2, <1>5, <1>10
  <2>q. QED BY <1>7, <2>1
<1>11. ASSUME NEW k \in 1..m
       PROVE  /\ Places(P)[k] \in 1..Len(results) /\ new[k] = results[Places(P)[k]]
              /\ \A i \in 1..L : Place(items[i].chunk) # Place(new[k].chunk)
  <2>1. Places(P)[k] \in P /\ Places(P)[k] \in 1..Len(results) /\ new[k] = results[Places(P)[k]]
    BY <1>3, <1>5
  <2>2. ~ known(new[k])
    BY <1>3, <2>1
  <2>q. QED BY <1>2, <2>1, <2>2 DEF known
<1>12. EachOnce(more)
  <2> SUFFICES ASSUME NEW i \in 1..(L + m), NEW j \in 1..(L + m), i # j
               PROVE  Place(more[i].chunk) # Place(more[j].chunk)
    BY <1>7 DEF EachOnce
  <2>1. CASE i \in 1..L /\ j \in 1..L
    BY <1>1, <1>8, <2>1 DEF EachOnce, L
  <2>2. CASE i \in 1..L /\ ~ (j \in 1..L)
    BY <1>8, <1>10, <1>11, <2>2
  <2>3. CASE ~ (i \in 1..L) /\ j \in 1..L
    BY <1>8, <1>10, <1>11, <2>3
  <2>4. CASE ~ (i \in 1..L) /\ ~ (j \in 1..L)
    <3> DEFINE a == i - L
               b == j - L
    <3>1. a \in 1..m /\ b \in 1..m /\ more[i] = new[a] /\ more[j] = new[b]
      BY <1>10, <2>4
    <3>2. a # b /\ (a < b \/ b < a)
      BY <1>2, <1>5
    <3> HIDE DEF a, b
    <3>3. Places(P)[a] # Places(P)[b]
      <4>1. Places(P)[a] \in Nat /\ Places(P)[b] \in Nat
        BY <1>2, <1>11, <3>1
      <4>q. QED BY <1>6, <3>1, <3>2, <4>1
    <3>q. QED BY <1>1, <1>11, <3>1, <3>3 DEF EachOnce
  <2>q. QED BY <2>1, <2>2, <2>3, <2>4
<1>13. ASSUME NEW x \in ToSet(more) PROVE x \in ToSet(items) \/ x \in ToSet(results)
  <2>1. PICK i \in 1..(L + m) : more[i] = x
    BY <1>7, Elements
  <2>2. CASE i \in 1..L
    <3>1. items[i] = x
      BY <1>8, <2>1, <2>2
    <3>q. QED BY <1>1, <2>2, <3>1, Elements DEF L
  <2>3. CASE ~ (i \in 1..L)
    <3>1. \E k \in 1..Len(results) : results[k] = x
      BY <1>10, <1>11, <2>1, <2>3
    <3>q. QED BY <1>1, <3>1, Elements
  <2>q. QED BY <2>2, <2>3
<1>14. ASSUME NEW x \in ToSet(items) PROVE x \in ToSet(more)
  <2>1. PICK i \in 1..L : items[i] = x
    BY <1>1, Elements DEF L
  <2>2. i \in 1..Len(more) /\ more[i] = x
    BY <1>7, <1>8, <2>1
  <2>q. QED BY <1>7, <2>2, Elements
<1>15. ASSUME NEW r \in ToSet(results), ~ known(r) PROVE r \in ToSet(more)
  <2>1. PICK q \in 1..Len(results) : results[q] = r
    BY <1>1, Elements
  <2>2. PICK k \in 1..m : Places(P)[k] = q
    BY <1>3, <1>6, <1>15, <2>1
  <2>3. L + k \in 1..Len(more) /\ more[L + k] = r
    BY <1>7, <1>9, <1>11, <2>1, <2>2
  <2>q. QED BY <1>7, <2>3, Elements
<1>16. ASSUME NEW r \in ToSet(results) PROVE \E x \in ToSet(more) : Place(x.chunk) = Place(r.chunk)
  <2>1. CASE known(r)
    <3>1. PICK i \in 1..L : Place(items[i].chunk) = Place(r.chunk)
      BY <1>2, <2>1 DEF known
    <3>2. items[i] \in ToSet(more)
      <4>1. items[i] \in ToSet(items)
        BY <1>1, Elements DEF L
      <4>q. QED BY <1>14, <4>1
    <3>q. QED BY <3>1, <3>2
  <2>2. CASE ~ known(r)
    BY <1>15, <2>2
  <2>q. QED BY <2>1, <2>2
<1>17. ASSUME items = <<>> PROVE ToSet(results) \subseteq ToSet(more)
  <2>1. \A r : ~ known(r)
    <3>1. DOMAIN items = {}
      BY <1>17
    <3>q. QED BY <3>1 DEF known
  <2>q. QED BY <1>15, <2>1
<1>18. more \in Gathered(R)
  BY <1>7, <1>12 DEF Gathered
<1>19. Extends(more, items, results)
  BY <1>13, <1>14, <1>16, <1>17 DEF Extends
<1>q. QED BY <1>18, <1>19 DEF more

AllItems(searches) == FoldLeft(LAMBDA items, s : AddUnique(items, s.results), <<>>, searches)

ItemSteps(h, searches, n) ==
  /\ AllItems(searches) = h[1..n]
  /\ h[1..0] = <<>>
  /\ \A k \in 1..n : h[1..k] = AddUnique(h[1..(k - 1)], searches[k].results)

(* The groups of an answer are added one by one.                            *)
LEMMA ItemsGoOn ==
  ASSUME NEW R, NEW A, \A a \in A : a.results \in Gathered(R), NEW n \in Nat, NEW t, t \in [1..n -> A]
  PROVE  \E h : ItemSteps(h, t, n)
<1> DEFINE D == DOMAIN t
           V == Gathered(R)
           f == [p \in V \X A |-> AddUnique(p[1], p[2].results)]
           Loop(h) == [s \in SUBSET D |-> IF s = {} THEN <<>> ELSE LET x == Max(s) IN AddUnique(h[s \ {x}], t[x].results)]
           iter[s \in SUBSET D] == IF s = {} THEN <<>> ELSE LET x == Max(s) IN AddUnique(iter[s \ {x}], t[x].results)
<1>1. AllItems(t) = iter[D]
  BY DEF AllItems, FoldLeft, MapThenFoldSet
<1>2. D = 1..n
  OBVIOUS
<1>3. f \in [V \X A -> V]
  <2>1. ASSUME NEW p \in V \X A PROVE AddUnique(p[1], p[2].results) \in V
    <3>1. p[1] \in V /\ p[2].results \in V
      OBVIOUS
    <3>q. QED BY <3>1, AddUniqueExtends
  <2>q. QED BY <2>1
<1>4. PICK h \in [SUBSET (1..n) -> V] : Accumulates(h, 1..n, f, <<>>, t)
  <2>1. <<>> \in V
    BY DEF Gathered, EachOnce
  <2> HIDE DEF f, V
  <2>q. QED BY <1>3, <2>1, LoopExists
<1>5. ASSUME NEW u \in SUBSET (1..n)
      PROVE  h[u] = IF u = {} THEN <<>> ELSE AddUnique(h[u \ {Max(u)}], t[Max(u)].results)
  <2>1. CASE u = {}
    BY <1>4, <2>1 DEF Accumulates
  <2>2. CASE u # {}
    <3>1. Max(u) \in u
      BY <2>2, GreatestNumber
    <3>2. h[u \ {Max(u)}] \in V /\ t[Max(u)] \in A
      BY <1>4, <3>1
    <3>3. h[u] = f[<<h[u \ {Max(u)}], t[Max(u)]>>]
      BY <1>4, <2>2 DEF Accumulates
    <3> DEFINE a == h[u \ {Max(u)}]
               b == t[Max(u)]
    <3> HIDE DEF a, b
    <3>4. a \in V /\ b \in A /\ h[u] = f[<<a, b>>]
      BY <3>2, <3>3 DEF a, b
    <3> HIDE DEF V
    <3>5. f[<<a, b>>] = AddUnique(a, b.results)
      BY <3>4
    <3>q. QED BY <2>2, <3>4, <3>5 DEF a, b
  <2>q. QED BY <2>1, <2>2
<1>6. h = Loop(h)
  <2>1. h = [u \in SUBSET D |-> h[u]]
    BY <1>2
  <2>2. \A u \in SUBSET D : h[u] = IF u = {} THEN <<>> ELSE LET x == Max(u) IN AddUnique(h[u \ {x}], t[x].results)
    BY <1>2, <1>5
  <2> HIDE DEF D
  <2>q. QED BY <2>1, <2>2
<1>7. iter = Loop(iter)
  BY <1>6, Zenon
<1> HIDE DEF iter
<1>8. iter[1..0] = <<>>
  <2>1. 1..0 = {}
    OBVIOUS
  <2>2. iter[{}] = <<>>
    BY <1>7
  <2>q. QED BY <2>1, <2>2
<1>9. ASSUME NEW k \in 1..n PROVE iter[1..k] = AddUnique(iter[1..(k - 1)], t[k].results)
  <2> DEFINE I == 1..k
  <2> HIDE DEF I
  <2>1. I \in SUBSET D /\ I # {} /\ Max(I) = k /\ I \ {k} = 1..(k - 1)
    BY <1>2, UpTo DEF I
  <2>2. iter[I] = AddUnique(iter[I \ {Max(I)}], t[Max(I)].results)
    <3> HIDE DEF D
    <3>q. QED BY <1>7, <2>1
  <2>q. QED BY <2>1, <2>2 DEF I
<1>10. iter[D] = iter[1..n]
  <2> HIDE DEF D
  <2>q. QED BY <1>2
<1>11. ItemSteps(iter, t, n)
  BY <1>1, <1>8, <1>9, <1>10 DEF ItemSteps
<1>q. QED BY <1>11

\* What the items of all groups are.
Collects(items, searches, n) ==
  /\ \A x \in ToSet(items) : \E k \in 1..n : x \in ToSet(searches[k].results)
  /\ \A k \in 1..n : \A r \in ToSet(searches[k].results) : \E x \in ToSet(items) : Place(x.chunk) = Place(r.chunk)
  /\ n # 0 => ToSet(searches[1].results) \subseteq ToSet(items)

(* HiveGetContext: every place that a group found is among the items, once, *)
(* and all that the first group found.                                      *)
LEMMA ItemsCollect ==
  ASSUME NEW R, NEW A, \A a \in A : a.results \in Gathered(R), NEW n \in Nat, NEW t, t \in [1..n -> A]
  PROVE  AllItems(t) \in Gathered(R) /\ Collects(AllItems(t), t, n)
<1>1. PICK h : ItemSteps(h, t, n)
  BY ItemsGoOn
<1> DEFINE Good(k) == h[1..k] \in Gathered(R) /\ Collects(h[1..k], t, k)
           Bad == {k \in 0..n : ~ Good(k)}
<1>2. h[1..0] = <<>> /\ <<>> \in Gathered(R)
  BY <1>1 DEF ItemSteps, Gathered, EachOnce
<1>3. Good(0)
  <2>1. ToSet(<<>>) = {}
    BY DEF ToSet
  <2>2. Collects(<<>>, t, 0)
    BY <2>1 DEF Collects
  <2>q. QED BY <1>2, <2>2
<1>4. Bad = {}
  <2> SUFFICES ASSUME Bad # {} PROVE FALSE
    OBVIOUS
  <2>1. PICK k \in Bad : \A y \in Bad : k <= y
    <3>1. Bad \in SUBSET Nat
      OBVIOUS
    <3> HIDE DEF Bad
    <3>q. QED BY <3>1, LeastNumber
  <2>2. k \in 1..n /\ k - 1 \in 0..n /\ ~ (k <= k - 1)
    <3>1. k # 0
      BY <1>3, <2>1
    <3> HIDE DEF Good
    <3>q. QED BY <2>1, <3>1
  <2>3. Good(k - 1)
    <3> HIDE DEF Good
    <3>q. QED BY <2>1, <2>2
  <2> DEFINE v == h[1..(k - 1)]
             w == h[1..k]
             new == t[k].results
  <2>4. v \in Gathered(R) /\ Collects(v, t, k - 1)
    BY <2>3
  <2>5. w = AddUnique(v, new) /\ new \in Gathered(R)
    BY <1>1, <2>2 DEF ItemSteps
  <2> HIDE DEF v
  <2>6. w \in Gathered(R) /\ Extends(w, v, new)
    BY <2>4, <2>5, AddUniqueExtends
  <2> HIDE DEF w, new
  <2>7. ASSUME NEW x \in ToSet(w) PROVE \E j \in 1..k : x \in ToSet(t[j].results)
    <3>1. CASE x \in ToSet(v)
      <4>1. PICK j \in 1..(k - 1) : x \in ToSet(t[j].results)
        BY <2>4, <3>1 DEF Collects
      <4>2. j \in 1..k
        BY <2>2
      <4>q. QED BY <4>1, <4>2
    <3>2. CASE x \in ToSet(new)
      <4>1. k \in 1..k
        BY <2>2
      <4>q. QED BY <3>2, <4>1 DEF new
    <3>q. QED BY <2>6, <2>7, <3>1, <3>2 DEF Extends
  <2>8. ASSUME NEW j \in 1..k, NEW r \in ToSet(t[j].results) PROVE \E x \in ToSet(w) : Place(x.chunk) = Place(r.chunk)
    <3>1. CASE j = k
      <4>1. r \in ToSet(new)
        BY <2>8, <3>1 DEF new
      <4>q. QED BY <2>6, <4>1 DEF Extends
    <3>2. CASE j # k
      <4>1. j \in 1..(k - 1)
        BY <2>2, <3>2
      <4>2. PICK x \in ToSet(v) : Place(x.chunk) = Place(r.chunk)
        BY <2>4, <2>8, <4>1 DEF Collects
      <4>q. QED BY <2>6, <4>2 DEF Extends
    <3>q. QED BY <3>1, <3>2
  <2>9. ToSet(t[1].results) \subseteq ToSet(w)
    <3>1. CASE k = 1
      <4>1. v = <<>> /\ ToSet(new) = ToSet(t[1].results)
        <5>1. k - 1 = 0
          BY <3>1
        <5>q. QED BY <1>2, <3>1, <5>1 DEF v, new
      <4>q. QED BY <2>6, <4>1 DEF Extends
    <3>2. CASE k # 1
      <4>1. k - 1 # 0
        BY <2>2, <3>2
      <4>2. ToSet(t[1].results) \subseteq ToSet(v)
        BY <2>4, <4>1 DEF Collects
      <4>q. QED BY <2>6, <4>2 DEF Extends
    <3>q. QED BY <3>1, <3>2
  <2>10. Collects(w, t, k)
    BY <2>7, <2>8, <2>9 DEF Collects
  <2>11. Good(k)
    BY <2>6, <2>10 DEF w
  <2>q. QED BY <2>1, <2>11
<1>5. Good(n)
  <2>1. n \in 0..n
    OBVIOUS
  <2> HIDE DEF Good
  <2>q. QED BY <1>4, <2>1
<1>6. AllItems(t) = h[1..n]
  BY <1>1 DEF ItemSteps
<1>q. QED BY <1>5, <1>6

Kinds == {"rules", "asset", "note"}

\* The groups of an answer: rules first, and rules only about what is out of scope.
GroupsOf(groups, status) ==
  /\ groups \in Seq(Kinds) /\ Len(groups) \in Nat /\ 1 \in 1..Len(groups) /\ groups[1] = "rules"
  /\ status = "out_of_scope" => \A i \in 1..Len(groups) : groups[i] = "rules"

(* HiveGetContext: an answer always has the rules.                          *)
LEMMA RulesAreAsked ==
  ASSUME NEW status, NEW requested
  PROVE  GroupsOf(Groups(status, requested), status)
<1> DEFINE kinds == IF status = "out_of_scope" THEN <<"rules">> ELSE <<"rules", "asset", "note">>
           P == {g \in DOMAIN kinds : kinds[g] = "rules" \/ requested = {} \/ kinds[g] \in requested}
           groups == Groups(status, requested)
           m == Cardinality(P)
<1>1. kinds \in Seq(Kinds) /\ kinds[1] = "rules" /\ 1 \in 1..Len(kinds) /\ DOMAIN kinds = 1..Len(kinds) /\ Len(kinds) \in Nat
  <2>1. CASE status = "out_of_scope"
    BY <2>1 DEF Kinds
  <2>2. CASE status # "out_of_scope"
    BY <2>2 DEF Kinds
  <2>q. QED BY <2>1, <2>2
<1>2. status = "out_of_scope" => \A i \in 1..Len(kinds) : kinds[i] = "rules"
  OBVIOUS
<1>3. groups = AtPlaces(kinds, P)
  BY DEF Groups
<1> HIDE DEF kinds
<1>4. P \in SUBSET (1..Len(kinds)) /\ 1 \in P
  BY <1>1
<1> HIDE DEF P, groups
<1>5. /\ m \in Nat /\ groups \in Seq(Kinds) /\ Len(groups) = m
      /\ \A i \in 1..m : Places(P)[i] \in P /\ groups[i] = kinds[Places(P)[i]]
  BY <1>1, <1>3, <1>4, PlacesTaken
<1>6. /\ \A i, j \in 1..m : i < j => Places(P)[i] < Places(P)[j]
      /\ \A x \in P : \E k \in 1..m : Places(P)[k] = x
  BY <1>1, <1>4, PlacesAscend
<1> HIDE DEF m
<1>7. PICK k \in 1..m : Places(P)[k] = 1
  BY <1>4, <1>6
<1>8. 1 \in 1..m
  BY <1>5, <1>7
<1>9. k = 1
  <2> SUFFICES ASSUME k # 1 PROVE FALSE
    OBVIOUS
  <2>1. 1 < k
    BY <1>5
  <2>2. Places(P)[1] < 1
    BY <1>6, <1>7, <1>8, <2>1
  <2>3. Places(P)[1] \in 1..Len(kinds)
    BY <1>4, <1>5, <1>8
  <2>q. QED BY <1>1, <2>2, <2>3
<1>10. groups[1] = "rules"
  BY <1>1, <1>5, <1>7, <1>8, <1>9
<1>11. status = "out_of_scope" => \A i \in 1..m : groups[i] = "rules"
  BY <1>2, <1>4, <1>5
<1>q. QED BY <1>5, <1>8, <1>10, <1>11 DEF GroupsOf, groups

(* fitHiveContext keeps a beginning.                                        *)
LEMMA FitContextBegins ==
  ASSUME NEW R, NEW items \in Seq(R), NEW header, NEW budget
  PROVE  \E m \in 0..Len(items) : FitContext(items, header, budget) = SubSeq(items, 1, m)
<1> DEFINE L == Len(items)
           fitting == {n \in 0..L : header + Bytes(SubSeq(items, 1, n)) <= budget}
           most == CHOOSE n \in fitting : \A k \in fitting : k <= n
<1>1. FitContext(items, header, budget) = IF fitting = {} THEN <<>> ELSE SubSeq(items, 1, most)
  BY DEF FitContext
<1>2. L \in Nat /\ fitting \subseteq 0..L
  OBVIOUS
<1>3. SubSeq(items, 1, 0) = <<>> /\ 0 \in 0..L
  BY <1>2
<1> HIDE DEF fitting, L
<1>4. CASE fitting = {}
  BY <1>1, <1>3, <1>4 DEF L
<1>5. CASE fitting # {}
  <2> DEFINE left == {L - n : n \in fitting}
  <2>1. left \in SUBSET Nat /\ left # {}
    <3>1. \A n \in fitting : L - n \in Nat
      BY <1>2
    <3>2. left \subseteq Nat
      BY <3>1
    <3>3. left # {}
      BY <1>5
    <3>q. QED BY <3>2, <3>3
  <2>2. PICK j \in left : \A y \in left : j <= y
    <3> HIDE DEF left
    <3>q. QED BY <2>1, LeastNumber
  <2>3. PICK n \in fitting : j = L - n
    BY <2>2
  <2>4. \A k \in fitting : k <= n
    <3> SUFFICES ASSUME NEW k \in fitting PROVE k <= n
      OBVIOUS
    <3>1. L - n <= L - k
      BY <2>2, <2>3
    <3>2. k \in Nat /\ n \in Nat
      BY <1>2
    <3>q. QED BY <1>2, <3>1, <3>2
  <2>5. most \in fitting
    BY <2>3, <2>4
  <2> HIDE DEF most
  <2>q. QED BY <1>1, <1>2, <1>5, <2>5 DEF L
<1>q. QED BY <1>4, <1>5

FoundOnce(found) == \A x, y \in found : Place(x.chunk) = Place(y.chunk) => x = y

RulesFirstPairs(found) == {p \in found \X found : RulesFirst(p[1], p[2])}

(* Of what was found, one goes before the other: rules first, then by rank. *)
LEMMA RulesFirstSorts ==
  ASSUME NEW E, ChunksFit(E), NEW found \in SUBSET ResultsOf(E), FoundOnce(found)
  PROVE  Sorts(RulesFirstPairs(found), found)
<1> DEFINE order == RulesFirstPairs(found)
           rules(x) == x.chunk.kind = "rules"
<1>1. \A x, y \in found : <<x, y>> \in order <=> (IF rules(x) # rules(y) THEN rules(x) ELSE Before(x.chunk, y.chunk))
  BY DEF RulesFirst, RulesFirstPairs
<1>2. \A x \in found : x.chunk.doc \in Int /\ x.chunk.ord \in Int /\ x.chunk.score \in Int
  BY ResultsCuttable DEF ChunksFit
<1> HIDE DEF order, rules
<1>3. \A x \in found : ~ Before(x.chunk, x.chunk)
  BY <1>2 DEF Before
<1>4. ASSUME NEW x \in found, NEW y \in found, x # y
      PROVE  Before(x.chunk, y.chunk) \/ Before(y.chunk, x.chunk)
  <2>1. ~ (x.chunk.doc = y.chunk.doc /\ x.chunk.ord = y.chunk.ord)
    BY <1>4 DEF FoundOnce, Place
  <2>q. QED BY <1>2, <2>1 DEF Before
<1>5. ASSUME NEW x \in found, NEW y \in found, NEW z \in found, Before(x.chunk, y.chunk), Before(y.chunk, z.chunk)
      PROVE  Before(x.chunk, z.chunk)
  BY <1>2, <1>5 DEF Before
<1>6. \A x \in found : <<x, x>> \notin order
  BY <1>1, <1>3
<1>7. ASSUME NEW x \in found, NEW y \in found, x # y PROVE <<x, y>> \in order \/ <<y, x>> \in order
  <2>1. rules(x) \in BOOLEAN /\ rules(y) \in BOOLEAN
    BY DEF rules
  <2>2. CASE rules(x) # rules(y)
    BY <1>1, <2>1, <2>2
  <2>3. CASE rules(x) = rules(y)
    BY <1>1, <1>4, <1>7, <2>3
  <2>q. QED BY <2>2, <2>3
<1>8. ASSUME NEW x \in found, NEW y \in found, NEW z \in found, <<x, y>> \in order, <<y, z>> \in order
      PROVE  <<x, z>> \in order
  <2>1. IF rules(x) # rules(y) THEN rules(x) ELSE Before(x.chunk, y.chunk)
    BY <1>1, <1>8
  <2>2. IF rules(y) # rules(z) THEN rules(y) ELSE Before(y.chunk, z.chunk)
    BY <1>1, <1>8
  <2>3. rules(x) \in BOOLEAN /\ rules(y) \in BOOLEAN /\ rules(z) \in BOOLEAN
    BY DEF rules
  <2>4. IF rules(x) # rules(z) THEN rules(x) ELSE Before(x.chunk, z.chunk)
    BY <1>5, <2>1, <2>2, <2>3
  <2>q. QED BY <1>1, <2>4
<1>q. QED BY <1>6, <1>7, <1>8 DEF Sorts, order

\* What an answer with its rules is.
ContextSound(said, stored, status, groups, rules, limit) ==
  /\ Proper(stored, ToSet(groups), said.results) /\ Len(said.results) <= limit
  /\ \A i \in DOMAIN said.results :
       /\ status = "out_of_scope" => said.results[i].chunk.kind = "rules"
       /\ said.results[i].chunk.kind # "rules" => ToSet(rules) \subseteq ToSet(said.results)
  /\ ~said.truncated => Complete(stored, ToSet(groups), said.results)

(* HiveGetContext: an asset out of scope is told rules only, rules are      *)
(* never left out for something else, and what is not marked is complete.   *)
LEMMA ContextIsSound ==
  ASSUME NEW E, E # {}, ChunksFit(E), NEW stored, Stocked(stored, E), NEW status, NEW requested, NEW limit \in Nat,
         NEW header, NEW budget
  PROVE  ContextSound(ContextOf(stored, status, requested, limit, header, budget), stored, status,
                      Groups(status, requested), Search(stored, "rules", limit).results, limit)
<1> DEFINE R == ResultsOf(E)
           groups == Groups(status, requested)
           n == Len(groups)
           searches == [g \in DOMAIN groups |-> Search(stored, groups[g], limit)]
           items == AllItems(searches)
           found == ToSet(items)
           order == RulesFirstPairs(found)
           m == Cardinality(found)
           all == InOrder(found, order)
           some == Smaller(limit, Len(all))
           chosen == SubSeq(all, 1, some)
           fitted == FitContext(chosen, header, budget)
           truncated == Len(fitted) < Len(all) \/ \E g \in DOMAIN searches : searches[g].truncated
           rules == Search(stored, "rules", limit).results
           said == ContextOf(stored, status, requested, limit, header, budget)
<1>1. said = IF header > budget THEN TooSmall ELSE [results |-> fitted, truncated |-> truncated]
  BY DEF ContextOf, AllItems, RulesFirstPairs
<1>2. GroupsOf(groups, status)
  BY RulesAreAsked
<1> HIDE DEF groups, said
<1>3. n \in Nat /\ 1 \in 1..n /\ n # 0 /\ DOMAIN groups = 1..n /\ groups[1] = "rules" /\ \A g \in 1..n : groups[g] \in Kinds
  <2>1. groups \in Seq(Kinds) /\ n \in Nat /\ 1 \in 1..n /\ groups[1] = "rules"
    BY <1>2 DEF GroupsOf
  <2>q. QED BY <2>1
<1> HIDE DEF n
<1>4. DOMAIN searches = 1..n /\ \A g \in 1..n : searches[g] = Search(stored, groups[g], limit)
  BY <1>3
<1>5. \A g \in 1..n : Sound(searches[g], stored, groups[g], limit, E)
  BY <1>4, SearchIsSound
<1> DEFINE A == {a \in {Search(stored, kind, limit) : kind \in Kinds} : a.results \in Gathered(R)}
<1>6. searches \in [1..n -> A]
  <2>1. ASSUME NEW g \in 1..n PROVE searches[g] \in A
    <3>1. Sound(searches[g], stored, groups[g], limit, E)
      BY <1>5
    <3> DEFINE v == searches[g].results
    <3>2. v \in Seq(R) /\ Proper(stored, {groups[g]}, v)
      BY <3>1 DEF Sound
    <3> HIDE DEF v
    <3>3. v \in Gathered(R)
      <4>1. DOMAIN v = 1..Len(v)
        BY <3>2
      <4>q. QED BY <3>2, <4>1 DEF Gathered, EachOnce, Proper
    <3>4. searches[g] \in {Search(stored, kind, limit) : kind \in Kinds}
      BY <1>3, <1>4
    <3>q. QED BY <3>3, <3>4 DEF v
  <2>2. searches = [g \in 1..n |-> searches[g]]
    BY <1>3
  <2> HIDE DEF searches, A
  <2>q. QED BY <2>1, <2>2
<1> HIDE DEF searches
<1>7. items \in Gathered(R) /\ Collects(items, searches, n)
  <2>1. \A a \in A : a.results \in Gathered(R)
    OBVIOUS
  <2> HIDE DEF A
  <2>q. QED BY <1>3, <1>6, <2>1, ItemsCollect
<1> HIDE DEF items, A
<1>8. items \in Seq(R) /\ EachOnce(items)
  BY <1>7 DEF Gathered
<1>9. found \in SUBSET R /\ IsFiniteSet(found) /\ FoundOnce(found)
  <2>1. found \in SUBSET R /\ IsFiniteSet(found)
    BY <1>8, Elements, ListIsFinite
  <2>2. ASSUME NEW x \in found, NEW y \in found, Place(x.chunk) = Place(y.chunk) PROVE x = y
    <3>1. PICK i \in 1..Len(items) : items[i] = x
      BY <1>8, Elements
    <3>2. PICK j \in 1..Len(items) : items[j] = y
      BY <1>8, Elements
    <3>q. QED BY <1>8, <2>2, <3>1, <3>2 DEF EachOnce
  <2>q. QED BY <2>1, <2>2 DEF FoundOnce
<1>10. /\ \A x \in found : \E g \in 1..n : x \in ToSet(searches[g].results)
       /\ \A g \in 1..n : \A r \in ToSet(searches[g].results) : \E x \in found : Place(x.chunk) = Place(r.chunk)
       /\ ToSet(searches[1].results) \subseteq found
  BY <1>3, <1>7 DEF Collects
<1> HIDE DEF found
<1>11. Sorts(order, found) /\ \A x, y \in found : <<x, y>> \in order <=> RulesFirst(x, y)
  BY <1>9, RulesFirstSorts DEF RulesFirstPairs
<1> HIDE DEF order
<1>12. /\ m \in Nat /\ all \in [1..m -> found]
       /\ \A i, j \in 1..m : i < j => <<all[i], all[j]>> \in order
       /\ \A x \in found : \E k \in 1..m : all[k] = x
  BY <1>9, <1>11, InOrderLists
<1> HIDE DEF all, m
<1>13. all \in Seq(R) /\ Len(all) = m /\ \A i \in 1..m : all[i] \in found
  BY <1>9, <1>12
<1>14. some \in 0..Len(all) /\ some <= limit
  BY <1>12, <1>13 DEF Smaller
<1> HIDE DEF some
<1>15. chosen \in Seq(R) /\ Len(chosen) = some /\ \A i \in 1..some : chosen[i] = all[i]
  BY <1>13, <1>14, Beginning
<1> HIDE DEF chosen
<1>16. PICK k \in 0..some : fitted = SubSeq(chosen, 1, k)
  BY <1>15, FitContextBegins
<1>17. fitted \in Seq(R) /\ Len(fitted) = k /\ \A i \in 1..k : fitted[i] = chosen[i]
  BY <1>15, <1>16, Beginning
<1> HIDE DEF fitted
<1>18. k \in Nat /\ k <= limit /\ k <= m /\ DOMAIN fitted = 1..k
  BY <1>12, <1>13, <1>14, <1>17
<1>19. \A i \in 1..k : i \in 1..m /\ fitted[i] = all[i] /\ fitted[i] \in found
  <2>1. ASSUME NEW i \in 1..k PROVE i \in 1..m /\ i \in 1..some
    BY <1>12, <1>14, <1>18
  <2>q. QED BY <1>13, <1>15, <1>17, <2>1
\* What a search found: of its group, to be shown, and current.
<1>20. ASSUME NEW g \in 1..n, NEW x \in ToSet(searches[g].results)
       PROVE  /\ x.chunk \in ToSet(stored) /\ x.chunk.mine /\ x.chunk.current /\ Asked(x.chunk, groups[g])
              /\ ~searches[g].truncated => x.kept = x.chunk.size
  <2> DEFINE v == searches[g].results
  <2>1. /\ v \in Seq(R) /\ Proper(stored, {groups[g]}, v)
        /\ ~searches[g].truncated => \A i \in 1..Len(v) : v[i].kept = v[i].chunk.size
    BY <1>5 DEF Sound
  <2> HIDE DEF v
  <2>2. PICK i \in 1..Len(v) : v[i] = x
    BY <2>1, Elements DEF v
  <2>3. DOMAIN v = 1..Len(v)
    BY <2>1
  <2>q. QED BY <2>1, <2>2, <2>3 DEF Proper
<1>21. \A x \in found : \E g \in 1..n :
         /\ x.chunk \in ToSet(stored) /\ x.chunk.mine /\ x.chunk.current /\ Asked(x.chunk, groups[g])
         /\ ~searches[g].truncated => x.kept = x.chunk.size
  BY <1>10, <1>20
<1>22. Proper(stored, ToSet(groups), fitted)
  <2>1. ASSUME NEW i \in 1..k
        PROVE  /\ fitted[i].chunk \in ToSet(stored) /\ fitted[i].chunk.mine /\ fitted[i].chunk.current
               /\ \E kind \in ToSet(groups) : Asked(fitted[i].chunk, kind)
    <3>1. \A g \in 1..n : groups[g] \in ToSet(groups)
      BY <1>3 DEF ToSet
    <3>q. QED BY <1>19, <1>21, <3>1
  <2>2. ASSUME NEW i \in 1..k, NEW j \in 1..k, j # i PROVE Place(fitted[j].chunk) # Place(fitted[i].chunk)
    <3>1. i \in 1..m /\ j \in 1..m /\ (i < j \/ j < i)
      BY <1>19, <2>2
    <3>2. all[i] # all[j]
      BY <1>11, <1>12, <1>13, <3>1 DEF Sorts
    <3>q. QED BY <1>9, <1>19, <3>2 DEF FoundOnce
  <2>q. QED BY <1>18, <2>1, <2>2 DEF Proper
<1>23. ASSUME NEW i \in 1..k, status = "out_of_scope" PROVE fitted[i].chunk.kind = "rules"
  <2>1. PICK g \in 1..n : Asked(fitted[i].chunk, groups[g])
    BY <1>19, <1>21
  <2>2. groups[g] = "rules"
    BY <1>2, <1>23 DEF GroupsOf, n
  <2>q. QED BY <2>1, <2>2 DEF Asked
<1>24. ASSUME NEW i \in 1..k, fitted[i].chunk.kind # "rules" PROVE ToSet(rules) \subseteq ToSet(fitted)
  <2> SUFFICES ASSUME NEW r \in ToSet(rules) PROVE r \in ToSet(fitted)
    OBVIOUS
  <2>1. searches[1] = Search(stored, "rules", limit)
    BY <1>3, <1>4
  <2>2. r \in ToSet(searches[1].results)
    BY <2>1
  <2>3. r \in found /\ r.chunk.kind = "rules"
    BY <1>3, <1>10, <1>20, <2>2 DEF Asked
  <2>4. PICK q \in 1..m : all[q] = r
    BY <1>12, <2>3
  <2>5. q <= i
    <3> SUFFICES ASSUME ~ (q <= i) PROVE FALSE
      OBVIOUS
    <3>1. i \in 1..m /\ i < q /\ all[i] \in found /\ all[i].chunk.kind # "rules"
      BY <1>12, <1>13, <1>18, <1>19, <1>24
    <3>2. <<all[i], all[q]>> \in order
      BY <1>12, <3>1
    <3>3. RulesFirst(all[i], all[q])
      BY <1>11, <1>13, <3>1, <3>2
    <3>q. QED BY <2>3, <2>4, <3>1, <3>3 DEF RulesFirst
  <2>6. q \in 1..k
    BY <1>12, <1>18, <2>5
  <2>7. fitted[q] = r
    BY <1>19, <2>4, <2>6
  <2>q. QED BY <1>18, <2>6, <2>7 DEF ToSet
<1>25. ASSUME ~ truncated PROVE Complete(stored, ToSet(groups), fitted)
  <2>1. k = m /\ \A g \in 1..n : ~searches[g].truncated
    BY <1>4, <1>12, <1>13, <1>17, <1>18, <1>25
  <2> SUFFICES ASSUME NEW c \in ToSet(stored), c.mine, c.current, NEW kind \in ToSet(groups), Asked(c, kind)
               PROVE  \E i \in DOMAIN fitted : fitted[i].chunk = c /\ fitted[i].kept = c.size
    BY DEF Complete
  <2>2. PICK g \in 1..n : groups[g] = kind
    BY <1>3 DEF ToSet
  <2> DEFINE v == searches[g].results
  <2>3. v \in Seq(R) /\ Complete(stored, {kind}, v)
    BY <1>5, <2>1, <2>2 DEF Sound
  <2>4. PICK i \in DOMAIN v : v[i].chunk = c
    BY <2>3 DEF Complete
  <2>5. v[i] \in ToSet(v)
    BY DEF ToSet
  <2> HIDE DEF v
  <2>6. PICK x \in found : Place(x.chunk) = Place(c)
    BY <1>10, <2>4, <2>5 DEF v
  <2>7. x.chunk \in ToSet(stored) /\ x.chunk.current /\ x.kept = x.chunk.size
    BY <1>21, <2>1
  <2>8. x.chunk = c
    BY <2>6, <2>7 DEF Stocked
  <2>9. PICK q \in 1..m : all[q] = x
    BY <1>12
  <2>10. q \in 1..k /\ fitted[q] = x
    BY <1>19, <2>1, <2>9
  <2>q. QED BY <1>18, <2>7, <2>8, <2>10
<1> HIDE DEF truncated, rules
<1>26. CASE header > budget
  <2>1. said.results = <<>> /\ said.truncated = TRUE
    BY <1>1, <1>26 DEF TooSmall
  <2>2. DOMAIN said.results = {} /\ Len(said.results) = 0
    BY <2>1
  <2>3. Proper(stored, ToSet(groups), said.results)
    BY <2>2 DEF Proper
  <2>q. QED BY <2>1, <2>2, <2>3 DEF ContextSound, said, groups, rules
<1>27. CASE ~ (header > budget)
  <2>1. said.results = fitted /\ said.truncated = truncated
    BY <1>1, <1>27
  <2>2. ContextSound(said, stored, status, groups, rules, limit)
    BY <1>17, <1>18, <1>22, <1>23, <1>24, <1>25, <2>1 DEF ContextSound
  <2>q. QED BY <2>2 DEF said, groups, rules
<1>q. QED BY <1>26, <1>27

(* Of any chunks, stored best first and with one current chunk at a place:  *)
(* whatever is asked of hive_search and hive_get_context, with whatever     *)
(* limit and budget, the answer is honest.                                  *)
THEOREM AnswersHonestAlways ==
  ASSUME NEW E, E # {}, ChunksFit(E), \A stored \in Stores : Stocked(stored, E), Limits \subseteq Nat
  PROVE  DecisionsSpec => []AnswersHonest
<1>1. DecisionsInit => AnswersHonest
  <2>1. DecisionsInit => asked.what # "search" /\ asked.what # "context"
    BY DEF DecisionsInit, Idle
  <2>q. QED BY <2>1 DEF AnswersHonest, SearchHonest, ContextHonest
<1>2. AnswersHonest /\ [DecisionsNext]_<<asked, answer>> => AnswersHonest'
  <2> SUFFICES ASSUME AnswersHonest, [DecisionsNext]_<<asked, answer>> PROVE AnswersHonest'
    OBVIOUS
  <2>1. CASE AnswerSearch
    <3>1. PICK stored \in Stores, limit \in Limits, kind \in {"rules", "note"} :
            /\ asked' = [what |-> "search", stored |-> stored, kind |-> kind, limit |-> limit]
            /\ answer' = <<Search(stored, kind, limit)>>
      BY <2>1, Zenon DEF AnswerSearch, Ask
    <3> DEFINE found == Search(stored, kind, limit)
    <3>2. Sound(found, stored, kind, limit, E)
      BY SearchIsSound
    <3> HIDE DEF found
    <3>3. asked'.what = "search" /\ asked'.stored = stored /\ asked'.kind = kind /\ asked'.limit = limit /\ answer'[1] = found
      BY <3>1 DEF found
    <3>4. DOMAIN found.results = 1..Len(found.results)
      BY <3>2 DEF Sound
    <3>5. SearchHonest'
      BY <3>2, <3>3, <3>4 DEF SearchHonest, Said, Sound
    <3>6. ContextHonest'
      BY <3>3 DEF ContextHonest
    <3>q. QED BY <3>5, <3>6 DEF AnswersHonest
  <2>2. CASE AnswerContext
    <3>1. PICK stored \in Stores, limit \in Limits, status \in Statuses, requested \in Requests, header \in Headers :
            /\ asked' = [what |-> "context", stored |-> stored, status |-> status, requested |-> requested, limit |-> limit]
            /\ answer' = <<ContextOf(stored, status, requested, limit, header, Budget)>>
      BY <2>2, Zenon DEF AnswerContext, Ask
    <3> DEFINE found == ContextOf(stored, status, requested, limit, header, Budget)
    <3>2. ContextSound(found, stored, status, Groups(status, requested), Search(stored, "rules", limit).results, limit)
      BY ContextIsSound
    <3> HIDE DEF found
    <3>3. /\ asked'.what = "context" /\ asked'.stored = stored /\ asked'.status = status
          /\ asked'.requested = requested /\ asked'.limit = limit /\ answer'[1] = found
      BY <3>1 DEF found
    <3>4. ContextHonest'
      BY <3>2, <3>3 DEF ContextHonest, Said, ContextSound
    <3>5. SearchHonest'
      BY <3>3 DEF SearchHonest
    <3>q. QED BY <3>4, <3>5 DEF AnswersHonest
  <2>3. CASE \/ CutText \/ CutMarkdown \/ CutBlocks \/ JudgeAssets \/ PublishRules \/ ListTargets
             \/ RankTargets \/ WaitAgain \/ ValidateAll \/ ReportUsage \/ ScoreAnswer \/ Done
    <3> DEFINE other == asked'.what # "search" /\ asked'.what # "context"
    <3>1. other
      <4>1. CutText => other
        BY DEF CutText, Ask
      <4>2. CutMarkdown => other
        BY DEF CutMarkdown, Ask
      <4>3. CutBlocks => other
        BY DEF CutBlocks, Ask
      <4>4. JudgeAssets => other
        BY DEF JudgeAssets, Ask
      <4>5. PublishRules => other
        BY DEF PublishRules, Ask
      <4>6. ListTargets => other
        BY DEF ListTargets, Ask
      <4>7. RankTargets => other
        BY DEF RankTargets, Ask
      <4>8. WaitAgain => other
        BY DEF WaitAgain, Ask
      <4>9. ValidateAll => other
        BY DEF ValidateAll, Ask
      <4>10. ReportUsage => other
        BY DEF ReportUsage, Ask
      <4>11. ScoreAnswer => other
        BY DEF ScoreAnswer, Ask
      <4>12. Done => other
        BY DEF Done, Idle
      <4>q. QED BY <2>3, <4>1, <4>2, <4>3, <4>4, <4>5, <4>6, <4>7, <4>8, <4>9, <4>10, <4>11, <4>12
    <3>q. QED BY <3>1 DEF AnswersHonest, SearchHonest, ContextHonest
  <2>4. CASE UNCHANGED <<asked, answer>>
    BY <2>4 DEF AnswersHonest, SearchHonest, ContextHonest, Said
  <2>q. QED BY <2>1, <2>2, <2>3, <2>4 DEF DecisionsNext
<1>q. QED BY <1>1, <1>2, PTL DEF DecisionsSpec

-------------------------------------------------------------------------------
(* The order of a catalog. *)

Lex(a, b) == \E i \in 1..5 : a[i] < b[i] /\ \A j \in 1..(i - 1) : a[j] = b[j]

(* Keys sort, number by number, what they tell apart.                       *)
LEMMA LexSorts ==
  ASSUME NEW S, NEW k \in [S -> [1..5 -> Int]], \A x, y \in S : k[x] = k[y] => x = y,
         NEW pairs, \A x, y \in S : <<x, y>> \in pairs <=> Lex(k[x], k[y])
  PROVE  Sorts(pairs, S)
<1>1. \A x \in S : <<x, x>> \notin pairs
  <2> SUFFICES ASSUME NEW x \in S, Lex(k[x], k[x]) PROVE FALSE
    OBVIOUS
  <2>1. PICK i \in 1..5 : k[x][i] < k[x][i]
    BY DEF Lex
  <2>2. k[x][i] \in Int
    OBVIOUS
  <2>q. QED BY <2>1, <2>2
<1>2. ASSUME NEW x \in S, NEW y \in S, x # y PROVE <<x, y>> \in pairs \/ <<y, x>> \in pairs
  <2> DEFINE a == k[x]
             b == k[y]
             T == {i \in 1..5 : a[i] # b[i]}
  <2>1. a \in [1..5 -> Int] /\ b \in [1..5 -> Int] /\ a # b
    BY <1>2
  <2> HIDE DEF a, b
  <2>2. T \in SUBSET Nat /\ T # {}
    BY <2>1
  <2>3. PICK i \in T : \A j \in T : i <= j
    <3> HIDE DEF T
    <3>q. QED BY <2>2, LeastNumber
  <2>4. \A j \in 1..(i - 1) : a[j] = b[j]
    <3> SUFFICES ASSUME NEW j \in 1..(i - 1), a[j] # b[j] PROVE FALSE
      OBVIOUS
    <3>1. j \in T /\ j < i
      OBVIOUS
    <3>q. QED BY <2>3, <3>1
  <2>5. a[i] < b[i] \/ b[i] < a[i]
    BY <2>1
  <2>6. Lex(a, b) \/ Lex(b, a)
    BY <2>4, <2>5 DEF Lex
  <2>q. QED BY <2>6 DEF a, b
<1>3. ASSUME NEW x \in S, NEW y \in S, NEW z \in S, <<x, y>> \in pairs, <<y, z>> \in pairs PROVE <<x, z>> \in pairs
  <2> DEFINE a == k[x]
             b == k[y]
             c == k[z]
  <2>1. a \in [1..5 -> Int] /\ b \in [1..5 -> Int] /\ c \in [1..5 -> Int]
    OBVIOUS
  <2>2. Lex(a, b) /\ Lex(b, c)
    BY <1>3
  <2> HIDE DEF a, b, c
  <2>3. PICK i \in 1..5 : a[i] < b[i] /\ \A j \in 1..(i - 1) : a[j] = b[j]
    BY <2>2 DEF Lex
  <2>4. PICK m \in 1..5 : b[m] < c[m] /\ \A j \in 1..(m - 1) : b[j] = c[j]
    BY <2>2 DEF Lex
  <2>5. ASSUME i < m PROVE Lex(a, c)
    <3>1. i \in 1..(m - 1) /\ a[i] < c[i]
      BY <2>3, <2>4, <2>5
    <3>2. \A j \in 1..(i - 1) : a[j] = c[j]
      <4>1. \A j \in 1..(i - 1) : j \in 1..(m - 1)
        BY <2>5
      <4>q. QED BY <2>3, <2>4, <4>1
    <3>q. QED BY <3>1, <3>2 DEF Lex
  <2>6. ASSUME i = m PROVE Lex(a, c)
    <3>1. a[i] < c[i]
      BY <2>1, <2>3, <2>4, <2>6
    <3>2. \A j \in 1..(i - 1) : a[j] = c[j]
      BY <2>3, <2>4, <2>6
    <3>q. QED BY <3>1, <3>2 DEF Lex
  <2>7. ASSUME m < i PROVE Lex(a, c)
    <3>1. m \in 1..(i - 1) /\ a[m] < c[m]
      BY <2>3, <2>4, <2>7
    <3>2. \A j \in 1..(m - 1) : a[j] = c[j]
      <4>1. \A j \in 1..(m - 1) : j \in 1..(i - 1)
        BY <2>7
      <4>q. QED BY <2>3, <2>4, <4>1
    <3>q. QED BY <3>1, <3>2 DEF Lex
  <2>8. Lex(a, c)
    BY <2>5, <2>6, <2>7
  <2>q. QED BY <2>8 DEF a, c
<1>q. QED BY <1>1, <1>2, <1>3 DEF Sorts

KeyOf(e, order) == SortKey(e, order) \o <<-e.latest, e.program, e.target>>

(* Five numbers are a function.                                             *)
LEMMA FiveNumbers ==
  ASSUME NEW s \in Seq(Int), Len(s) = 5
  PROVE  s \in [1..5 -> Int]
<1>1. s \in [1..Len(s) -> Int]
  OBVIOUS
<1>q. QED BY <1>1

(* The key of an order has five numbers, the last two of which are the name.*)
LEMMA KeysAreFive ==
  ASSUME NEW E, EntriesFit(E), NEW e \in E, NEW order \in OrderNames
  PROVE  /\ KeyOf(e, order) \in [1..5 -> Int]
         /\ KeyOf(e, order)[4] = e.program /\ KeyOf(e, order)[5] = e.target
<1> DEFINE a == SortKey(e, order)
           b == <<-e.latest, e.program, e.target>>
<1>1. /\ e.sources \in Int /\ e.recon \in Int /\ e.support \in Int
      /\ e.latest \in Int /\ e.program \in Int /\ e.target \in Int /\ BandRank[e.band] \in Int
  BY DEF EntriesFit, BandRank, Bands
<1>2. a \in Seq(Int) /\ Len(a) = 2
  <2>1. -e.sources \in Int /\ -(e.recon + e.support) \in Int /\ e.recon + e.support \in Int
    BY <1>1
  <2>2. CASE order = "most_documented"
    <3>1. a = <<-e.sources, -(e.recon + e.support)>>
      BY <2>2 DEF SortKey
    <3>q. QED BY <2>1, <3>1
  <2>3. CASE order = "needs_recon"
    <3>1. a = <<e.recon, e.recon + e.support>>
      BY <2>3 DEF SortKey
    <3>q. QED BY <1>1, <2>1, <3>1
  <2>4. CASE order = "balanced"
    <3>1. a = <<BandRank[e.band], -e.sources>>
      BY <2>4 DEF SortKey
    <3>q. QED BY <1>1, <2>1, <3>1
  <2>q. QED BY <2>2, <2>3, <2>4 DEF OrderNames
<1>3. b \in Seq(Int) /\ Len(b) = 3 /\ b[2] = e.program /\ b[3] = e.target
  <2>1. -e.latest \in Int
    BY <1>1
  <2>q. QED BY <1>1, <2>1
<1> HIDE DEF a, b
<1>4. /\ a \o b \in Seq(Int) /\ Len(a \o b) = 5
      /\ \A i \in 1..5 : (a \o b)[i] = IF i <= 2 THEN a[i] ELSE b[i - 2]
  <2>1. /\ a \o b \in Seq(Int) /\ Len(a \o b) = Len(a) + Len(b)
        /\ \A i \in 1..(Len(a) + Len(b)) : (a \o b)[i] = IF i <= Len(a) THEN a[i] ELSE b[i - Len(a)]
    BY <1>2, <1>3, OneAfterAnother
  <2>q. QED BY <1>2, <1>3, <2>1
<1> DEFINE c == a \o b
<1>5. KeyOf(e, order) = c
  BY DEF KeyOf, a, b
<1>6. c \in Seq(Int) /\ Len(c) = 5 /\ c[4] = b[2] /\ c[5] = b[3]
  BY <1>4
<1> HIDE DEF c
<1>7. c \in [1..5 -> Int]
  BY <1>6, FiveNumbers
<1>q. QED BY <1>3, <1>5, <1>6, <1>7

EarlierPairs(S, order) == {p \in S \X S : Earlier(p[1], p[2], order)}

(* orderCatalogCandidates: an order of candidates has no ties.              *)
LEMMA EarlierSorts ==
  ASSUME NEW E, EntriesFit(E), NEW entries, ListedOnce(entries, E), NEW S \in SUBSET entries, NEW order \in OrderNames
  PROVE  Sorts(EarlierPairs(S, order), S)
<1> DEFINE k == [e \in S |-> KeyOf(e, order)]
           pairs == EarlierPairs(S, order)
<1>1. \A e \in S : e \in E
  BY DEF ListedOnce
<1>2. k \in [S -> [1..5 -> Int]]
  BY <1>1, KeysAreFive
<1>3. ASSUME NEW x \in S, NEW y \in S, k[x] = k[y] PROVE x = y
  <2>1. KeyOf(x, order) = KeyOf(y, order)
    BY <1>3
  <2>2. x.program = y.program /\ x.target = y.target
    BY <1>1, <2>1, KeysAreFive
  <2>q. QED BY <2>2 DEF ListedOnce
<1>4. ASSUME NEW x \in S, NEW y \in S PROVE <<x, y>> \in pairs <=> Lex(k[x], k[y])
  <2>1. <<x, y>> \in pairs <=> Earlier(x, y, order)
    BY DEF EarlierPairs
  <2>2. Earlier(x, y, order) <=> Lex(KeyOf(x, order), KeyOf(y, order))
    BY DEF Earlier, Lex, KeyOf
  <2>q. QED BY <2>1, <2>2
<1> HIDE DEF k, pairs
<1>5. Sorts(pairs, S)
  BY <1>2, <1>3, <1>4, LexSorts
<1>q. QED BY <1>5 DEF pairs

(* Each entry of a band has a turn of its own, later than those before it.  *)
LEMMA TurnsDiffer ==
  ASSUME NEW E, EntriesFit(E), NEW entries, ListedOnce(entries, E), NEW order \in OrderNames
  PROVE  /\ \A e \in entries : Turn(e, entries, order) \in Nat
         /\ \A x, y \in entries : x.band = y.band /\ x # y => Turn(x, entries, order) # Turn(y, entries, order)
         /\ \A x, y \in entries : x.band = y.band /\ Earlier(x, y, order) => Turn(x, entries, order) < Turn(y, entries, order)
<1> DEFINE B(band) == {x \in entries : x.band = band}
           P(band) == EarlierPairs(B(band), order)
<1>1. ASSUME NEW e \in entries
      PROVE  /\ Turn(e, entries, order) = Cardinality(Ahead(B(e.band), P(e.band), e))
             /\ e \in B(e.band)
  <2>1. Ahead(B(e.band), P(e.band), e) = {x \in entries : x.band = e.band /\ Earlier(x, e, order)}
    BY DEF Ahead, EarlierPairs
  <2>q. QED BY <2>1 DEF Turn
<1>2. ASSUME NEW band
      PROVE  /\ Cardinality(B(band)) \in Nat
             /\ \A x \in B(band) : Cardinality(Ahead(B(band), P(band), x)) \in 0..(Cardinality(B(band)) - 1)
             /\ \A x, y \in B(band) : <<x, y>> \in P(band) =>
                  Cardinality(Ahead(B(band), P(band), x)) < Cardinality(Ahead(B(band), P(band), y))
             /\ \A x, y \in B(band) : x # y => <<x, y>> \in P(band) \/ <<y, x>> \in P(band)
             /\ \A x, y \in B(band) : <<x, y>> \in P(band) <=> Earlier(x, y, order)
  <2> DEFINE S == B(band)
             pairs == P(band)
  <2>1. S \in SUBSET entries /\ IsFiniteSet(S)
    <3>1. S \in SUBSET entries
      OBVIOUS
    <3> HIDE DEF S
    <3>2. IsFiniteSet(entries)
      BY DEF ListedOnce
    <3>q. QED BY <3>1, <3>2, FS_Subset
  <2>2. \A x, y \in S : <<x, y>> \in pairs <=> Earlier(x, y, order)
    BY DEF EarlierPairs
  <2>3. pairs = EarlierPairs(S, order)
    OBVIOUS
  <2> HIDE DEF S, pairs
  <2>4. Sorts(pairs, S)
    BY <2>1, <2>3, EarlierSorts
  <2>5. /\ Cardinality(S) \in Nat
        /\ \A x \in S : Cardinality(Ahead(S, pairs, x)) \in 0..(Cardinality(S) - 1)
        /\ \A x, y \in S : <<x, y>> \in pairs => Cardinality(Ahead(S, pairs, x)) < Cardinality(Ahead(S, pairs, y))
    BY <2>1, <2>4, AheadCounts
  <2>6. \A x, y \in S : x # y => <<x, y>> \in pairs \/ <<y, x>> \in pairs
    BY <2>4 DEF Sorts
  <2>q. QED BY <2>2, <2>5, <2>6 DEF S, pairs
<1>3. ASSUME NEW e \in entries PROVE Turn(e, entries, order) \in Nat
  <2> DEFINE S == B(e.band)
             c == Cardinality(S)
             t == Cardinality(Ahead(S, P(e.band), e))
  <2>1. c \in Nat /\ t \in 0..(c - 1)
    BY <1>1, <1>2
  <2> HIDE DEF c, t
  <2>2. t \in Nat
    BY <2>1
  <2>q. QED BY <1>1, <2>2 DEF t
<1> HIDE DEF B, P
<1>4. ASSUME NEW x \in entries, NEW y \in entries, x.band = y.band, Earlier(x, y, order)
      PROVE  Turn(x, entries, order) < Turn(y, entries, order)
  <2>1. x \in B(y.band) /\ y \in B(y.band)
    BY <1>1, <1>4
  <2>2. <<x, y>> \in P(y.band)
    BY <1>2, <1>4, <2>1
  <2>3. Cardinality(Ahead(B(y.band), P(y.band), x)) < Cardinality(Ahead(B(y.band), P(y.band), y))
    BY <1>2, <2>1, <2>2
  <2>q. QED BY <1>1, <1>4, <2>3
<1>5. ASSUME NEW x \in entries, NEW y \in entries, x.band = y.band, x # y
      PROVE  Turn(x, entries, order) # Turn(y, entries, order)
  <2>1. x \in B(y.band) /\ y \in B(y.band)
    BY <1>1, <1>5
  <2>2. Earlier(x, y, order) \/ Earlier(y, x, order)
    BY <1>2, <1>5, <2>1
  <2>3. Turn(x, entries, order) < Turn(y, entries, order) \/ Turn(y, entries, order) < Turn(x, entries, order)
    BY <1>4, <1>5, <2>2
  <2>q. QED BY <1>3, <2>3
<1>q. QED BY <1>3, <1>4, <1>5

RankPairs(entries, order) ==
  {p \in entries \X entries :
     IF order = "balanced" THEN TakenBefore(p[1], p[2], entries, order) ELSE Earlier(p[1], p[2], order)}

(* orderCatalogCandidates: no two candidates have the same place.           *)
LEMMA RankPairsSort ==
  ASSUME NEW E, EntriesFit(E), NEW entries, ListedOnce(entries, E), NEW order \in OrderNames
  PROVE  Sorts(RankPairs(entries, order), entries)
<1> DEFINE pairs == RankPairs(entries, order)
<1>1. CASE order # "balanced"
  <2>1. pairs = EarlierPairs(entries, order)
    BY <1>1 DEF RankPairs, EarlierPairs
  <2>q. QED BY <2>1, EarlierSorts
<1>2. CASE order = "balanced"
  <2> DEFINE turn(e) == Turn(e, entries, order)
             rank(e) == BandRank[e.band]
  <2>1. \A x, y \in entries : <<x, y>> \in pairs <=> turn(x) < turn(y) \/ (turn(x) = turn(y) /\ rank(x) < rank(y))
    BY <1>2 DEF RankPairs, TakenBefore
  <2>2. \A e \in entries : turn(e) \in Nat
    BY TurnsDiffer
  <2>3. \A x, y \in entries : x.band = y.band /\ x # y => turn(x) # turn(y)
    BY TurnsDiffer
  <2>4. /\ \A e \in entries : rank(e) \in Int
        /\ \A x, y \in entries : rank(x) = rank(y) => x.band = y.band
    <3>1. \A e \in entries : e.band \in Bands
      BY DEF ListedOnce, EntriesFit
    <3>q. QED BY <3>1 DEF BandRank, Bands
  <2> HIDE DEF pairs, turn, rank
  <2>5. \A x \in entries : <<x, x>> \notin pairs
    BY <2>1, <2>2, <2>4
  <2>6. ASSUME NEW x \in entries, NEW y \in entries, x # y PROVE <<x, y>> \in pairs \/ <<y, x>> \in pairs
    <3>1. turn(x) # turn(y) \/ rank(x) # rank(y)
      BY <2>3, <2>4, <2>6
    <3>q. QED BY <2>1, <2>2, <2>4, <3>1
  <2>7. ASSUME NEW x \in entries, NEW y \in entries, NEW z \in entries, <<x, y>> \in pairs, <<y, z>> \in pairs
        PROVE  <<x, z>> \in pairs
    <3>1. /\ turn(x) < turn(y) \/ (turn(x) = turn(y) /\ rank(x) < rank(y))
          /\ turn(y) < turn(z) \/ (turn(y) = turn(z) /\ rank(y) < rank(z))
      BY <2>1, <2>7
    <3>2. turn(x) < turn(z) \/ (turn(x) = turn(z) /\ rank(x) < rank(z))
      <4>1. turn(x) \in Nat /\ turn(y) \in Nat /\ turn(z) \in Nat /\ rank(x) \in Int /\ rank(y) \in Int /\ rank(z) \in Int
        BY <2>2, <2>4
      <4>q. QED BY <3>1, <4>1
    <3>q. QED BY <2>1, <3>2
  <2>8. Sorts(pairs, entries)
    BY <2>5, <2>6, <2>7 DEF Sorts
  <2>q. QED BY <2>8 DEF pairs
<1>q. QED BY <1>1, <1>2

\* A ranking has every candidate once, each after those that go before it.
RanksAll(ranked, entries, order) ==
  /\ Cardinality(entries) \in Nat /\ ranked \in [1..Cardinality(entries) -> entries]
  /\ \A i, j \in 1..Cardinality(entries) : i < j => <<ranked[i], ranked[j]>> \in RankPairs(entries, order)
  /\ \A x \in entries : \E k \in 1..Cardinality(entries) : ranked[k] = x

(* orderCatalogCandidates: a ranking is an order of the candidates.         *)
LEMMA RankIsOrder ==
  ASSUME NEW E, EntriesFit(E), NEW entries, ListedOnce(entries, E), NEW order \in OrderNames
  PROVE  RanksAll(Rank(entries, order), entries, order)
<1> DEFINE pairs == RankPairs(entries, order)
           ranked == Rank(entries, order)
<1>1. ranked = InOrder(entries, pairs)
  BY DEF Rank, RankPairs
<1>2. Sorts(pairs, entries) /\ IsFiniteSet(entries)
  BY RankPairsSort DEF ListedOnce
<1> HIDE DEF pairs, ranked
<1>3. /\ Cardinality(entries) \in Nat /\ ranked \in [1..Cardinality(entries) -> entries]
      /\ \A i, j \in 1..Cardinality(entries) : i < j => <<ranked[i], ranked[j]>> \in pairs
      /\ \A x \in entries : \E k \in 1..Cardinality(entries) : ranked[k] = x
  BY <1>1, <1>2, InOrderLists
<1>q. QED BY <1>3 DEF RanksAll, pairs, ranked

(* orderCatalogCandidates, for any candidates: among the first of a         *)
(* balanced ranking no band is two ahead of one that has more to come.      *)
LEMMA RankIsBalanced ==
  ASSUME NEW E, EntriesFit(E), NEW entries, ListedOnce(entries, E)
  PROVE  Balanced(Rank(entries, "balanced"))
<1> DEFINE L == Cardinality(entries)
           order == "balanced"
           ranked == Rank(entries, order)
           pairs == RankPairs(entries, order)
           turn(e) == Turn(e, entries, order)
<1>1. /\ L \in Nat /\ ranked \in [1..L -> entries]
      /\ \A i, j \in 1..L : i < j => <<ranked[i], ranked[j]>> \in pairs
      /\ \A x \in entries : \E k \in 1..L : ranked[k] = x
  <2>1. RanksAll(ranked, entries, order)
    BY RankIsOrder DEF OrderNames
  <2>q. QED BY <2>1 DEF RanksAll
<1>2. \A x, y \in entries : <<x, y>> \in pairs => turn(x) <= turn(y)
  <2>1. \A x, y \in entries : <<x, y>> \in pairs => turn(x) < turn(y) \/ turn(x) = turn(y)
    BY DEF RankPairs, TakenBefore
  <2>2. \A x \in entries : turn(x) \in Nat
    BY TurnsDiffer DEF OrderNames
  <2>q. QED BY <2>1, <2>2
<1>3. \A x, y \in entries : x.band = y.band /\ Earlier(x, y, order) => <<x, y>> \in pairs
  <2>1. \A x, y \in entries : x.band = y.band /\ Earlier(x, y, order) => turn(x) < turn(y)
    BY TurnsDiffer DEF OrderNames
  <2>q. QED BY <2>1 DEF RankPairs, TakenBefore
<1>4. /\ \A x \in entries : turn(x) \in Nat
      /\ \A x, y \in entries : x.band = y.band /\ x # y => turn(x) # turn(y)
  BY TurnsDiffer DEF OrderNames
<1>5. \A x, y \in entries : <<x, y>> \in pairs => <<y, x>> \notin pairs
  <2>1. Sorts(pairs, entries)
    BY RankPairsSort DEF OrderNames
  <2>q. QED BY <2>1 DEF Sorts
<1>6. \A x \in entries : turn(x) = Cardinality({z \in entries : z.band = x.band /\ Earlier(z, x, order)})
  BY DEF Turn
<1>7. DOMAIN ranked = 1..L /\ Len(ranked) = L
  BY <1>1
<1> HIDE DEF L, ranked, pairs, turn, order
<1> DEFINE Part(b, n) == {i \in 1..n : ranked[i].band = b}
<1>8. ASSUME NEW n \in 1..L, NEW b, NEW c, Cardinality(Part(c, n)) < Cardinality(Part(c, L))
      PROVE  Cardinality(Part(b, n)) <= Cardinality(Part(c, n)) + 1
  <2> DEFINE B == Part(b, n)
             C == Part(c, n)
             k == Cardinality(C)
             Left == Part(c, L) \ C
  <2>1. IsFiniteSet(B) /\ IsFiniteSet(C) /\ Cardinality(B) \in Nat /\ k \in Nat
    <3>1. IsFiniteSet(1..n)
      BY IntervalIsFinite
    <3>2. B \in SUBSET (1..n) /\ C \in SUBSET (1..n)
      OBVIOUS
    <3> HIDE DEF B, C
    <3>3. IsFiniteSet(B) /\ IsFiniteSet(C)
      BY <3>1, <3>2, FS_Subset
    <3>q. QED BY <3>3, FS_CardinalityType
  <2>2. \A i \in 1..n : i \in 1..L
    BY <1>1
  <2>3. Left # {} /\ Left \in SUBSET Nat
    <3>1. Left = {} => Part(c, L) = C
      BY <2>2
    <3>2. Left # {}
      <4> SUFFICES ASSUME Left = {} PROVE FALSE
        OBVIOUS
      <4>1. k < k
        BY <1>8, <3>1
      <4> HIDE DEF k
      <4>q. QED BY <2>1, <4>1
    <3>q. QED BY <3>2
  <2>4. PICK q \in Left : \A j \in Left : q <= j
    <3> HIDE DEF Left
    <3>q. QED BY <2>3, LeastNumber
  <2>5. q \in 1..L /\ n < q /\ ranked[q].band = c /\ ranked[q] \in entries
    <3>1. q \in 1..L /\ ranked[q].band = c /\ q \notin 1..n
      OBVIOUS
    <3>q. QED BY <1>1, <3>1
  <2> DEFINE y == ranked[q]
             First == {z \in entries : z.band = c /\ Earlier(z, y, order)}
             Shown == {ranked[i] : i \in C}
  <2>6. turn(y) = Cardinality(First)
    BY <1>6, <2>5
  \* What goes before y in its band is among the first n.
  <2>7. First \subseteq Shown
    <3> SUFFICES ASSUME NEW z \in First PROVE z \in Shown
      OBVIOUS
    <3>1. z \in entries /\ z.band = c /\ <<z, y>> \in pairs
      BY <1>3, <2>5
    <3>2. PICK i \in 1..L : ranked[i] = z
      BY <1>1, <3>1
    <3>3. i < q
      <4> SUFFICES ASSUME ~ (i < q) PROVE FALSE
        OBVIOUS
      <4>1. i = q \/ q < i
        BY <2>5
      <4>2. CASE i = q
        <5>1. <<y, y>> \in pairs
          BY <3>1, <3>2, <4>2
        <5>q. QED BY <1>5, <2>5, <5>1
      <4>3. CASE q < i
        <5>1. <<y, z>> \in pairs
          BY <1>1, <2>5, <3>2, <4>3
        <5>q. QED BY <1>5, <2>5, <3>1, <5>1
      <4>q. QED BY <4>1, <4>2, <4>3
    <3>4. i \in C
      <4>1. i \in Part(c, L)
        BY <3>1, <3>2
      <4>2. ~ (q <= i)
        BY <2>5, <3>3
      <4>q. QED BY <2>4, <4>1, <4>2
    <3>q. QED BY <3>2, <3>4
  <2>8. IsFiniteSet(Shown) /\ Cardinality(Shown) <= k
    <3> DEFINE g == [i \in C |-> ranked[i]]
    <3>1. g \in [C -> Shown] /\ \A x \in Shown : \E i \in C : g[i] = x
      OBVIOUS
    <3> HIDE DEF C, Shown, g
    <3>2. g \in Surjection(C, Shown)
      BY <3>1 DEF Surjection
    <3>q. QED BY <2>1, <3>2, FS_Surjection
  <2>9. turn(y) <= k /\ turn(y) \in Nat
    <3>1. turn(y) \in Nat
      BY <1>4, <2>5
    <3> HIDE DEF First, Shown, k
    <3>2. IsFiniteSet(First) /\ Cardinality(First) <= Cardinality(Shown)
      BY <2>7, <2>8, FS_Subset
    <3>3. Cardinality(Shown) \in Nat
      BY <2>8, FS_CardinalityType
    <3>q. QED BY <2>1, <2>6, <2>8, <3>1, <3>2, <3>3
  \* The others of the first n have turns up to that of y, each its own.
  <2> DEFINE Turns == 0..k
             f == [i \in B |-> turn(ranked[i])]
  <2>10. ASSUME NEW i \in B PROVE turn(ranked[i]) \in Turns
    <3>1. i \in 1..L /\ i < q /\ ranked[i] \in entries
      BY <1>1, <2>2, <2>5
    <3>2. turn(ranked[i]) <= turn(y) /\ turn(ranked[i]) \in Nat
      BY <1>1, <1>2, <1>4, <2>5, <3>1
    <3>q. QED BY <2>1, <2>9, <3>2
  <2>11. ASSUME NEW i \in B, NEW j \in B, turn(ranked[i]) = turn(ranked[j]) PROVE i = j
    <3>1. i \in 1..L /\ j \in 1..L /\ ranked[i] \in entries /\ ranked[j] \in entries /\ ranked[i].band = ranked[j].band
      BY <1>1, <2>2
    <3>2. ranked[i] = ranked[j]
      BY <1>4, <2>11, <3>1
    <3>3. ~ (i < j) /\ ~ (j < i)
      <4>1. <<ranked[i], ranked[i]>> \notin pairs
        BY <1>5, <3>1
      <4>q. QED BY <1>1, <3>1, <3>2, <4>1
    <3>q. QED BY <3>1, <3>3
  <2>12. f \in Injection(B, Turns)
    <3> HIDE DEF B, Turns
    <3>1. f \in [B -> Turns]
      BY <2>10
    <3>2. \A i, j \in B : f[i] = f[j] => i = j
      BY <2>11
    <3> HIDE DEF f
    <3>q. QED BY <3>1, <3>2 DEF Injection, IsInjective
  <2>13. IsFiniteSet(Turns) /\ Cardinality(Turns) = k + 1
    <3> HIDE DEF k
    <3>1. 0 \in Int /\ k \in Int
      BY <2>1
    <3>2. IsFiniteSet(0..k) /\ Cardinality(0..k) = IF 0 > k THEN 0 ELSE k - 0 + 1
      BY <3>1, FS_Interval
    <3>q. QED BY <2>1, <3>2
  <2>14. Cardinality(B) <= Cardinality(Turns)
    <3> HIDE DEF B, Turns, f
    <3>q. QED BY <2>12, <2>13, FS_Injection
  <2> HIDE DEF Turns, k
  <2>q. QED BY <2>13, <2>14 DEF k
<1>9. Balanced(ranked)
  <2>1. Balanced(ranked) <=>
          \A n \in DOMAIN ranked : \A b, c \in DOMAIN BandRank :
             Cardinality(Part(c, n)) < Cardinality(Part(c, Len(ranked))) => Cardinality(Part(b, n)) <= Cardinality(Part(c, n)) + 1
    BY DEF Balanced
  <2> HIDE DEF Part
  <2>2. Balanced(ranked) <=>
          \A n \in 1..L : \A b, c \in DOMAIN BandRank :
             Cardinality(Part(c, n)) < Cardinality(Part(c, L)) => Cardinality(Part(b, n)) <= Cardinality(Part(c, n)) + 1
    BY <1>7, <2>1
  <2>q. QED BY <1>8, <2>2
<1>q. QED BY <1>9 DEF ranked, order

-------------------------------------------------------------------------------
(* The entries of a catalog. *)

Active(rows) == {r \in ToSet(rows) : r.mine /\ r.live /\ r.kind \notin {"scope", "rules"}}

(* listTargetsInProgram: a scan that reaches its end sees what is active.   *)
LEMMA ActiveIsVisible ==
  ASSUME NEW R, NEW rows, Scanned(rows, R), Len(rows) <= MostScanned
  PROVE  Visible(rows) = Active(rows)
<1> DEFINE n == Lower(MostScanned, Len(rows))
           scanned == SubSeq(rows, 1, n)
           L == Len(rows)
<1>1. rows \in Seq(R) /\ L \in Nat
  BY DEF Scanned
<1>2. n = L
  <2>1. MostScanned \in Nat
    BY CatalogAssumption
  <2>q. QED BY <1>1, <2>1 DEF Lower
<1>3. Visible(rows) = {scanned[i] : i \in {k \in DOMAIN scanned : Counts(scanned, k) /\ scanned[k].kind \notin {"scope", "rules"}}}
  BY DEF Visible
<1> HIDE DEF n, L
<1>4. scanned \in Seq(R) /\ Len(scanned) = L /\ \A i \in 1..L : scanned[i] = rows[i]
  <2>1. L \in 0..Len(rows)
    BY <1>1 DEF L
  <2>q. QED BY <1>1, <1>2, <2>1, Beginning
<1> HIDE DEF scanned
<1>5. DOMAIN scanned = 1..L
  BY <1>4
<1>6. ASSUME NEW i \in 1..L, rows[i].mine, rows[i].live PROVE Counts(scanned, i)
  <2>1. \A j \in 1..(i - 1) : j \in 1..L /\ j # i
    BY <1>1
  <2>2. \A j \in 1..(i - 1) : rows[j].doc = rows[i].doc => ~ (rows[j].mine /\ rows[j].live)
    BY <1>6, <2>1 DEF Scanned, L
  <2>q. QED BY <1>4, <1>6, <2>1, <2>2 DEF Counts
<1>7. ASSUME NEW r \in Visible(rows) PROVE r \in Active(rows)
  <2>1. PICK i \in 1..L : Counts(scanned, i) /\ scanned[i].kind \notin {"scope", "rules"} /\ r = scanned[i]
    BY <1>3, <1>5
  <2>2. r = rows[i] /\ r.mine /\ r.live /\ r.kind \notin {"scope", "rules"}
    BY <1>4, <2>1 DEF Counts
  <2>3. r \in ToSet(rows)
    BY <1>1, <2>2, Elements DEF L
  <2>q. QED BY <2>2, <2>3 DEF Active
<1>8. ASSUME NEW r \in Active(rows) PROVE r \in Visible(rows)
  <2>1. PICK i \in 1..L : rows[i] = r
    BY <1>1, Elements DEF Active, L
  <2>2. r.mine /\ r.live /\ r.kind \notin {"scope", "rules"}
    BY DEF Active
  <2>3. Counts(scanned, i) /\ scanned[i] = r
    BY <1>4, <1>6, <2>1, <2>2
  <2>q. QED BY <1>3, <1>5, <2>2, <2>3
<1>q. QED BY <1>7, <1>8

(* completeCatalogCandidate: a target is said to be authorized if it has    *)
(* assets and each of them is.                                              *)
LEMMA SummaryIsTrue ==
  ASSUME NEW rows, NEW t, NEW status, IsFiniteSet(AssetsOf(rows, t)),
         \A a \in AssetsOf(rows, t) : status[a] \in AssetStatuses
  PROVE  /\ EntryOf(rows, t, status).target = t
         /\ EntryOf(rows, t, status).status = "authorized" <=>
              AssetsOf(rows, t) # {} /\ \A a \in AssetsOf(rows, t) : status[a] = "authorized"
<1> DEFINE assets == AssetsOf(rows, t)
           of(s) == {a \in assets : status[a] = s}
           number(s) == Cardinality(of(s))
           entry == EntryOf(rows, t, status)
<1>1. entry.target = t /\ entry.status = Summary(number("authorized"), number("out_of_scope"), number("unknown"))
  BY DEF EntryOf
<1> HIDE DEF entry, assets
<1>2. ASSUME NEW s PROVE number(s) \in Nat /\ (number(s) = 0 <=> of(s) = {})
  <2>1. of(s) \in SUBSET assets /\ IsFiniteSet(assets)
    BY DEF assets
  <2> HIDE DEF of
  <2>2. IsFiniteSet(of(s))
    BY <2>1, FS_Subset
  <2>q. QED BY <2>2, FS_CardinalityType, FS_EmptySet
<1> HIDE DEF number
<1>3. \A a, e, u \in Nat : Summary(a, e, u) = "authorized" <=> a # 0 /\ e = 0 /\ u = 0
  BY DEF Summary
<1>4. entry.status = "authorized" <=> of("authorized") # {} /\ of("out_of_scope") = {} /\ of("unknown") = {}
  BY <1>1, <1>2, <1>3
<1>5. \A a \in assets : status[a] \in AssetStatuses
  BY DEF assets
<1>6. of("authorized") # {} /\ of("out_of_scope") = {} /\ of("unknown") = {} <=>
        assets # {} /\ \A a \in assets : status[a] = "authorized"
  BY <1>5 DEF AssetStatuses
<1>q. QED BY <1>1, <1>4, <1>6 DEF entry, assets

\* The assets that the documents of a target name.
AllNamed(rows, t) == (UNION {ToSet(r.refs) : r \in {s \in rows : s.target = t}}) \intersect Concrete

(* A list of references has finitely many of them.                          *)
LEMMA RefsAreFinite ==
  ASSUME NEW refs, Len(refs) \in Nat, DOMAIN refs = 1..Len(refs)
  PROVE  IsFiniteSet(ToSet(refs))
<1> DEFINE n == Len(refs)
           g == [i \in 1..n |-> refs[i]]
           all == ToSet(refs)
<1>1. all = {refs[i] : i \in 1..n}
  BY DEF ToSet
<1>2. IsFiniteSet(1..n)
  BY FS_Interval
<1> HIDE DEF n, all
<1>3. g \in [1..n -> all] /\ \A y \in all : \E i \in 1..n : g[i] = y
  BY <1>1
<1> HIDE DEF g
<1>4. g \in Surjection(1..n, all)
  BY <1>3 DEF Surjection
<1>q. QED BY <1>2, <1>4, FS_Surjection DEF all

(* catalogAssetsFromPayload: a list that is read to its end gives every     *)
(* asset that it names.                                                     *)
LEMMA AllIsRead ==
  ASSUME NEW refs, Read(refs) = DOMAIN refs
  PROVE  AssetsNamed(refs) = ToSet(refs) \intersect Concrete
BY Zenon DEF AssetsNamed, AssetsAmong, ToSet

\* What the answer for a program is.
ProgramTrue(told, rows, status) ==
  /\ {e.target : e \in told.entries} = {r.target : r \in Active(rows)} \ {0}
  /\ \A e \in told.entries :
       /\ e.target \in {r.target : r \in Active(rows)} \ {0}
       /\ e.status = "authorized" <=>
            /\ AllNamed(Active(rows), e.target) # {}
            /\ \A a \in AllNamed(Active(rows), e.target) : status[a] = "authorized"

(* listTargetsInProgram: what is not marked truncated is true and complete. *)
LEMMA ProgramIsTrue ==
  ASSUME NEW R, NEW rows, Scanned(rows, R), NEW status, StatusesKnown(status),
         ~ InProgram(rows, status).truncated
  PROVE  ProgramTrue(InProgram(rows, status), rows, status)
<1> DEFINE targets == TargetsOf(rows)
           said == InProgram(rows, status)
<1>1. /\ said.entries = {EntryOf(rows, t, status) : t \in targets}
      /\ ~ (Len(rows) > MostScanned) /\ \A t \in targets : ~ Clipped(rows, t)
  BY DEF InProgram
<1>2. rows \in Seq(R)
  BY DEF Scanned
<1>3. Visible(rows) = Active(rows)
  <2>1. Len(rows) <= MostScanned
    <3>1. MostScanned \in Nat /\ Len(rows) \in Nat
      BY <1>2, CatalogAssumption
    <3>q. QED BY <1>1, <3>1
  <2>q. QED BY <2>1, ActiveIsVisible
<1>4. targets = {r.target : r \in Active(rows)} \ {0}
  BY <1>3 DEF TargetsOf
<1>5. ASSUME NEW t \in targets PROVE AssetsOf(rows, t) = AllNamed(Active(rows), t)
  <2> DEFINE mine == {s \in Active(rows) : s.target = t}
  <2>1. RowsOf(rows, t) = mine
    BY <1>3, Zenon DEF RowsOf
  <2>2. (\A r \in mine : Read(r.refs) = DOMAIN r.refs) /\ AssetsOf(rows, t) = UNION {AssetsNamed(r.refs) : r \in mine}
    BY <1>1, <2>1, Zenon DEF Clipped
  <2>3. AllNamed(Active(rows), t) = (UNION {ToSet(r.refs) : r \in mine}) \intersect Concrete
    BY DEF AllNamed
  <2> HIDE DEF mine
  <2>4. \A r \in mine : AssetsNamed(r.refs) = ToSet(r.refs) \intersect Concrete
    BY <2>2, AllIsRead
  <2>5. UNION {AssetsNamed(r.refs) : r \in mine} = UNION {ToSet(r.refs) \intersect Concrete : r \in mine}
    BY <2>4, Zenon
  <2>6. ASSUME NEW a PROVE a \in UNION {ToSet(r.refs) \intersect Concrete : r \in mine}
                             => a \in (UNION {ToSet(r.refs) : r \in mine}) \intersect Concrete
    <3>1. ASSUME NEW part \in {ToSet(r.refs) \intersect Concrete : r \in mine}, a \in part
          PROVE  a \in (UNION {ToSet(r.refs) : r \in mine}) \intersect Concrete
      BY <3>1, Zenon
    <3>q. QED BY <3>1, Zenon
  <2>7. ASSUME NEW a PROVE a \in (UNION {ToSet(r.refs) : r \in mine}) \intersect Concrete
                             => a \in UNION {ToSet(r.refs) \intersect Concrete : r \in mine}
    <3>1. ASSUME NEW r \in mine, a \in ToSet(r.refs), a \in Concrete
          PROVE  a \in UNION {ToSet(s.refs) \intersect Concrete : s \in mine}
      <4>1. a \in ToSet(r.refs) \intersect Concrete
        BY <3>1
      <4>q. QED BY <4>1
    <3>q. QED BY <3>1, Zenon
  <2>q. QED BY <2>2, <2>3, <2>5, <2>6, <2>7
<1>6. ASSUME NEW t
      PROVE  /\ IsFiniteSet(AllNamed(Active(rows), t))
             /\ \A a \in AllNamed(Active(rows), t) : status[a] \in AssetStatuses
  <2> DEFINE mine == {s \in Active(rows) : s.target = t}
             parts == {ToSet(r.refs) : r \in mine}
  <2>1. mine \in SUBSET ToSet(rows)
    BY DEF Active
  <2>2. IsFiniteSet(mine)
    <3>1. IsFiniteSet(ToSet(rows))
      BY <1>2, ListIsFinite
    <3>q. QED BY <2>1, <3>1, FS_Subset
  <2>3. \A r \in mine : IsFiniteSet(ToSet(r.refs))
    <3>1. \A r \in mine : Len(r.refs) \in Nat /\ DOMAIN r.refs = 1..Len(r.refs)
      BY <2>1 DEF Scanned
    <3>q. QED BY <3>1, RefsAreFinite
  <2>4. \A a \in AllNamed(Active(rows), t) : status[a] \in AssetStatuses
    BY DEF AllNamed, StatusesKnown
  <2>5. IsFiniteSet(parts)
    <3> DEFINE g == [r \in mine |-> ToSet(r.refs)]
    <3>1. g \in [mine -> parts] /\ \A y \in parts : \E r \in mine : g[r] = y
      OBVIOUS
    <3> HIDE DEF mine, parts, g
    <3>2. g \in Surjection(mine, parts)
      BY <3>1 DEF Surjection
    <3>q. QED BY <2>2, <3>2, FS_Surjection
  <2>6. \A part \in parts : IsFiniteSet(part)
    BY <2>3
  <2>7. AllNamed(Active(rows), t) \in SUBSET (UNION parts)
    BY DEF AllNamed
  <2> HIDE DEF parts
  <2>8. IsFiniteSet(UNION parts)
    BY <2>5, <2>6, FS_UNION
  <2>q. QED BY <2>4, <2>7, <2>8, FS_Subset
<1>7. ASSUME NEW t \in targets
      PROVE  /\ EntryOf(rows, t, status).target = t
             /\ EntryOf(rows, t, status).status = "authorized" <=>
                  /\ AllNamed(Active(rows), t) # {}
                  /\ \A a \in AllNamed(Active(rows), t) : status[a] = "authorized"
  <2>1. IsFiniteSet(AssetsOf(rows, t)) /\ \A a \in AssetsOf(rows, t) : status[a] \in AssetStatuses
    BY <1>5, <1>6
  <2>q. QED BY <1>5, <2>1, SummaryIsTrue
<1> HIDE DEF targets, said
<1>8. {e.target : e \in said.entries} = targets
  BY <1>1, <1>7
<1>9. ASSUME NEW e \in said.entries
      PROVE  /\ e.target \in targets
             /\ e.status = "authorized" <=>
                  /\ AllNamed(Active(rows), e.target) # {}
                  /\ \A a \in AllNamed(Active(rows), e.target) : status[a] = "authorized"
  <2>1. PICK t \in targets : e = EntryOf(rows, t, status)
    BY <1>1
  <2>2. e.target = t
    BY <1>7, <2>1
  <2>q. QED BY <1>7, <2>1, <2>2
<1>q. QED BY <1>4, <1>8, <1>9 DEF ProgramTrue, said

ProgramLists == {<<1>>, <<1, 2>>, <<1, 3, 2>>}

RowsOfPrograms(one, two) == [p \in 1..3 |-> CASE p = 1 -> one [] p = 2 -> two [] p = 3 -> <<>>]

\* What is asked for: all programs of the list, one of them without rows.
RowsAsked(programs, one, two) == one \o (IF Len(programs) > 1 THEN two ELSE <<>>)

\* What a catalog is, that is not marked truncated.
CatalogSound(said, rows, status) ==
  LET active == {r \in Active(rows) : r.target # 0}
  IN  ~said.truncated =>
        /\ {e.target : e \in said.entries} = {r.target : r \in active}
        /\ \A e \in said.entries :
             (e.status = "authorized") =
               (AllNamed(active, e.target) # {} /\ \A a \in AllNamed(active, e.target) : status[a] = "authorized")

(* HiveListTargets: a catalog that is not marked truncated has every target *)
(* of an active document, with the status of all its assets.                *)
LEMMA CatalogIsSound ==
  ASSUME NEW R, NEW one, Scanned(one, R), NEW two, Scanned(two, R), TargetsApart(one, two),
         NEW status, StatusesKnown(status), NEW programs \in ProgramLists
  PROVE  CatalogSound(AcrossPrograms(programs, RowsOfPrograms(one, two), status), RowsAsked(programs, one, two), status)
<1> DEFINE rowsOf == RowsOfPrograms(one, two)
           said == AcrossPrograms(programs, rowsOf, status)
           n == Lower(MostPrograms, Len(programs))
           reached == {programs[i] : i \in 1..n}
           rows == RowsAsked(programs, one, two)
           active == {r \in Active(rows) : r.target # 0}
           truncated == Len(programs) > MostPrograms \/ \E p \in reached : [q \in reached |-> InProgram(rowsOf[q], status)][p].truncated
<1>1. /\ said.entries = UNION {[q \in reached |-> InProgram(rowsOf[q], status)][p].entries : p \in reached}
      /\ said.truncated = truncated
  BY DEF AcrossPrograms
<1> SUFFICES ASSUME ~ truncated
             PROVE  /\ {e.target : e \in said.entries} = {r.target : r \in active}
                    /\ \A e \in said.entries :
                         (e.status = "authorized") =
                           (AllNamed(active, e.target) # {} /\ \A a \in AllNamed(active, e.target) : status[a] = "authorized")
  BY <1>1 DEF CatalogSound
<1>2. n = Len(programs) /\ Len(programs) \in Nat
  <2>1. MostPrograms \in Nat
    BY CatalogAssumption
  <2>2. Len(programs) \in Nat
    BY DEF ProgramLists
  <2>q. QED BY <2>1, <2>2 DEF Lower
<1> HIDE DEF n
<1>3. reached \subseteq 1..3 /\ 1 \in reached /\ (2 \in reached <=> Len(programs) > 1)
  <2>1. CASE programs = <<1>>
    <3>1. n = 1
      BY <1>2, <2>1
    <3>2. reached = {1}
      BY <2>1, <3>1
    <3>q. QED BY <2>1, <3>2
  <2>2. CASE programs = <<1, 2>>
    <3>1. n = 2
      BY <1>2, <2>2
    <3>2. 1..2 = {1, 2}
      OBVIOUS
    <3>3. reached = {1, 2}
      BY <2>2, <3>1, <3>2
    <3>q. QED BY <2>2, <3>3
  <2>3. CASE programs = <<1, 3, 2>>
    <3>1. n = 3
      BY <1>2, <2>3
    <3>2. 1..3 = {1, 2, 3}
      OBVIOUS
    <3>3. reached = {1, 2, 3}
      BY <2>3, <3>1, <3>2
    <3>4. Len(programs) = 3
      BY <2>3
    <3> HIDE DEF reached
    <3>q. QED BY <3>3, <3>4
  <2>q. QED BY <2>1, <2>2, <2>3 DEF ProgramLists
<1>4. \A p \in reached : ~ InProgram(rowsOf[p], status).truncated
  OBVIOUS
<1>5. said.entries = UNION {InProgram(rowsOf[p], status).entries : p \in reached}
  BY <1>1
<1> HIDE DEF reached, said, truncated
<1>6. rowsOf[1] = one /\ rowsOf[2] = two /\ rowsOf[3] = <<>>
  BY DEF RowsOfPrograms
<1> HIDE DEF rowsOf
<1>7. Scanned(<<>>, R) /\ ToSet(<<>>) = {} /\ Active(<<>>) = {}
  <2>1. Scanned(<<>>, R)
    BY DEF Scanned
  <2>2. ToSet(<<>>) = {}
    BY DEF ToSet
  <2>q. QED BY <2>1, <2>2 DEF Active
<1>8. ASSUME NEW p \in reached
      PROVE  /\ ProgramTrue(InProgram(rowsOf[p], status), rowsOf[p], status)
             /\ p \in {1, 2, 3}
  <2>1. p \in {1, 2, 3}
    BY <1>3
  <2>2. Scanned(rowsOf[p], R)
    BY <1>6, <1>7, <2>1
  <2>4. ~ InProgram(rowsOf[p], status).truncated
    BY <1>4
  <2> DEFINE v == rowsOf[p]
  <2> HIDE DEF v
  <2>5. ProgramTrue(InProgram(v, status), v, status)
    BY <2>2, <2>4, ProgramIsTrue DEF v
  <2>q. QED BY <2>1, <2>5 DEF v
\* What is active is active in one of the programs.
<1>9. ToSet(rows) = IF 2 \in reached THEN ToSet(one) \union ToSet(two) ELSE ToSet(one)
  <2>1. one \in Seq(R) /\ two \in Seq(R) /\ <<>> \in Seq(R)
    BY DEF Scanned
  <2> DEFINE more == IF Len(programs) > 1 THEN two ELSE <<>>
  <2>2. more \in Seq(R) /\ rows = one \o more
    BY <2>1 DEF RowsAsked
  <2>3. ToSet(more) = IF 2 \in reached THEN ToSet(two) ELSE {}
    BY <1>3, <1>7
  <2> HIDE DEF more, rows
  <2>4. /\ rows \in Seq(R) /\ Len(rows) = Len(one) + Len(more)
        /\ \A i \in 1..(Len(one) + Len(more)) : rows[i] = IF i <= Len(one) THEN one[i] ELSE more[i - Len(one)]
    BY <2>1, <2>2, OneAfterAnother
  <2>5. Len(one) \in Nat /\ Len(more) \in Nat
    BY <2>1, <2>2
  <2> DEFINE K == Len(one)
             M == Len(more)
  <2>6. ASSUME NEW x \in ToSet(rows) PROVE x \in ToSet(one) \/ x \in ToSet(more)
    <3>1. PICK i \in 1..(K + M) : rows[i] = x
      BY <2>4, Elements
    <3>2. CASE i <= K
      <4>1. i \in 1..K /\ one[i] = x
        BY <2>4, <2>5, <3>1, <3>2
      <4>q. QED BY <2>1, <4>1, Elements
    <3>3. CASE ~ (i <= K)
      <4>1. i - K \in 1..M /\ more[i - K] = x
        BY <2>4, <2>5, <3>1, <3>3
      <4>q. QED BY <2>2, <4>1, Elements
    <3>q. QED BY <3>2, <3>3
  <2>7. ASSUME NEW x \in ToSet(one) PROVE x \in ToSet(rows)
    <3>1. PICK i \in 1..K : one[i] = x
      BY <2>1, Elements
    <3>2. i \in 1..(K + M) /\ i <= K
      BY <2>5
    <3>3. rows[i] = x
      BY <2>4, <3>1, <3>2
    <3>q. QED BY <2>4, <3>2, <3>3, Elements
  <2>8. ASSUME NEW x \in ToSet(more) PROVE x \in ToSet(rows)
    <3>1. PICK j \in 1..M : more[j] = x
      BY <2>2, Elements
    <3> DEFINE i == K + j
    <3>2. i \in 1..(K + M) /\ ~ (i <= K) /\ i - K = j
      BY <2>5
    <3> HIDE DEF i
    <3>3. rows[i] = x
      BY <2>4, <3>1, <3>2
    <3>q. QED BY <2>4, <3>2, <3>3, Elements
  <2>9. ToSet(rows) = ToSet(one) \union ToSet(more)
    BY <2>6, <2>7, <2>8
  <2>q. QED BY <2>3, <2>9
<1>10. \A r : r \in Active(rows) <=> \E p \in reached : r \in Active(rowsOf[p])
  <2>1. \A p \in reached : p = 1 \/ p = 2 \/ p = 3
    BY <1>8
  <2>2. \A r : (\E p \in reached : r \in Active(rowsOf[p])) <=> r \in Active(one) \/ (2 \in reached /\ r \in Active(two))
    BY <1>3, <1>6, <1>7, <2>1
  <2>3. \A r : r \in Active(rows) <=> r \in Active(one) \/ (2 \in reached /\ r \in Active(two))
    BY <1>9 DEF Active
  <2>q. QED BY <2>2, <2>3
<1>11. ASSUME NEW p \in reached, NEW q \in reached, NEW r \in Active(rowsOf[p]), NEW s \in Active(rowsOf[q]),
              r.target = s.target, r.target # 0
       PROVE  p = q
  <2>1. p \in {1, 2, 3} /\ q \in {1, 2, 3}
    BY <1>8
  <2>2. p # 3 /\ q # 3
    BY <1>6, <1>7
  <2>3. ~ (\E x \in Active(one), y \in Active(two) : x.target = y.target /\ x.target # 0)
    BY DEF TargetsApart, Active
  <2>q. QED BY <1>6, <1>11, <2>1, <2>2, <2>3
<1> HIDE DEF rows
<1>12. ASSUME NEW e \in said.entries
       PROVE  /\ e.target \in {r.target : r \in active}
              /\ (e.status = "authorized") =
                   (AllNamed(active, e.target) # {} /\ \A a \in AllNamed(active, e.target) : status[a] = "authorized")
  <2>1. PICK p \in reached : e \in InProgram(rowsOf[p], status).entries
    BY <1>5
  <2>2. /\ e.target \in {r.target : r \in Active(rowsOf[p])} \ {0}
        /\ e.status = "authorized" <=>
             /\ AllNamed(Active(rowsOf[p]), e.target) # {}
             /\ \A a \in AllNamed(Active(rowsOf[p]), e.target) : status[a] = "authorized"
    BY <1>8, <2>1 DEF ProgramTrue
  <2>3. PICK r \in Active(rowsOf[p]) : r.target = e.target /\ e.target # 0
    BY <2>2
  <2>4. {s \in active : s.target = e.target} = {s \in Active(rowsOf[p]) : s.target = e.target}
    <3>1. ASSUME NEW s \in active, s.target = e.target PROVE s \in Active(rowsOf[p])
      <4>1. PICK q \in reached : s \in Active(rowsOf[q])
        BY <1>10
      <4>2. q = p
        BY <1>11, <2>3, <3>1, <4>1
      <4>q. QED BY <4>1, <4>2
    <3>2. ASSUME NEW s \in Active(rowsOf[p]), s.target = e.target PROVE s \in active
      BY <1>10, <2>3, <3>2
    <3>q. QED BY <3>1, <3>2
  <2>5. AllNamed(active, e.target) = AllNamed(Active(rowsOf[p]), e.target)
    BY <2>4 DEF AllNamed
  <2>6. r \in active
    BY <1>10, <2>3
  <2>7. e.target \in {s.target : s \in active}
    BY <2>3, <2>6
  <2>q. QED BY <2>2, <2>5, <2>7
<1>13. ASSUME NEW r \in active PROVE \E e \in said.entries : e.target = r.target
  <2>1. PICK p \in reached : r \in Active(rowsOf[p])
    BY <1>10
  <2>2. r.target \in {e.target : e \in InProgram(rowsOf[p], status).entries}
    <3>1. r.target \in {s.target : s \in Active(rowsOf[p])} /\ r.target # 0
      BY <2>1
    <3>2. {e.target : e \in InProgram(rowsOf[p], status).entries} = {s.target : s \in Active(rowsOf[p])} \ {0}
      BY <1>8 DEF ProgramTrue
    <3>q. QED BY <3>1, <3>2
  <2>3. InProgram(rowsOf[p], status).entries \subseteq said.entries
    BY <1>5
  <2>q. QED BY <2>2, <2>3
<1> HIDE DEF active
<1>14. {e.target : e \in said.entries} = {r.target : r \in active}
  BY <1>12, <1>13
<1>q. QED BY <1>12, <1>14

(* Of any candidates that fit into a page alone, and of any scans with one  *)
(* live row of a document, whatever the limits: a catalog that is not marked*)
(* truncated is true and complete, its pages are the whole ranking, and the *)
(* balanced ranking lets no band run ahead.                                 *)
THEOREM CatalogHonestAlways ==
  ASSUME NEW E, EntriesFit(E), \A entries \in EntrySets : ListedOnce(entries, E),
         Orders \subseteq OrderNames, Limits \subseteq Nat \ {0},
         NEW R, \A rows \in RowsOfOne \union RowsOfTwo : Scanned(rows, R), \A status \in StatusMaps : StatusesKnown(status),
         \A one \in RowsOfOne, two \in RowsOfTwo : TargetsApart(one, two)
  PROVE  DecisionsSpec => []CatalogHonest
<1>1. DecisionsInit => CatalogHonest
  <2>1. DecisionsInit => asked.what # "targets" /\ asked.what # "pages"
    BY DEF DecisionsInit, Idle
  <2>q. QED BY <2>1 DEF CatalogHonest, CatalogTrue, PagesCoverCatalog, BandsTakeTurns
<1>2. CatalogHonest /\ [DecisionsNext]_<<asked, answer>> => CatalogHonest'
  <2> SUFFICES ASSUME CatalogHonest, [DecisionsNext]_<<asked, answer>> PROVE CatalogHonest'
    OBVIOUS
  <2>1. CASE RankTargets
    <3>1. PICK entries \in EntrySets, order \in Orders, limit \in Limits :
            /\ asked' = [what |-> "pages", entries |-> entries, order |-> order]
            /\ answer' = <<[ranked |-> Rank(entries, order), walked |-> Walk(Rank(entries, order), limit, Len(Rank(entries, order)) + 1)]>>
      BY <2>1, Zenon DEF RankTargets, Ask
    <3> DEFINE ranked == Rank(entries, order)
               n == Cardinality(entries)
    <3>2. ListedOnce(entries, E) /\ order \in OrderNames /\ limit \in Nat \ {0}
      OBVIOUS
    <3>3. RanksAll(ranked, entries, order)
      BY <3>2, RankIsOrder
    <3>4. order = "balanced" => Balanced(ranked)
      BY <3>2, RankIsBalanced
    <3>5. /\ asked'.what = "pages" /\ asked'.entries = entries /\ asked'.order = order
          /\ answer'[1].ranked = ranked /\ answer'[1].walked = Walk(ranked, limit, Len(ranked) + 1)
      BY <3>1
    <3> HIDE DEF ranked
    <3>6. n \in Nat /\ ranked \in [1..n -> entries] /\ \A x \in entries : \E k \in 1..n : ranked[k] = x
      BY <3>3 DEF RanksAll
    <3> HIDE DEF n
    <3>7. ranked \in Seq(E) /\ Len(ranked) = n
      <4>1. ranked \in [1..n -> E]
        BY <3>2, <3>6 DEF ListedOnce
      <4>q. QED BY <3>6, <4>1
    <3>8. Walk(ranked, limit, Len(ranked) + 1) = [seen |-> ranked, next |-> -1]
      <4>1. \A e \in E : e.bytes \in Int /\ e.bytes <= MostReply
        BY DEF EntriesFit
      <4>q. QED BY <3>2, <3>7, <4>1, WalkCoversAll
    <3>9. PagesCoverCatalog'
      <4>1. answer'[1].walked.seen = ranked /\ answer'[1].walked.next = -1
        BY <3>5, <3>8
      <4>q. QED BY <3>5, <4>1 DEF PagesCoverCatalog, Said
    <3>10. ToSet(ranked) = entries
      <4>1. DOMAIN ranked = 1..n
        BY <3>6
      <4>q. QED BY <3>6, <4>1 DEF ToSet
    <3>11. BandsTakeTurns'
      BY <3>4, <3>5, <3>7, <3>10 DEF BandsTakeTurns, Said, n
    <3>12. CatalogTrue'
      BY <3>5 DEF CatalogTrue
    <3>q. QED BY <3>9, <3>11, <3>12 DEF CatalogHonest
  <2>2. CASE ListTargets
    <3>1. PICK programs \in ProgramLists, one \in RowsOfOne, two \in RowsOfTwo, status \in StatusMaps :
            /\ asked' = [what |-> "targets", rows |-> RowsAsked(programs, one, two), status |-> status]
            /\ answer' = <<AcrossPrograms(programs, RowsOfPrograms(one, two), status)>>
      BY <2>2, Zenon DEF ListTargets, Ask, ProgramLists, RowsAsked, RowsOfPrograms
    <3> DEFINE said == AcrossPrograms(programs, RowsOfPrograms(one, two), status)
               rows == RowsAsked(programs, one, two)
    <3>2. CatalogSound(said, rows, status)
      <4>1. Scanned(one, R) /\ Scanned(two, R) /\ StatusesKnown(status)
        OBVIOUS
      <4>2. TargetsApart(one, two)
        OBVIOUS
      <4>q. QED BY <4>1, <4>2, CatalogIsSound
    <3> HIDE DEF said, rows
    <3>3. asked'.what = "targets" /\ asked'.rows = rows /\ asked'.status = status /\ answer'[1] = said
      BY <3>1 DEF said, rows
    <3>4. CatalogTrue'
      <4> DEFINE active == {r \in ToSet(rows) : r.mine /\ r.live /\ r.kind \notin {"scope", "rules"} /\ r.target # 0}
      <4>1. active = {r \in Active(rows) : r.target # 0}
        BY DEF Active
      <4> HIDE DEF active
      <4>2. ~said.truncated =>
              /\ {e.target : e \in said.entries} = {r.target : r \in active}
              /\ \A e \in said.entries :
                   (e.status = "authorized") =
                     (AllNamed(active, e.target) # {} /\ \A a \in AllNamed(active, e.target) : status[a] = "authorized")
        BY <3>2, <4>1 DEF CatalogSound
      <4>q. QED BY <3>3, <4>2 DEF CatalogTrue, Said, AllNamed, active
    <3>5. PagesCoverCatalog' /\ BandsTakeTurns'
      BY <3>3 DEF PagesCoverCatalog, BandsTakeTurns
    <3>q. QED BY <3>4, <3>5 DEF CatalogHonest
  <2>3. CASE \/ CutText \/ CutMarkdown \/ CutBlocks \/ JudgeAssets \/ PublishRules \/ AnswerSearch \/ AnswerContext
             \/ WaitAgain \/ ValidateAll \/ ReportUsage \/ ScoreAnswer \/ Done
    <3> DEFINE other == asked'.what # "targets" /\ asked'.what # "pages"
    <3>1. other
      <4>1. CutText => other
        BY DEF CutText, Ask
      <4>2. CutMarkdown => other
        BY DEF CutMarkdown, Ask
      <4>3. CutBlocks => other
        BY DEF CutBlocks, Ask
      <4>4. JudgeAssets => other
        BY DEF JudgeAssets, Ask
      <4>5. PublishRules => other
        BY DEF PublishRules, Ask
      <4>6. AnswerSearch => other
        BY DEF AnswerSearch, Ask
      <4>7. AnswerContext => other
        BY DEF AnswerContext, Ask
      <4>8. WaitAgain => other
        BY DEF WaitAgain, Ask
      <4>9. ValidateAll => other
        BY DEF ValidateAll, Ask
      <4>10. ReportUsage => other
        BY DEF ReportUsage, Ask
      <4>11. ScoreAnswer => other
        BY DEF ScoreAnswer, Ask
      <4>12. Done => other
        BY DEF Done, Idle
      <4>q. QED BY <2>3, <4>1, <4>2, <4>3, <4>4, <4>5, <4>6, <4>7, <4>8, <4>9, <4>10, <4>11, <4>12
    <3>q. QED BY <3>1 DEF CatalogHonest, CatalogTrue, PagesCoverCatalog, BandsTakeTurns
  <2>4. CASE UNCHANGED <<asked, answer>>
    BY <2>4 DEF CatalogHonest, CatalogTrue, PagesCoverCatalog, BandsTakeTurns, Said
  <2>q. QED BY <2>1, <2>2, <2>3, <2>4 DEF DecisionsNext
<1>q. QED BY <1>1, <1>2, PTL DEF DecisionsSpec
===============================================================================
