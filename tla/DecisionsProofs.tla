----------------------------- MODULE DecisionsProofs -----------------------------
(***************************************************************************)
(* Scope rules: the judgement over an asset is the one the rules mean, and *)
(* a published snapshot is accepted, for every list of rules and every     *)
(* asset.  Chunks: a text that was cut can be joined again, whatever its   *)
(* length, and its sections and blocks are the document's own.  Lists: a   *)
(* sort keeps every element once, a filter their order.  Pages: a client   *)
(* that follows them sees every target once.                               *)
(*                                                                         *)
(* What is defined by recursion over a sequence is handled in two parts:   *)
(* that the recursive function exists, by a smallest set or number for     *)
(* which it would not, and what it computes, by a least place where it     *)
(* would be something else.                                                *)
(***************************************************************************)
EXTENDS Decisions, TLAPS, WellFoundedInduction, FiniteSetTheorems, SequenceTheorems, FunctionTheorems

-------------------------------------------------------------------------------
(* Least elements. *)

(* The numbers 1..n are finitely many.                                      *)
LEMMA IntervalIsFinite ==
  ASSUME NEW n \in Nat
  PROVE  IsFiniteSet(1..n)
<1>1. 1 \in Int /\ n \in Int
  OBVIOUS
<1>q. QED BY <1>1, FS_Interval

(* Of sets of parts of a finite set, one is smallest.                       *)
LEMMA SmallestPart ==
  ASSUME NEW S, IsFiniteSet(S), NEW T, T \subseteq SUBSET S, T # {}
  PROVE  \E x \in T : \A y \in T : y \subseteq x => y = x
<1>1. IsWellFoundedOn(StrictSubsetOrdering(S), SUBSET S)
  BY FS_StrictSubsetOrderingWellFounded, FS_FiniteSubsetsOfFinite
<1>2. \E x \in T : \A y \in T : ~ (<<y, x>> \in StrictSubsetOrdering(S))
  BY <1>1, WFMin
<1>q. QED BY <1>2 DEF StrictSubsetOrdering

(* A set of numbers has a least one.                                        *)
LEMMA LeastNumber ==
  ASSUME NEW T \in SUBSET Nat, T # {}
  PROVE  \E x \in T : \A y \in T : x <= y
<1>1. PICK n \in T : TRUE
  OBVIOUS
<1> DEFINE Below == {1..k : k \in {m \in T : m <= n}}
<1>2. Below \subseteq SUBSET (1..n) /\ Below # {}
  BY <1>1
<1>3. IsFiniteSet(1..n)
  BY <1>1, FS_Interval
<1>4. PICK x \in Below : \A y \in Below : y \subseteq x => y = x
  <2> DEFINE U == 1..n
  <2>1. IsFiniteSet(U) /\ Below \subseteq SUBSET U /\ Below # {}
    BY <1>2, <1>3
  <2> HIDE DEF Below, U
  <2>q. QED BY <2>1, SmallestPart
<1>5. PICK k \in T : k <= n /\ x = 1..k
  BY <1>4
<1>6. ASSUME NEW y \in T PROVE k <= y
  <2> SUFFICES ASSUME y < k PROVE FALSE
    BY <1>6
  <2>1. y \in Nat /\ k \in Nat /\ n \in Nat
    BY <1>1, <1>5, <1>6
  <2>2. 1..y \in Below /\ 1..y \subseteq x
    BY <1>5, <1>6, <2>1
  <2>3. k \in 1..k /\ k \notin 1..y
    BY <2>1
  <2>q. QED BY <1>4, <1>5, <2>2, <2>3
<1>q. QED BY <1>6

(* A part of 1..n that is not empty has a greatest element.                 *)
LEMMA GreatestNumber ==
  ASSUME NEW n \in Nat, NEW S \in SUBSET (1..n), S # {}
  PROVE  Max(S) \in S /\ \A y \in S : y <= Max(S)
<1> DEFINE Bounds == {m \in Nat : \A y \in S : y <= m}
<1>1. n \in Bounds
  OBVIOUS
<1>2. PICK b \in Bounds : \A m \in Bounds : b <= m
  BY <1>1, LeastNumber
<1>3. b \in S
  <2> SUFFICES ASSUME b \notin S PROVE FALSE
    OBVIOUS
  <2>1. PICK y \in S : TRUE
    OBVIOUS
  <2>2. b - 1 \in Bounds
    <3>1. b \in Nat /\ b # 0 /\ \A z \in S : z \in Nat /\ z # b /\ z <= b
      BY <2>1
    <3>q. QED BY <3>1
  <2>q. QED BY <1>2, <2>2
<1>4. \E x \in S : \A y \in S : x >= y
  BY <1>3
<1>5. Max(S) \in S /\ \A y \in S : Max(S) >= y
  BY <1>4, Zenon DEF Max
<1>6. \A y \in S : y \in Nat
  OBVIOUS
<1>q. QED BY <1>5, <1>6

-------------------------------------------------------------------------------
(* The loop over the rules. *)

(* Whether one of the rules at these places excludes, or covers, an asset.  *)
Excluded(rules, asset, s) == \E i \in s : rules[i].action = "exclude" /\ Matches(rules[i].asset, asset)
Touched(rules, asset, s)  == \E i \in s : Matches(rules[i].asset, asset)

Judgement(rules, asset, s) ==
  IF Excluded(rules, asset, s) THEN "exclude"
  ELSE IF Touched(rules, asset, s) THEN "include" ELSE "none"

(* Another rule changes the judgement as the loop of effectiveScopeStatus   *)
(* has it, at whatever place it stands.                                     *)
LEMMA JudgeAnother ==
  ASSUME NEW rules, NEW asset, NEW s, NEW x \in s, rules[x].action \in {"include", "exclude"}
  PROVE  Judge(Judgement(rules, asset, s \ {x}), rules[x], asset) = Judgement(rules, asset, s)
<1>1. Excluded(rules, asset, s) <=> \/ Excluded(rules, asset, s \ {x})
                                    \/ rules[x].action = "exclude" /\ Matches(rules[x].asset, asset)
  BY DEF Excluded
<1>2. Touched(rules, asset, s) <=> Touched(rules, asset, s \ {x}) \/ Matches(rules[x].asset, asset)
  BY DEF Touched
<1>q. QED BY <1>1, <1>2 DEF Judge, Judgement

(* The loop, which stops at an exclusion and otherwise remembers the last   *)
(* rule that covers the asset, judges it by all rules alike: their order    *)
(* does not matter.                                                         *)
LEMMA OrderIsNoMatter ==
  ASSUME NEW R, NEW rules \in Seq(R), NEW asset, \A r \in R : r.action \in {"include", "exclude"}
  PROVE  Verdict(rules, asset) = Judgement(rules, asset, DOMAIN rules)
<1> DEFINE D == DOMAIN rules
           Loop(f) == [s \in SUBSET D |->
                         IF s = {} THEN "none" ELSE LET x == Max(s) IN Judge(f[s \ {x}], rules[x], asset)]
           iter[s \in SUBSET D] ==
             IF s = {} THEN "none" ELSE LET x == Max(s) IN Judge(iter[s \ {x}], rules[x], asset)
           closed == [s \in SUBSET D |-> Judgement(rules, asset, s)]
<1>1. Verdict(rules, asset) = iter[D]
  BY DEF Verdict, FoldLeft, MapThenFoldSet
<1>2. Len(rules) \in Nat /\ D = 1..Len(rules) /\ \A i \in D : rules[i] \in R
  OBVIOUS
<1>3. ASSUME NEW s \in SUBSET D, s # {}
      PROVE  /\ Max(s) \in s /\ s \ {Max(s)} \in SUBSET D /\ s \ {Max(s)} # s
             /\ Judge(Judgement(rules, asset, s \ {Max(s)}), rules[Max(s)], asset) = Judgement(rules, asset, s)
  <2>1. Max(s) \in s
    BY <1>2, <1>3, GreatestNumber
  <2>2. rules[Max(s)].action \in {"include", "exclude"}
    BY <1>2, <2>1
  <2>q. QED BY <2>1, <2>2, JudgeAnother
<1>4. Judgement(rules, asset, {}) = "none"
  BY DEF Judgement, Excluded, Touched
<1>5. closed = Loop(closed)
  <2>1. ASSUME NEW s \in SUBSET D
        PROVE  Judgement(rules, asset, s)
                 = IF s = {} THEN "none" ELSE LET x == Max(s) IN Judge(closed[s \ {x}], rules[x], asset)
    <3>1. CASE s = {}
      BY <1>4, <3>1
    <3>2. CASE s # {}
      <4>1. closed[s \ {Max(s)}] = Judgement(rules, asset, s \ {Max(s)})
        BY <1>3, <3>2
      <4>q. QED BY <1>3, <3>2, <4>1
    <3>q. QED BY <3>1, <3>2
  <2>q. QED BY <2>1
<1>6. iter = Loop(iter)
  <2> HIDE DEF closed
  <2>q. QED BY <1>5, Zenon
<1> HIDE DEF iter
<1>7. \A s \in SUBSET D : iter[s] = closed[s]
  <2> DEFINE Bad == {s \in SUBSET D : iter[s] # closed[s]}
  <2> SUFFICES ASSUME Bad # {} PROVE FALSE
    OBVIOUS
  <2>1. IsFiniteSet(D)
    <3>1. IsFiniteSet(1..Len(rules))
      BY <1>2, IntervalIsFinite, Zenon
    <3>q. QED BY <1>2, <3>1, Zenon
  <2>2. PICK s \in Bad : \A y \in Bad : y \subseteq s => y = s
    <3>1. Bad \subseteq SUBSET D
      OBVIOUS
    <3> HIDE DEF Bad, D
    <3>q. QED BY <2>1, <3>1, SmallestPart
  <2>3. s # {}
    BY <1>4, <1>6
  <2>4. iter[s \ {Max(s)}] = closed[s \ {Max(s)}]
    BY <1>3, <2>2, <2>3
  <2>5. closed[s \ {Max(s)}] = Judgement(rules, asset, s \ {Max(s)})
    BY <1>3, <2>3
  <2>6. iter[s] = Judge(iter[s \ {Max(s)}], rules[Max(s)], asset)
    BY <1>6, <2>3
  <2>q. QED BY <1>3, <2>2, <2>3, <2>4, <2>5, <2>6
<1>q. QED BY <1>1, <1>7

-------------------------------------------------------------------------------
(* Beginnings and ends of sequences. *)

(* A prefix agrees with the sequence as far as it goes.                     *)
LEMMA PrefixAgrees ==
  ASSUME NEW S, NEW s \in Seq(S), NEW t \in Seq(S)
  PROVE  IsPrefix(s, t) <=> Len(s) <= Len(t) /\ \A i \in 1..Len(s) : s[i] = t[i]
<1>1. ASSUME Len(s) <= Len(t)
      PROVE  SubSeq(s, 1, Len(s)) = SubSeq(t, 1, Len(s)) <=> \A i \in 1..Len(s) : s[i] = t[i]
  <2> DEFINE u == SubSeq(s, 1, Len(s))
             v == SubSeq(t, 1, Len(s))
  <2>1. /\ u \in Seq(S) /\ Len(u) = Len(s) /\ \A i \in 1..Len(s) : u[i] = s[i]
        /\ v \in Seq(S) /\ Len(v) = Len(s) /\ \A i \in 1..Len(s) : v[i] = t[i]
    BY <1>1
  <2> HIDE DEF u, v
  <2>2. ASSUME \A i \in 1..Len(s) : s[i] = t[i] PROVE u = v
    <3>1. Len(u) = Len(v) /\ \A i \in 1..Len(u) : u[i] = v[i]
      BY <2>1, <2>2
    <3>q. QED BY <2>1, <3>1, SeqEqual, Zenon
  <2>3. ASSUME u = v PROVE \A i \in 1..Len(s) : s[i] = t[i]
    BY <2>1, <2>3
  <2>q. QED BY <2>2, <2>3 DEF u, v
<1>q. QED BY <1>1 DEF IsPrefix

(* A suffix is what is left after some place.                               *)
LEMMA SuffixAgrees ==
  ASSUME NEW S, NEW s \in Seq(S), NEW t \in Seq(S)
  PROVE  IsSuffix(s, t) <=> Len(s) <= Len(t) /\ SubSeq(t, Len(t) - Len(s) + 1, Len(t)) = s
<1>1. /\ Reverse(s) \in Seq(S) /\ Len(Reverse(s)) = Len(s) /\ \A i \in 1..Len(s) : Reverse(s)[i] = s[Len(s) - i + 1]
      /\ Reverse(t) \in Seq(S) /\ Len(Reverse(t)) = Len(t) /\ \A i \in 1..Len(t) : Reverse(t)[i] = t[Len(t) - i + 1]
  BY DEF Reverse
<1>2. IsSuffix(s, t) <=> Len(s) <= Len(t) /\ \A i \in 1..Len(s) : Reverse(s)[i] = Reverse(t)[i]
  BY <1>1, PrefixAgrees DEF IsSuffix
<1>3. ASSUME Len(s) <= Len(t)
      PROVE  (\A i \in 1..Len(s) : Reverse(s)[i] = Reverse(t)[i])
               <=> SubSeq(t, Len(t) - Len(s) + 1, Len(t)) = s
  <2> DEFINE u == SubSeq(t, Len(t) - Len(s) + 1, Len(t))
  <2>1. /\ u \in Seq(S) /\ Len(u) = Len(s)
        /\ \A i \in 1..Len(s) : u[i] = t[Len(t) - Len(s) + i]
    BY <1>3
  <2> HIDE DEF u
  <2>2. ASSUME \A i \in 1..Len(s) : Reverse(s)[i] = Reverse(t)[i] PROVE u = s
    <3>1. ASSUME NEW i \in 1..Len(s) PROVE u[i] = s[i]
      <4>1. PICK j \in Int : j = Len(s) - i + 1
        BY <1>3
      <4>2. j \in 1..Len(s) /\ j \in 1..Len(t) /\ Len(s) - j + 1 = i /\ Len(t) - j + 1 = Len(t) - Len(s) + i
        BY <1>3, <4>1
      <4>3. Reverse(s)[j] = s[i] /\ Reverse(t)[j] = t[Len(t) - Len(s) + i]
        BY <1>1, <4>2
      <4>q. QED BY <2>1, <2>2, <4>2, <4>3
    <3>2. Len(u) = Len(s) /\ \A i \in 1..Len(u) : u[i] = s[i]
      BY <2>1, <3>1
    <3>q. QED BY <2>1, <3>2, SeqEqual, Zenon
  <2>3. ASSUME u = s, NEW i \in 1..Len(s) PROVE Reverse(s)[i] = Reverse(t)[i]
    <3>1. Len(s) - i + 1 \in 1..Len(s) /\ i \in 1..Len(t)
      BY <1>3
    <3>2. u[Len(s) - i + 1] = t[Len(t) - i + 1]
      BY <1>3, <2>1, <3>1
    <3>q. QED BY <1>1, <2>3, <3>1, <3>2
  <2>q. QED BY <2>2, <2>3 DEF u
<1>q. QED BY <1>2, <1>3

-------------------------------------------------------------------------------
(* What can be written, and its normal form.  L and C are the labels of     *)
(* host names and the characters of paths.                                  *)

Spellings == {"plain", "upper", "dot"}

Written(a, L, C) ==
  \/ \E n \in Seq(L), w \in Spellings : a = WrittenHost(n, w)
  \/ \E n \in Seq(L), w \in Spellings : a = WrittenWildcard(n, w)
  \/ \E n \in Seq(L), w \in Spellings : a = WrittenIP(n, w)
  \/ \E x \in Nat, b \in 0..AddressBits : a = WrittenCIDR(x, b)
  \/ \E h \in {"http", "https"}, n \in Seq(L), p \in Nat, path \in Seq(C), w \in Spellings :
       a = WrittenURL(h, n, p, path, w)

WrittenRule(r, L, C) ==
  \E a : Written(a, L, C) /\ \E action \in {"include", "exclude"} : r = [action |-> action, asset |-> a]

AssetsSpelled(L, C, spellings) ==
  [kind : {"host", "wildcard_domain", "ip", "cidr", "url_prefix"}, name : Seq(L), addr : Nat,
   bits : 0..AddressBits, scheme : {"", "http", "https"}, port : Nat, path : Seq(C), spelling : spellings]

Normal(a, L, C) ==
  /\ a \in AssetsSpelled(L, C, {"plain"})
  /\ a.kind # "cidr" => a.name # <<>>
  /\ a.kind = "cidr" => a.addr % BlockSize(a.bits) = 0
  /\ a.kind = "ip" => a.name \in DOMAIN AddressOf
  /\ a.kind = "url_prefix" => a.path # <<>> /\ a.bits = 0 /\ a.addr = 0
  /\ \A i \in DOMAIN a.path : a.path[i] # " "

\* The characters of paths: among them the slash and what an escape leaves.
PathCharacters(C) == "/" \in C /\ "%20" \in C

(* An asset is made of its fields.                                          *)
LEMMA SpelledFits ==
  ASSUME NEW L, NEW C, NEW W, NEW kind \in {"host", "wildcard_domain", "ip", "cidr", "url_prefix"}, NEW name \in Seq(L),
         NEW addr \in Nat, NEW bits \in 0..AddressBits, NEW scheme \in {"", "http", "https"},
         NEW port \in Nat, NEW path \in Seq(C), NEW spelling \in W
  PROVE  [kind |-> kind, name |-> name, addr |-> addr, bits |-> bits, scheme |-> scheme,
          port |-> port, path |-> path, spelling |-> spelling] \in AssetsSpelled(L, C, W)
  BY DEF AssetsSpelled

(* What is written fits its kind.                                           *)
LEMMA WrittenFits ==
  ASSUME NEW L, NEW C, NEW a, Written(a, L, C)
  PROVE  /\ a \in AssetsSpelled(L, C, Spellings)
         /\ a.kind = "url_prefix" => a.bits = 0 /\ a.addr = 0
         /\ a.kind # "url_prefix" => a.path = <<>>
<1> DEFINE Fits(x) == /\ x \in AssetsSpelled(L, C, Spellings)
                      /\ x.kind = "url_prefix" => x.bits = 0 /\ x.addr = 0
                      /\ x.kind # "url_prefix" => x.path = <<>>
<1>0. 0 \in 0..AddressBits /\ <<>> \in Seq(L) /\ <<>> \in Seq(C) /\ "plain" \in Spellings /\ 0 \in Nat
  BY AddressAssumption, EmptySeq DEF Spellings
<1>1. \A n \in Seq(L), w \in Spellings : Fits(WrittenHost(n, w))
  BY <1>0 DEF WrittenHost, Spelled, AssetsSpelled
<1>2. \A n \in Seq(L), w \in Spellings : Fits(WrittenWildcard(n, w))
  BY <1>0 DEF WrittenWildcard, Spelled, AssetsSpelled
<1>3. \A n \in Seq(L), w \in Spellings : Fits(WrittenIP(n, w))
  BY <1>0 DEF WrittenIP, Spelled, AssetsSpelled
<1>4. \A x \in Nat, b \in 0..AddressBits : Fits(WrittenCIDR(x, b))
  BY <1>0 DEF WrittenCIDR, Spelled, AssetsSpelled
<1>5. \A h \in {"http", "https"}, n \in Seq(L), p \in Nat, path \in Seq(C), w \in Spellings :
        Fits(WrittenURL(h, n, p, path, w))
  <2> SUFFICES ASSUME NEW h \in {"http", "https"}, NEW n \in Seq(L), NEW p \in Nat,
                      NEW path \in Seq(C), NEW w \in Spellings
               PROVE  Fits(WrittenURL(h, n, p, path, w))
    OBVIOUS
  <2>1. WrittenURL(h, n, p, path, w) \in AssetsSpelled(L, C, Spellings)
    BY <1>0 DEF WrittenURL, Spelled, AssetsSpelled
  <2>q. QED BY <2>1 DEF WrittenURL, Spelled
<1>q. QED
  <2> HIDE DEF Fits
  <2>1. Fits(a)
    BY <1>1, <1>2, <1>3, <1>4, <1>5, Zenon DEF Written
  <2>q. QED BY <2>1 DEF Fits

(* The path of one slash.                                                   *)
LEMMA SlashIsPath ==
  ASSUME NEW C, "/" \in C
  PROVE  <<"/">> \in Seq(C) /\ <<"/">> # <<>> /\ \A i \in DOMAIN <<"/">> : <<"/">>[i] = "/"
<1>1. Len(<<"/">>) = 1 /\ Len(<<>>) = 0
  OBVIOUS
<1>2. <<"/">> = [i \in 1..1 |-> "/"]
  OBVIOUS
<1>3. [i \in 1..1 |-> "/"] \in Seq(C)
  OBVIOUS
<1>q. QED BY <1>1, <1>2, <1>3

(* u.String(): an escaped path has as many characters, none of which would  *)
(* be escaped again.                                                        *)
LEMMA EscapedPath ==
  ASSUME NEW C, "%20" \in C, NEW p \in Seq(C)
  PROVE  /\ Escaped(p) \in Seq(C) /\ (p # <<>> => Escaped(p) # <<>>)
         /\ \A i \in DOMAIN Escaped(p) : Escaped(p)[i] # " "
         /\ (\A i \in DOMAIN p : p[i] # " ") => Escaped(p) = p
<1> DEFINE q == [i \in 1..Len(p) |-> IF p[i] = " " THEN "%20" ELSE p[i]]
<1>1. Len(p) \in Nat /\ DOMAIN p = 1..Len(p) /\ \A i \in 1..Len(p) : p[i] \in C
  OBVIOUS
<1>2. Escaped(p) = q
  BY <1>1 DEF Escaped
<1>3. q \in [1..Len(p) -> C] /\ DOMAIN q = 1..Len(p)
  BY <1>1
<1>5. \A i \in 1..Len(p) : q[i] # " " /\ (p[i] # " " => q[i] = p[i])
  OBVIOUS
<1> HIDE DEF q
<1>4. q \in Seq(C) /\ Len(q) = Len(p) /\ DOMAIN q = 1..Len(p)
  BY <1>1, <1>3
<1>6. p # <<>> => q # <<>>
  BY <1>1, <1>4, EmptySeq
<1>7. ASSUME \A i \in DOMAIN p : p[i] # " " PROVE q = p
  <2>1. \A i \in 1..Len(q) : q[i] = p[i]
    BY <1>1, <1>4, <1>5, <1>7
  <2>q. QED BY <1>4, <2>1, SeqEqual
<1>q. QED BY <1>2, <1>4, <1>5, <1>6, <1>7

(* What normalizing changes.                                                *)
LEMMA NormalFields ==
  ASSUME NEW L, NEW C, NEW W, NEW a \in AssetsSpelled(L, C, W), WellFormed(a), PathCharacters(C)
  PROVE  /\ Normalize(a) \in AssetsSpelled(L, C, {"plain"})
         /\ Normalize(a) = [kind |-> a.kind, name |-> a.name, addr |-> a.addr, bits |-> a.bits, scheme |-> a.scheme,
                            port |-> IF a.kind = "url_prefix" /\ a.port = DefaultPort(a.scheme) THEN 0 ELSE a.port,
                            path |-> IF a.kind = "url_prefix" /\ a.path = <<>> THEN <<"/">> ELSE Escaped(a.path),
                            spelling |-> "plain"]
<1> USE DEF AssetsSpelled
<1>1. Normalize(a) = [a EXCEPT !.spelling = "plain",
                               !.port = IF a.kind = "url_prefix" /\ a.port = DefaultPort(a.scheme) THEN 0 ELSE a.port,
                               !.path = IF a.kind = "url_prefix" /\ a.path = <<>> THEN <<"/">> ELSE Escaped(a.path)]
  BY DEF Normalize
<1>2. <<"/">> \in Seq(C) /\ Escaped(a.path) \in Seq(C)
  <2>1. "/" \in C /\ "%20" \in C /\ a.path \in Seq(C)
    BY DEF PathCharacters
  <2>q. QED BY <2>1, SlashIsPath, EscapedPath
<1> DEFINE port == IF a.kind = "url_prefix" /\ a.port = DefaultPort(a.scheme) THEN 0 ELSE a.port
           path == IF a.kind = "url_prefix" /\ a.path = <<>> THEN <<"/">> ELSE Escaped(a.path)
<1>3. port \in Nat /\ path \in Seq(C)
  BY <1>2
<1> HIDE DEF port, path
<1>4. Normalize(a) = [a EXCEPT !.spelling = "plain", !.port = port, !.path = path]
  BY <1>1 DEF port, path
<1>5. Normalize(a) = [kind |-> a.kind, name |-> a.name, addr |-> a.addr, bits |-> a.bits, scheme |-> a.scheme,
                      port |-> port, path |-> path, spelling |-> "plain"]
  BY <1>4
<1>6. Normalize(a) \in AssetsSpelled(L, C, {"plain"})
  <2>1. /\ a.kind \in {"host", "wildcard_domain", "ip", "cidr", "url_prefix"} /\ a.name \in Seq(L)
        /\ a.addr \in Nat /\ a.bits \in 0..AddressBits /\ a.scheme \in {"", "http", "https"}
    OBVIOUS
  <2>2. "plain" \in {"plain"}
    OBVIOUS
  <2> HIDE DEF AssetsSpelled
  <2>3. [kind |-> a.kind, name |-> a.name, addr |-> a.addr, bits |-> a.bits, scheme |-> a.scheme,
         port |-> port, path |-> path, spelling |-> "plain"] \in AssetsSpelled(L, C, {"plain"})
    BY <1>3, <2>1, <2>2, SpelledFits
  <2>q. QED BY <1>5, <2>3
<1>q. QED BY <1>5, <1>6 DEF port, path

(* Normalizing gives the normal form or refuses.                            *)
LEMMA NormalForm ==
  ASSUME NEW L, NEW C, NEW a, Written(a, L, C), Normalize(a) # Invalid, PathCharacters(C)
  PROVE  Normal(Normalize(a), L, C)
<1> DEFINE b == Normalize(a)
<1>1. WellFormed(a) /\ a \in AssetsSpelled(L, C, Spellings) /\ a.path \in Seq(C) /\ a.name \in Seq(L)
  <2>1. WellFormed(a)
    <3> HIDE DEF b
    <3>q. QED BY DEF Normalize
  <2>2. a \in AssetsSpelled(L, C, Spellings)
    <3> HIDE DEF b
    <3>q. QED BY WrittenFits
  <2>3. a.path \in Seq(C) /\ a.name \in Seq(L)
    <3> HIDE DEF b
    <3>q. QED BY <2>2, ZenonT(60) DEF AssetsSpelled
  <2>q. QED BY <2>1, <2>2, <2>3
<1>2. /\ b \in AssetsSpelled(L, C, {"plain"}) /\ b.kind = a.kind /\ b.name = a.name /\ b.addr = a.addr
      /\ b.bits = a.bits /\ b.path = IF a.kind = "url_prefix" /\ a.path = <<>> THEN <<"/">> ELSE Escaped(a.path)
  BY <1>1, NormalFields
<1> HIDE DEF b
<1>3. /\ a.kind \notin {"ip", "cidr"} => a.name # <<>>
      /\ a.kind = "ip" => a.name \in DOMAIN AddressOf
      /\ a.kind = "cidr" => a.addr % BlockSize(a.bits) = 0
  BY <1>1 DEF WellFormed
<1>4. a.kind # "cidr" => a.name # <<>>
  <2>1. a.kind = "ip" => a.name # <<>>
    BY <1>3, AddressAssumption
  <2>q. QED BY <1>3, <2>1
<1>5. /\ b.path = <<"/">> \/ b.path = Escaped(a.path)
      /\ \A i \in DOMAIN b.path : b.path[i] # " "
      /\ b.kind = "url_prefix" => b.path # <<>>
  <2>1. "/" \in C /\ "%20" \in C
    BY DEF PathCharacters
  <2>2. /\ \A i \in DOMAIN Escaped(a.path) : Escaped(a.path)[i] # " "
        /\ a.path # <<>> => Escaped(a.path) # <<>>
    BY <1>1, <2>1, EscapedPath
  <2>3. <<"/">> # <<>> /\ \A i \in DOMAIN <<"/">> : <<"/">>[i] # " "
    BY <2>1, SlashIsPath
  <2>4. CASE a.kind = "url_prefix" /\ a.path = <<>>
    <3>1. b.path = <<"/">>
      BY <1>2, <2>4
    <3>q. QED BY <2>3, <3>1
  <2>5. CASE ~(a.kind = "url_prefix" /\ a.path = <<>>)
    <3>1. b.path = Escaped(a.path)
      BY <1>2, <2>5
    <3>q. QED BY <1>2, <2>2, <2>5, <3>1
  <2>q. QED BY <2>4, <2>5
<1>6. b.kind = "url_prefix" => b.bits = 0 /\ b.addr = 0
  BY <1>2, WrittenFits
<1>7. Normal(b, L, C)
  BY <1>2, <1>3, <1>4, <1>5, <1>6 DEF Normal
<1>q. QED BY <1>7 DEF b

(* The normal form is its own.                                              *)
LEMMA NormalIsNormal ==
  ASSUME NEW L, NEW C, NEW a, Written(a, L, C), Normalize(a) # Invalid, PathCharacters(C)
  PROVE  Normalize(Normalize(a)) = Normalize(a)
<1> DEFINE b == Normalize(a)
<1>1. WellFormed(a) /\ a \in AssetsSpelled(L, C, Spellings) /\ Normal(b, L, C)
  BY WrittenFits, NormalForm DEF Normalize
<1>2. /\ b.kind = a.kind /\ b.name = a.name /\ b.addr = a.addr /\ b.bits = a.bits /\ b.scheme = a.scheme
      /\ b.spelling = "plain" /\ (b.kind = "url_prefix" => b.port # DefaultPort(b.scheme))
  BY <1>1, NormalFields DEF DefaultPort
<1> HIDE DEF b
<1>3. /\ b \in AssetsSpelled(L, C, {"plain"}) /\ (b.kind = "url_prefix" => b.path # <<>>)
      /\ b.path \in Seq(C) /\ \A i \in DOMAIN b.path : b.path[i] # " "
  BY <1>1 DEF Normal, AssetsSpelled
<1>4. WellFormed(b)
  BY <1>1, <1>2 DEF WellFormed, Normal
<1>5. Escaped(b.path) = b.path
  <2>1. "%20" \in C
    BY DEF PathCharacters
  <2>q. QED BY <1>3, <2>1, EscapedPath
<1>6. Normalize(b) = [kind |-> b.kind, name |-> b.name, addr |-> b.addr, bits |-> b.bits, scheme |-> b.scheme,
                      port |-> b.port, path |-> b.path, spelling |-> "plain"]
  BY <1>2, <1>3, <1>4, <1>5, NormalFields
<1>7. b = [kind |-> b.kind, name |-> b.name, addr |-> b.addr, bits |-> b.bits, scheme |-> b.scheme,
           port |-> b.port, path |-> b.path, spelling |-> "plain"]
  BY <1>3 DEF AssetsSpelled
<1>q. QED BY <1>6, <1>7 DEF b
-------------------------------------------------------------------------------
(* Paths and their segments. *)

Increases(c, S) ==
  /\ c \in [1..Cardinality(S) -> S]
  /\ \A i, j \in 1..Cardinality(S) : i < j => c[i] < c[j]

(* A finite set of numbers can be listed in ascending order.                *)
LEMMA AscendingLists ==
  ASSUME NEW n \in Nat, NEW S \in SUBSET (1..n)
  PROVE  Cardinality(S) \in Nat /\ Increases(Ascending(S), S)
<1> DEFINE Bad == {T \in SUBSET (1..n) : ~ \E c : Increases(c, T)}
<1>1. IsFiniteSet(1..n) /\ \A T \in SUBSET (1..n) : IsFiniteSet(T) /\ Cardinality(T) \in Nat
  <2>1. IsFiniteSet(1..n)
    BY IntervalIsFinite
  <2>2. ASSUME NEW T, T \subseteq 1..n PROVE IsFiniteSet(T) /\ Cardinality(T) \in Nat
    BY <2>1, <2>2, FS_Subset, FS_CardinalityType
  <2>q. QED BY <2>1, <2>2
<1>2. Bad = {}
  <2> SUFFICES ASSUME Bad # {} PROVE FALSE
    OBVIOUS
  <2>1. PICK T \in Bad : \A y \in Bad : y \subseteq T => y = T
    <3>1. Bad \subseteq SUBSET (1..n)
      OBVIOUS
    <3> DEFINE U == 1..n
    <3>2. IsFiniteSet(U) /\ Bad \subseteq SUBSET U
      BY <1>1, <3>1
    <3> HIDE DEF Bad, U
    <3>q. QED BY <3>2, SmallestPart
  <2>2. T # {}
    <3> SUFFICES ASSUME T = {} PROVE FALSE
      OBVIOUS
    <3>1. Cardinality(T) = 0
      BY FS_EmptySet
    <3> DEFINE c == [i \in 1..0 |-> i]
    <3>2. Increases(c, T)
      BY <3>1 DEF Increases
    <3> HIDE DEF c
    <3>q. QED BY <3>2
  <2> DEFINE x == Max(T)
             U == T \ {x}
             m == Cardinality(T)
  <2>3. x \in T /\ \A y \in T : y <= x
    BY <2>2, GreatestNumber
  <2> HIDE DEF x
  <2>4. U \in SUBSET (1..n) /\ U # T /\ \A y \in U : y < x
    <3>1. \A y \in T : y \in Nat
      OBVIOUS
    <3>q. QED BY <2>3, <3>1
  <2>5. PICK c : Increases(c, U)
    BY <2>1, <2>4
  <2>6. Cardinality(U) = m - 1 /\ m \in Nat \ {0}
    <3>1. IsFiniteSet(T) /\ m \in Nat
      BY <1>1
    <3>2. Cardinality(U) = m - 1
      BY <2>3, <3>1, FS_RemoveElement
    <3>3. m # 0
      BY <2>2, <3>1, FS_EmptySet
    <3>q. QED BY <3>1, <3>2, <3>3
  <2> DEFINE e == [i \in 1..m |-> IF i = m THEN x ELSE c[i]]
  <2> HIDE DEF U, m
  <2>7. c \in [1..(m - 1) -> U] /\ \A i, j \in 1..(m - 1) : i < j => c[i] < c[j]
    BY <2>5, <2>6 DEF Increases
  <2>8. U \subseteq T /\ T \subseteq 1..n
    BY DEF U
  <2>9. \A i \in 1..m : i # m => i \in 1..(m - 1)
    BY <2>6
  <2>10. e \in [1..m -> T]
    BY <2>3, <2>7, <2>8, <2>9
  <2>11. \A i, j \in 1..m : i < j => e[i] < e[j]
    <3> SUFFICES ASSUME NEW i \in 1..m, NEW j \in 1..m, i < j PROVE e[i] < e[j]
      OBVIOUS
    <3>1. i # m /\ i \in 1..(m - 1) /\ e[i] = c[i] /\ c[i] \in U
      BY <2>6, <2>7
    <3>2. CASE j = m
      BY <2>4, <3>1, <3>2
    <3>3. CASE j # m
      BY <2>7, <2>9, <3>1, <3>3
    <3>q. QED BY <3>2, <3>3
  <2> HIDE DEF e
  <2>q. QED BY <2>1, <2>10, <2>11 DEF Increases, m
<1>3. \E c : Increases(c, S)
  BY <1>2
<1>4. Ascending(S) = CHOOSE c \in [1..Cardinality(S) -> S] : \A i, j \in 1..Cardinality(S) : i < j => c[i] < c[j]
  BY Zenon DEF Ascending
<1>5. Increases(Ascending(S), S)
  BY <1>3, <1>4, Zenon DEF Increases
<1>q. QED BY <1>1, <1>5

(* In such a list, each number stands at the place that counts the numbers  *)
(* up to it.                                                                *)
Below(S, x) == {y \in S : y <= x}

(* The number that stands at place k has k numbers up to it.                *)
LEMMA PlaceCounts ==
  ASSUME NEW n \in Nat, NEW S \in SUBSET (1..n), NEW k \in 1..Cardinality(S)
  PROVE  Cardinality(Below(S, Ascending(S)[k])) = k
<1> DEFINE c == Ascending(S)
           m == Cardinality(S)
           Low == {c[i] : i \in 1..k}
           High == {c[i] : i \in (k + 1)..m}
           B == Below(S, c[k])
<1>1. m \in Nat /\ c \in [1..m -> S] /\ \A i, j \in 1..m : i < j => c[i] < c[j]
  BY AscendingLists DEF Increases
<1>2. IsFiniteSet(S)
  <2>1. IsFiniteSet(1..n)
    BY IntervalIsFinite
  <2>q. QED BY <2>1, FS_Subset
<1>3. S \subseteq Nat
  OBVIOUS
<1>4. k \in Nat /\ k <= m /\ 1 <= k
  BY <1>1
<1> HIDE DEF c, m
<1>5. \A i, j \in 1..m : (i < j => c[i] < c[j]) /\ (c[i] = c[j] => i = j) /\ c[i] \in S /\ c[i] \in Nat
  <2> SUFFICES ASSUME NEW i \in 1..m, NEW j \in 1..m
               PROVE  (i < j => c[i] < c[j]) /\ (c[i] = c[j] => i = j) /\ c[i] \in S /\ c[i] \in Nat
    OBVIOUS
  <2>1. c[i] \in S /\ c[j] \in S /\ (i < j => c[i] < c[j]) /\ (j < i => c[j] < c[i])
    BY <1>1
  <2>2. c[i] \in Nat /\ c[j] \in Nat
    BY <1>3, <2>1
  <2>3. i \in Int /\ j \in Int
    OBVIOUS
  <2>q. QED BY <2>1, <2>2, <2>3
<1>6. Low \subseteq B /\ B \subseteq S /\ High \subseteq S \ B
  <2>1. ASSUME NEW i \in 1..k PROVE c[i] \in B
    <3>1. i \in 1..m /\ k \in 1..m /\ (i < k \/ i = k)
      BY <1>1, <1>4
    <3>2. c[i] \in S /\ c[i] <= c[k]
      BY <1>5, <3>1
    <3>q. QED BY <3>2 DEF Below
  <2>2. ASSUME NEW i \in (k + 1)..m PROVE c[i] \in S \ B
    <3>1. i \in 1..m /\ k \in 1..m /\ k < i
      BY <1>1, <1>4
    <3>2. c[i] \in S /\ c[k] < c[i] /\ c[i] \in Nat /\ c[k] \in Nat
      BY <1>5, <3>1
    <3>q. QED BY <3>2 DEF Below
  <2>q. QED BY <2>1, <2>2 DEF Below
<1>7. Cardinality(Low) = k /\ Cardinality(High) = m - k
  <2>1. ASSUME NEW p \in Nat, NEW q \in Nat, 1 <= p, p <= q + 1, q <= m
        PROVE  Cardinality({c[i] : i \in p..q}) = q - p + 1 /\ IsFiniteSet({c[i] : i \in p..q})
    <3> DEFINE I == p..q
               J == {c[i] : i \in I}
               g == [i \in I |-> c[i]]
    <3>1. IsFiniteSet(I) /\ Cardinality(I) = q - p + 1
      <4>1. IsFiniteSet(I) /\ Cardinality(I) = IF p > q THEN 0 ELSE q - p + 1
        BY FS_Interval
      <4>q. QED BY <2>1, <4>1
    <3>2. g \in Bijection(I, J)
      <4>1. g \in [I -> J] /\ \A y \in J : \E i \in I : g[i] = y
        OBVIOUS
      <4>2. \A i \in I : i \in 1..m
        BY <1>1, <2>1
      <4>3. \A i, j \in I : g[i] = g[j] => i = j
        BY <1>5, <4>2
      <4>q. QED BY <4>1, <4>3, Fun_IsBij
    <3> HIDE DEF g, I, J
    <3>3. IsFiniteSet(J) /\ Cardinality(J) = Cardinality(I)
      BY <3>1, <3>2, FS_Bijection DEF ExistsBijection
    <3>q. QED BY <3>1, <3>3 DEF J, I
  <2>2. Cardinality(Low) = k - 1 + 1
    <3>1. 1 \in Nat /\ 1 <= 1 /\ 1 <= k + 1
      BY <1>4
    <3>q. QED BY <1>4, <2>1, <3>1, Zenon
  <2>3. Cardinality(High) = m - (k + 1) + 1
    <3>1. k + 1 \in Nat /\ 1 <= k + 1 /\ k + 1 <= m + 1 /\ m <= m
      BY <1>1, <1>4
    <3>q. QED BY <1>1, <2>1, <3>1, Zenon
  <2>q. QED BY <1>1, <1>4, <2>2, <2>3
<1>8. /\ IsFiniteSet(B) /\ Cardinality(B) \in Nat
      /\ IsFiniteSet(S \ B) /\ Cardinality(S \ B) \in Nat
      /\ Cardinality(Low) <= Cardinality(B) /\ Cardinality(High) <= Cardinality(S \ B)
      /\ Cardinality(S) = Cardinality(B) + Cardinality(S \ B)
  <2> HIDE DEF Low, High, B
  <2>1. IsFiniteSet(B) /\ IsFiniteSet(S \ B)
    BY <1>2, <1>6, FS_Subset
  <2>2. Cardinality(Low) <= Cardinality(B) /\ Cardinality(High) <= Cardinality(S \ B)
    BY <1>6, <2>1, FS_Subset
  <2>3. S = B \union (S \ B) /\ B \intersect (S \ B) = {}
    BY <1>6
  <2>4. Cardinality(S) = Cardinality(B) + Cardinality(S \ B)
    <3>1. Cardinality(B \union (S \ B)) = Cardinality(B) + Cardinality(S \ B) - Cardinality(B \intersect (S \ B))
      BY <2>1, FS_Union
    <3>2. Cardinality(B \intersect (S \ B)) = 0
      BY <2>3, FS_EmptySet
    <3>3. Cardinality(B) \in Nat /\ Cardinality(S \ B) \in Nat
      BY <2>1, FS_CardinalityType
    <3>4. Cardinality(S) = Cardinality(B) + Cardinality(S \ B) - 0
      BY <2>3, <3>1, <3>2
    <3>q. QED BY <3>3, <3>4
  <2>5. Cardinality(B) \in Nat /\ Cardinality(S \ B) \in Nat
    BY <2>1, FS_CardinalityType
  <2>q. QED BY <2>1, <2>2, <2>4, <2>5
<1>9. Cardinality(B) = k
  <2> HIDE DEF Low, High, B
  <2>q. QED BY <1>1, <1>4, <1>7, <1>8 DEF m
<1>q. QED BY <1>9 DEF c


(* Every number is listed.                                                  *)
LEMMA EachListed ==
  ASSUME NEW n \in Nat, NEW S \in SUBSET (1..n), NEW x \in S
  PROVE  \E k \in 1..Cardinality(S) : Ascending(S)[k] = x
<1> DEFINE c == Ascending(S)
           m == Cardinality(S)
           Listed == {c[i] : i \in 1..m}
<1>1. m \in Nat /\ c \in [1..m -> S] /\ \A i, j \in 1..m : i < j => c[i] < c[j]
  BY AscendingLists DEF Increases
<1>2. IsFiniteSet(S)
  <2>1. IsFiniteSet(1..n)
    BY IntervalIsFinite
  <2>q. QED BY <2>1, FS_Subset
<1> HIDE DEF c, m
<1>3. Listed \subseteq S
  BY <1>1
<1>4. Cardinality(Listed) = m
  <2> DEFINE I == 1..m
             g == [i \in I |-> c[i]]
  <2>1. IsFiniteSet(I) /\ Cardinality(I) = m
    <3>1. IsFiniteSet(I) /\ Cardinality(I) = IF 1 > m THEN 0 ELSE m - 1 + 1
      BY <1>1, FS_Interval
    <3>q. QED BY <1>1, <3>1
  <2>2. \A i, j \in I : g[i] = g[j] => i = j
    <3> SUFFICES ASSUME NEW i \in 1..m, NEW j \in 1..m, c[i] = c[j], i # j PROVE FALSE
      OBVIOUS
    <3>1. c[i] \in S /\ c[j] \in S /\ (i < j => c[i] < c[j]) /\ (j < i => c[j] < c[i])
      BY <1>1
    <3>2. c[i] \in Nat /\ c[j] \in Nat
      <4>1. \A y \in S : y \in Nat
        OBVIOUS
      <4>q. QED BY <3>1, <4>1
    <3>3. i \in Int /\ j \in Int
      OBVIOUS
    <3>q. QED BY <3>1, <3>2, <3>3
  <2>3. g \in [I -> Listed] /\ \A y \in Listed : \E i \in I : g[i] = y
    OBVIOUS
  <2> HIDE DEF g, I, Listed
  <2>4. g \in Bijection(I, Listed)
    BY <2>2, <2>3, Fun_IsBij
  <2>q. QED BY <2>1, <2>4, FS_Bijection DEF ExistsBijection
<1>5. Listed = S
  <2> HIDE DEF Listed
  <2>q. QED BY <1>2, <1>3, <1>4, FS_Subset DEF m
<1>6. PICK k \in 1..m : c[k] = x
  BY <1>5
<1>q. QED BY <1>6 DEF c, m

(* The numbers up to a bound are listed first, as in a list of their own.   *)
LEMMA FirstListed ==
  ASSUME NEW n \in Nat, NEW T \in SUBSET (1..n), NEW bound \in Nat
  PROVE  /\ Cardinality(Below(T, bound)) \in Nat /\ Cardinality(T) \in Nat
         /\ Cardinality(Below(T, bound)) <= Cardinality(T)
         /\ \A k \in 1..Cardinality(Below(T, bound)) : Ascending(Below(T, bound))[k] = Ascending(T)[k]
<1> DEFINE S == Below(T, bound)
<1>1. S \in SUBSET (1..n) /\ S \subseteq T /\ \A x \in T : x \in S <=> x <= bound
  BY DEF Below
<1> HIDE DEF S
<1>2. /\ Cardinality(S) \in Nat /\ Increases(Ascending(S), S)
      /\ Cardinality(T) \in Nat /\ Increases(Ascending(T), T)
  BY <1>1, AscendingLists
<1>3. IsFiniteSet(T)
  <2>1. IsFiniteSet(1..n)
    BY IntervalIsFinite
  <2>q. QED BY <2>1, FS_Subset
<1>4. Cardinality(S) <= Cardinality(T)
  BY <1>1, <1>3, FS_Subset
<1>5. ASSUME NEW x \in T PROVE \E k \in 1..Cardinality(T) : Ascending(T)[k] = x
  BY <1>5, EachListed
<1>6. ASSUME NEW k \in 1..Cardinality(S) PROVE Ascending(S)[k] = Ascending(T)[k]
  <2>1. Ascending(S)[k] \in S
    BY <1>2 DEF Increases
  <2>2. PICK i \in 1..Cardinality(T) : Ascending(T)[i] = Ascending(S)[k]
    BY <1>1, <1>5, <2>1
  <2>3. Below(S, Ascending(S)[k]) = Below(T, Ascending(S)[k])
    <3>1. Ascending(S)[k] \in Nat /\ Ascending(S)[k] <= bound /\ \A y \in T : y \in Nat
      <4>1. \A y \in T : y \in Nat
        OBVIOUS
      <4>q. QED BY <1>1, <2>1, <4>1
    <3> DEFINE x == Ascending(S)[k]
    <3> HIDE DEF x
    <3>2. \A y \in T : y <= x => y \in S
      <4> SUFFICES ASSUME NEW y \in T, y <= x PROVE y \in S
        OBVIOUS
      <4>1. y \in Nat /\ x \in Nat /\ x <= bound
        BY <3>1 DEF x
      <4>2. y <= bound
        BY <4>1
      <4>q. QED BY <1>1, <4>2
    <3>q. QED BY <1>1, <3>2 DEF Below, x
  <2>4. Cardinality(Below(S, Ascending(S)[k])) = k /\ Cardinality(Below(T, Ascending(T)[i])) = i
    BY <1>1, PlaceCounts
  <2>q. QED BY <2>2, <2>3, <2>4
<1>q. QED BY <1>2, <1>4, <1>6 DEF S

(* Where the pieces of a path end.                                          *)
Stop(p, n) == IF n = 0 THEN 0 ELSE Ascending(Cuts(p))[n]

(* The pieces lie between one cut and the next, and the last ends the path. *)
LEMMA StopsOf ==
  ASSUME NEW C, NEW p \in Seq(C), NEW m, m = Cardinality(Cuts(p))
  PROVE  /\ m \in Nat \ {0} /\ Stop(p, 0) = 0 /\ Stop(p, m) = Len(p) + 1
         /\ \A n \in 1..m : /\ Stop(p, n) \in Cuts(p) /\ Stop(p, n) \in 1..(Len(p) + 1)
                            /\ Stop(p, n - 1) \in Nat /\ Stop(p, n - 1) < Stop(p, n)
         /\ \A x \in Cuts(p) : \E n \in 1..m : Stop(p, n) = x
<1> DEFINE S == Cuts(p)
           c == Ascending(S)
           top == Len(p) + 1
<1>1. S \in SUBSET (1..top) /\ top \in S /\ Len(p) \in Nat /\ top \in Nat
  BY DEF Cuts
<1> HIDE DEF S, top
<1>2. m \in Nat /\ c \in [1..m -> S] /\ \A i, j \in 1..m : i < j => c[i] < c[j]
  BY <1>1, AscendingLists DEF Increases, S
<1>3. \A x \in S : \E n \in 1..m : c[n] = x
  BY <1>1, EachListed DEF S
<1> HIDE DEF c
<1>4. \A n \in 1..m : c[n] \in S /\ c[n] \in 1..top
  BY <1>1, <1>2
<1>5. m # 0 /\ c[m] = top
  <2>1. PICK n \in 1..m : c[n] = top
    BY <1>1, <1>3
  <2>2. n = m
    <3> SUFFICES ASSUME n < m PROVE FALSE
      BY <1>2, <2>1
    <3>1. c[n] < c[m]
      BY <1>2
    <3>q. QED BY <1>1, <1>2, <1>4, <2>1, <3>1
  <2>q. QED BY <1>2, <2>1, <2>2
<1>6. \A n \in 1..m : Stop(p, n) = c[n]
  BY <1>2 DEF Stop, c, S
<1>7. ASSUME NEW n \in 1..m PROVE Stop(p, n - 1) \in Nat /\ Stop(p, n - 1) < Stop(p, n)
  <2>1. CASE n = 1
    BY <1>1, <1>4, <1>6, <2>1 DEF Stop
  <2>2. CASE n # 1
    <3>1. n - 1 \in 1..m /\ n - 1 < n
      BY <1>2, <2>2
    <3>2. Stop(p, n - 1) = c[n - 1] /\ Stop(p, n) = c[n] /\ c[n - 1] < c[n]
      BY <1>2, <1>6, <3>1
    <3>q. QED BY <1>1, <1>4, <3>1, <3>2
  <2>q. QED BY <2>1, <2>2
<1>8. Stop(p, 0) = 0
  BY DEF Stop
<1>9. m \in 1..m
  BY <1>2, <1>5
<1>q. QED BY <1>2, <1>3, <1>4, <1>5, <1>6, <1>7, <1>8, <1>9 DEF S, top

(* What a piece of a path is.                                               *)
LEMMA PiecesOf ==
  ASSUME NEW C, NEW p \in Seq(C), NEW m, m = Cardinality(Cuts(p))
  PROVE  /\ Pieces(p) \in Seq(Seq(C)) /\ Len(Pieces(p)) = m
         /\ \A n \in 1..m : /\ Pieces(p)[n] \in Seq(C)
                            /\ Len(Pieces(p)[n]) = Stop(p, n) - Stop(p, n - 1) - 1
                            /\ \A i \in 1..(Stop(p, n) - Stop(p, n - 1) - 1) : Pieces(p)[n][i] = p[Stop(p, n - 1) + i]
<1>1. m \in Nat /\ Len(p) \in Nat
  BY StopsOf
<1>2. Pieces(p) = [n \in 1..m |-> SubSeq(p, Stop(p, n - 1) + 1, Stop(p, n) - 1)]
  <2>1. \A n \in 1..m : Stop(p, n) = Ascending(Cuts(p))[n]
    BY <1>1 DEF Stop
  <2>2. \A n \in 1..m : Stop(p, n - 1) = IF n = 1 THEN 0 ELSE Ascending(Cuts(p))[n - 1]
    BY <1>1 DEF Stop
  <2>q. QED BY <2>1, <2>2 DEF Pieces
<1>3. ASSUME NEW n \in 1..m
      PROVE  /\ Pieces(p)[n] \in Seq(C)
             /\ Len(Pieces(p)[n]) = Stop(p, n) - Stop(p, n - 1) - 1
             /\ \A i \in 1..(Stop(p, n) - Stop(p, n - 1) - 1) : Pieces(p)[n][i] = p[Stop(p, n - 1) + i]
  <2> DEFINE from == Stop(p, n - 1)
             to == Stop(p, n)
  <2>1. from \in Nat /\ to \in 1..(Len(p) + 1) /\ from < to
    BY StopsOf
  <2>2. Pieces(p)[n] = SubSeq(p, from + 1, to - 1)
    BY <1>2
  <2> HIDE DEF from, to
  <2>3. /\ SubSeq(p, from + 1, to - 1) \in Seq(C) /\ Len(SubSeq(p, from + 1, to - 1)) = to - from - 1
        /\ \A i \in 1..(to - from - 1) : SubSeq(p, from + 1, to - 1)[i] = p[from + i]
    BY <1>1, <2>1
  <2>q. QED BY <2>2, <2>3 DEF from, to
<1>4. Pieces(p) \in [1..m -> Seq(C)]
  BY <1>2, <1>3
<1>5. Pieces(p) \in Seq(Seq(C)) /\ Len(Pieces(p)) = m
  BY <1>1, <1>4
<1>q. QED BY <1>3, <1>5

(* Of two paths that begin with the same cuts, the pieces up to there are   *)
(* the same.                                                                *)
LEMMA SamePieces ==
  ASSUME NEW C, NEW a \in Seq(C), NEW b \in Seq(C), NEW k \in Nat,
         k <= Cardinality(Cuts(a)), k <= Cardinality(Cuts(b)),
         \A n \in 1..k : Stop(a, n) = Stop(b, n),
         \A n \in 1..k : \A i \in 1..(Stop(a, n) - 1) : a[i] = b[i]
  PROVE  \A n \in 1..k : Pieces(a)[n] = Pieces(b)[n]
<1> SUFFICES ASSUME NEW n \in 1..k PROVE Pieces(a)[n] = Pieces(b)[n]
  OBVIOUS
<1> DEFINE u == Pieces(a)[n]
           v == Pieces(b)[n]
           from == Stop(a, n - 1)
           to == Stop(a, n)
<1>1. n \in 1..Cardinality(Cuts(a)) /\ n \in 1..Cardinality(Cuts(b)) /\ n \in Nat
  BY StopsOf
<1>2. from \in Nat /\ to \in Nat /\ from < to
  BY <1>1, StopsOf
<1>3. Stop(b, n) = to /\ Stop(b, n - 1) = from
  <2>1. CASE n = 1
    BY <2>1 DEF Stop
  <2>2. CASE n # 1
    BY <1>1, <2>2
  <2>q. QED BY <2>1, <2>2
<1>4. /\ u \in Seq(C) /\ Len(u) = to - from - 1 /\ \A i \in 1..(to - from - 1) : u[i] = a[from + i]
      /\ v \in Seq(C) /\ Len(v) = to - from - 1 /\ \A i \in 1..(to - from - 1) : v[i] = b[from + i]
  BY <1>1, <1>3, PiecesOf
<1>5. \A i \in 1..(to - 1) : a[i] = b[i]
  OBVIOUS
<1> HIDE DEF u, v, from, to
<1>6. \A i \in 1..(to - from - 1) : u[i] = v[i]
  <2> SUFFICES ASSUME NEW i \in 1..(to - from - 1) PROVE u[i] = v[i]
    OBVIOUS
  <2>1. from + i \in 1..(to - 1)
    BY <1>2
  <2>q. QED BY <1>4, <1>5, <2>1
<1>7. Len(u) = Len(v) /\ \A i \in 1..Len(u) : u[i] = v[i]
  BY <1>4, <1>6
<1>8. u = v
  BY <1>4, <1>7, SeqEqual, Zenon
<1>q. QED BY <1>8 DEF u, v

(* The cuts of a path that goes on after another with a slash.              *)
LEMMA CutsOfBeginning ==
  ASSUME NEW C, NEW a \in Seq(C), NEW b \in Seq(C), Len(a) < Len(b), b[Len(a) + 1] = "/",
         \A i \in 1..Len(a) : a[i] = b[i]
  PROVE  Cuts(a) = {x \in Cuts(b) : x <= Len(a) + 1}
<1>1. Len(a) \in Nat /\ Len(b) \in Nat /\ DOMAIN a = 1..Len(a) /\ DOMAIN b = 1..Len(b)
  OBVIOUS
<1>2. ASSUME NEW x \in Cuts(a) PROVE x \in Cuts(b) /\ x <= Len(a) + 1
  <2>1. CASE x = Len(a) + 1
    BY <1>1, <2>1 DEF Cuts
  <2>2. CASE x # Len(a) + 1
    <3>1. x \in 1..Len(a) /\ a[x] = "/"
      BY <1>1, <2>2 DEF Cuts
    <3>q. QED BY <1>1, <3>1 DEF Cuts
  <2>q. QED BY <2>1, <2>2
<1>3. ASSUME NEW x \in Cuts(b), x <= Len(a) + 1 PROVE x \in Cuts(a)
  <2>1. x \in 1..Len(b) /\ b[x] = "/"
    BY <1>1, <1>3 DEF Cuts
  <2>2. CASE x = Len(a) + 1
    BY <2>2 DEF Cuts
  <2>3. CASE x # Len(a) + 1
    BY <1>1, <1>3, <2>1, <2>3 DEF Cuts
  <2>q. QED BY <2>2, <2>3
<1>q. QED BY <1>2, <1>3

(* Then the pieces of the one are the first of the other.                   *)
LEMMA BeginningPieces ==
  ASSUME NEW C, NEW a \in Seq(C), NEW b \in Seq(C), Len(a) < Len(b), b[Len(a) + 1] = "/",
         \A i \in 1..Len(a) : a[i] = b[i]
  PROVE  /\ Cardinality(Cuts(a)) <= Cardinality(Cuts(b))
         /\ \A n \in 1..Cardinality(Cuts(a)) : Stop(a, n) = Stop(b, n) /\ Pieces(a)[n] = Pieces(b)[n]
<1> DEFINE S == Cuts(a)
           T == Cuts(b)
           top == Len(b) + 1
           bound == Len(a) + 1
<1>1. T \in SUBSET (1..top) /\ top \in Nat /\ bound \in Nat
  BY DEF Cuts
<1>2. S = Below(T, bound)
  BY CutsOfBeginning DEF Below
<1>3. S \in SUBSET (1..bound) /\ Len(a) \in Nat /\ \A n \in 1..Cardinality(S) : Stop(a, n) \in 1..bound
  BY StopsOf DEF Cuts
<1> HIDE DEF S, T, top, bound
<1>4. /\ Cardinality(S) \in Nat /\ Cardinality(T) \in Nat /\ Cardinality(S) <= Cardinality(T)
      /\ \A k \in 1..Cardinality(S) : Ascending(S)[k] = Ascending(T)[k]
  BY <1>1, <1>2, FirstListed
<1>5. \A n \in 1..Cardinality(S) : Stop(a, n) = Stop(b, n)
  BY <1>4 DEF Stop, S, T
<1>6. \A n \in 1..Cardinality(S) : \A i \in 1..(Stop(a, n) - 1) : a[i] = b[i]
  BY <1>3 DEF bound
<1>7. \A n \in 1..Cardinality(S) : Pieces(a)[n] = Pieces(b)[n]
  <2> DEFINE k == Cardinality(S)
  <2>1. /\ k \in Nat /\ k <= Cardinality(Cuts(a)) /\ k <= Cardinality(Cuts(b))
        /\ \A n \in 1..k : Stop(a, n) = Stop(b, n)
        /\ \A n \in 1..k : \A i \in 1..(Stop(a, n) - 1) : a[i] = b[i]
    BY <1>4, <1>5, <1>6 DEF S, T
  <2> HIDE DEF k
  <2>2. \A n \in 1..k : Pieces(a)[n] = Pieces(b)[n]
    BY <2>1, SamePieces, Zenon
  <2>q. QED BY <2>2 DEF k
<1>q. QED BY <1>4, <1>5, <1>7 DEF S, T
(* Every place of a path is in a piece or is the cut that ends one.         *)
LEMMA StopsDivide ==
  ASSUME NEW C, NEW p \in Seq(C), NEW i \in 1..Len(p)
  PROVE  \E n \in 1..Cardinality(Cuts(p)) : Stop(p, n - 1) < i /\ i <= Stop(p, n)
<1> DEFINE m == Cardinality(Cuts(p))
           After == {n \in 1..m : i <= Stop(p, n)}
<1>1. m \in Nat \ {0} /\ Stop(p, 0) = 0 /\ Stop(p, m) = Len(p) + 1 /\ Len(p) \in Nat
  BY StopsOf
<1>2. \A n \in 1..m : Stop(p, n) \in Nat
  BY StopsOf
<1> HIDE DEF m
<1>3. m \in After /\ After \subseteq Nat
  BY <1>1
<1>4. PICK n \in After : \A k \in After : n <= k
  BY <1>3, LeastNumber
<1>5. Stop(p, n - 1) < i
  <2>1. CASE n = 1
    BY <1>1, <2>1
  <2>2. CASE n # 1
    <3>1. n - 1 \in 1..m /\ n \in Nat
      BY <1>1, <2>2
    <3>2. n - 1 \notin After
      BY <1>4, <3>1
    <3>3. Stop(p, n - 1) \in Nat /\ ~ i <= Stop(p, n - 1)
      BY <1>2, <3>1, <3>2
    <3>q. QED BY <3>3
  <2>q. QED BY <2>1, <2>2
<1>q. QED BY <1>4, <1>5 DEF m

(* If the pieces of a path are the first of another's, they end at the same *)
(* places.                                                                  *)
LEMMA SameStops ==
  ASSUME NEW C, NEW a \in Seq(C), NEW b \in Seq(C), Cardinality(Cuts(a)) <= Cardinality(Cuts(b)),
         \A n \in 1..Cardinality(Cuts(a)) : Pieces(a)[n] = Pieces(b)[n]
  PROVE  \A n \in 1..Cardinality(Cuts(a)) : Stop(a, n) = Stop(b, n)
<1> DEFINE m == Cardinality(Cuts(a))
           Bad == {n \in 1..m : Stop(a, n) # Stop(b, n)}
<1>1. m \in Nat /\ Stop(a, 0) = 0 /\ Stop(b, 0) = 0
  BY StopsOf
<1>2. ASSUME NEW n \in 1..m, Stop(a, n - 1) = Stop(b, n - 1) PROVE Stop(a, n) = Stop(b, n)
  <2>1. n \in 1..Cardinality(Cuts(b))
    BY <1>1, StopsOf
  <2>2. /\ Len(Pieces(a)[n]) = Stop(a, n) - Stop(a, n - 1) - 1
        /\ Len(Pieces(b)[n]) = Stop(b, n) - Stop(b, n - 1) - 1
    BY <2>1, PiecesOf
  <2>3. Stop(a, n) \in Nat /\ Stop(a, n - 1) \in Nat
    <3>1. Stop(a, n) \in 1..(Len(a) + 1) /\ Stop(a, n - 1) \in Nat
      BY StopsOf
    <3>q. QED BY <3>1
  <2>4. Stop(b, n) \in Nat
    <3>1. Stop(b, n) \in 1..(Len(b) + 1)
      BY <2>1, StopsOf
    <3>q. QED BY <3>1
  <2>q. QED BY <1>2, <2>2, <2>3, <2>4
<1>3. Bad = {}
  <2> SUFFICES ASSUME Bad # {} PROVE FALSE
    OBVIOUS
  <2>1. Bad \subseteq Nat
    OBVIOUS
  <2>2. PICK n \in Bad : \A k \in Bad : n <= k
    BY <2>1, LeastNumber
  <2>3. CASE n = 1
    BY <1>1, <1>2, <2>2, <2>3
  <2>4. CASE n # 1
    <3>1. n - 1 \in 1..m /\ ~ n <= n - 1
      BY <1>1, <2>4
    <3>2. n - 1 \notin Bad
      BY <2>2, <3>1
    <3>q. QED BY <1>2, <2>2, <3>1, <3>2
  <2>q. QED BY <2>3, <2>4
<1>q. QED BY <1>3

(* A path is another, or goes on after it with a slash, if and only if the  *)
(* pieces of the one are the first of the other's.                          *)
LEMMA PathIsPieces ==
  ASSUME NEW C, NEW a \in Seq(C), NEW b \in Seq(C), "/" \in C
  PROVE  b = a \/ IsPrefix(Append(a, "/"), b) <=> IsPrefix(Pieces(a), Pieces(b))
<1> DEFINE m == Cardinality(Cuts(a))
           k == Cardinality(Cuts(b))
<1>1. /\ m \in Nat \ {0} /\ k \in Nat \ {0} /\ Len(a) \in Nat /\ Len(b) \in Nat
      /\ Stop(a, m) = Len(a) + 1 /\ Stop(b, k) = Len(b) + 1
  BY StopsOf
<1>2. IsPrefix(Pieces(a), Pieces(b)) <=> m <= k /\ \A n \in 1..m : Pieces(a)[n] = Pieces(b)[n]
  <2>1. /\ Pieces(a) \in Seq(Seq(C)) /\ Len(Pieces(a)) = m
        /\ Pieces(b) \in Seq(Seq(C)) /\ Len(Pieces(b)) = k
    BY PiecesOf
  <2> HIDE DEF m, k
  <2>q. QED BY <2>1, PrefixAgrees
<1>3. IsPrefix(Append(a, "/"), b) <=> /\ Len(a) < Len(b) /\ b[Len(a) + 1] = "/"
                                      /\ \A i \in 1..Len(a) : a[i] = b[i]
  <2> DEFINE s == Append(a, "/")
  <2>1. s \in Seq(C) /\ Len(s) = Len(a) + 1 /\ s[Len(a) + 1] = "/" /\ \A i \in 1..Len(a) : s[i] = a[i]
    OBVIOUS
  <2> HIDE DEF s
  <2>2. IsPrefix(s, b) <=> Len(s) <= Len(b) /\ \A i \in 1..Len(s) : s[i] = b[i]
    BY <2>1, PrefixAgrees
  <2>3. (\A i \in 1..(Len(a) + 1) : s[i] = b[i]) <=> s[Len(a) + 1] = b[Len(a) + 1] /\ \A i \in 1..Len(a) : s[i] = b[i]
    <3>1. \A i \in 1..(Len(a) + 1) : i \in 1..Len(a) \/ i = Len(a) + 1
      BY <1>1
    <3>2. Len(a) + 1 \in 1..(Len(a) + 1) /\ \A i \in 1..Len(a) : i \in 1..(Len(a) + 1)
      BY <1>1
    <3>q. QED BY <3>1, <3>2
  <2>q. QED BY <1>1, <2>1, <2>2, <2>3 DEF s
<1>4. ASSUME Len(a) < Len(b), b[Len(a) + 1] = "/", \A i \in 1..Len(a) : a[i] = b[i]
      PROVE  m <= k /\ \A n \in 1..m : Pieces(a)[n] = Pieces(b)[n]
  BY <1>4, BeginningPieces
<1>5. ASSUME m <= k, \A n \in 1..m : Pieces(a)[n] = Pieces(b)[n]
      PROVE  b = a \/ IsPrefix(Append(a, "/"), b)
  <2>1. \A n \in 1..m : Stop(a, n) = Stop(b, n)
    BY <1>5, SameStops
  <2>2. ASSUME NEW i \in 1..Len(a) PROVE i <= Len(b) /\ a[i] = b[i]
    <3>1. PICK n \in 1..m : Stop(a, n - 1) < i /\ i <= Stop(a, n)
      BY StopsDivide
    <3>2. n \in 1..k
      BY <1>1, <1>5
    <3>3. /\ Stop(a, n) = Stop(b, n) /\ Stop(a, n) \in Nat /\ Stop(a, n) \in Cuts(a) /\ Stop(b, n) \in Cuts(b)
          /\ Stop(a, n - 1) \in Nat
      BY <2>1, <3>2, StopsOf
    <3>4. Stop(a, n - 1) = Stop(b, n - 1)
      <4>1. CASE n = 1
        BY <4>1 DEF Stop
      <4>2. CASE n # 1
        <5>1. n - 1 \in 1..m
          BY <1>1, <4>2
        <5>q. QED BY <2>1, <5>1
      <4>q. QED BY <4>1, <4>2
    <3>5. CASE i = Stop(a, n)
      <4>1. a[i] = "/"
        BY <1>1, <3>3, <3>5 DEF Cuts
      <4>2. n # m
        BY <1>1, <3>5
      <4>3. Stop(b, n) # Len(b) + 1
        <5>1. n \in 1..m /\ m \in 1..k /\ n < m
          BY <1>1, <1>5, <4>2
        <5>2. Stop(b, m) = Len(a) + 1 /\ Stop(b, m) \in 1..(Len(b) + 1)
          BY <1>1, <2>1, <5>1, StopsOf
        <5>q. QED BY <1>1, <3>3, <3>5, <5>2
      <4>4. i \in 1..Len(b) /\ b[i] = "/"
        BY <1>1, <3>3, <3>5, <4>3 DEF Cuts
      <4>q. QED BY <4>1, <4>4
    <3>6. CASE i # Stop(a, n)
      <4>1. Stop(b, n) <= Len(b) + 1
        BY <3>2, StopsOf
      <4> DEFINE j == i - Stop(a, n - 1)
      <4>2. j \in 1..(Stop(a, n) - Stop(a, n - 1) - 1) /\ Stop(a, n - 1) + j = i /\ i <= Len(b)
        BY <1>1, <3>1, <3>3, <3>6, <4>1
      <4> HIDE DEF j
      <4>3. Pieces(a)[n][j] = a[Stop(a, n - 1) + j]
        BY <4>2, PiecesOf
      <4>4. Pieces(b)[n][j] = b[Stop(b, n - 1) + j]
        BY <3>2, <3>3, <3>4, <4>2, PiecesOf
      <4>q. QED BY <1>5, <3>4, <4>2, <4>3, <4>4
    <3>q. QED BY <3>5, <3>6
  <2>3. m \in 1..k /\ Stop(b, m) = Len(a) + 1
    BY <1>1, <1>5, <2>1
  <2>4. Len(a) + 1 \in Cuts(b) /\ Len(a) + 1 \in 1..(Len(b) + 1)
    BY <2>3, StopsOf
  <2>5. CASE Len(a) = Len(b)
    <3>1. Len(a) = Len(b) /\ \A i \in 1..Len(a) : a[i] = b[i]
      BY <2>2, <2>5
    <3>2. a = b
      BY <3>1, SeqEqual, Zenon
    <3>q. QED BY <3>2
  <2>6. CASE Len(a) # Len(b)
    <3>1. Len(a) < Len(b)
      BY <1>1, <2>4, <2>6
    <3>2. b[Len(a) + 1] = "/"
      BY <1>1, <2>4, <2>6 DEF Cuts
    <3>q. QED BY <1>3, <2>2, <3>1, <3>2
  <2>q. QED BY <2>5, <2>6
<1>6. ASSUME b = a PROVE m <= k /\ \A n \in 1..m : Pieces(a)[n] = Pieces(b)[n]
  BY <1>1, <1>6
<1>q. QED BY <1>2, <1>3, <1>4, <1>5, <1>6
(* Without its trailing slash, a path has the segments of the path for its  *)
(* pieces.                                                                  *)
LEMMA SegmentsArePieces ==
  ASSUME NEW C, NEW p \in Seq(C), p # <<>>, "/" \in C
  PROVE  Trimmed(p) \in Seq(C) /\ Segments(p) = Pieces(Trimmed(p))
<1> DEFINE m == Cardinality(Cuts(p))
           all == Pieces(p)
<1>1. /\ m \in Nat \ {0} /\ Len(p) \in Nat \ {0} /\ Stop(p, m) = Len(p) + 1 /\ DOMAIN p = 1..Len(p)
      /\ all \in Seq(Seq(C)) /\ Len(all) = m
  <2>1. Len(p) # 0
    BY EmptySeq
  <2>q. QED BY <2>1, StopsOf, PiecesOf
<1>2. CASE p[Len(p)] = "/"
  <2> DEFINE f == SubSeq(p, 1, Len(p) - 1)
             k == Cardinality(Cuts(f))
  <2>1. Trimmed(p) = f
    BY <1>2 DEF Trimmed, Last, Front
  <2>2. f \in Seq(C) /\ Len(f) = Len(p) - 1 /\ \A i \in 1..Len(f) : f[i] = p[i]
    BY <1>1
  <2> HIDE DEF f
  <2>3. /\ k <= m /\ \A n \in 1..k : Stop(f, n) = Stop(p, n) /\ Pieces(f)[n] = all[n]
    <3>1. Len(f) < Len(p) /\ p[Len(f) + 1] = "/"
      BY <1>1, <1>2, <2>2
    <3>q. QED BY <2>2, <3>1, BeginningPieces
  <2>4. k \in Nat \ {0} /\ Stop(f, k) = Len(p) /\ Pieces(f) \in Seq(Seq(C)) /\ Len(Pieces(f)) = k
    BY <1>1, <2>2, StopsOf, PiecesOf
  <2>5. k = m - 1
    <3>1. k # m
      BY <1>1, <2>3, <2>4
    <3>2. k < m
      BY <1>1, <2>3, <2>4, <3>1
    <3>3. CASE k < m - 1
      <4>1. k \in 1..m /\ k + 1 \in 1..m /\ k + 2 \in 1..m
        BY <1>1, <2>4, <3>3
      <4>2. Stop(p, k) < Stop(p, k + 1) /\ Stop(p, k + 1) < Stop(p, k + 2) /\ Stop(p, k + 2) \in 1..(Len(p) + 1)
        <5>1. k + 1 - 1 = k /\ k + 2 - 1 = k + 1
          BY <2>4
        <5>q. QED BY <4>1, <5>1, StopsOf
      <4>3. Stop(p, k) = Len(p)
        <5>1. k \in 1..k
          BY <2>4
        <5>q. QED BY <2>3, <2>4, <5>1
      <4>4. Stop(p, k + 1) \in 1..(Len(p) + 1)
        BY <4>1, StopsOf
      <4>q. QED BY <1>1, <4>2, <4>3, <4>4
    <3>q. QED BY <1>1, <2>4, <3>2, <3>3
  <2>6. Last(all) = <<>>
    <3>1. Len(all[m]) = Stop(p, m) - Stop(p, m - 1) - 1 /\ all[m] \in Seq(C)
      BY <1>1, PiecesOf
    <3>2. Stop(p, m - 1) = Len(p)
      <4>1. k \in 1..k
        BY <2>4
      <4>2. Stop(p, k) = Len(p)
        BY <2>3, <2>4, <4>1
      <4>q. QED BY <2>5, <4>2
    <3>3. Len(all[m]) = 0
      BY <1>1, <3>1, <3>2
    <3>4. all[m] = <<>>
      BY <3>1, <3>3, EmptySeq
    <3>q. QED BY <1>1, <3>4 DEF Last
  <2>7. Len(all) > 1
    BY <1>1, <2>4, <2>5
  <2>8. Segments(p) = Front(all)
    BY <2>6, <2>7 DEF Segments
  <2>9. Front(all) = Pieces(f)
    <3> DEFINE g == Front(all)
               h == Pieces(f)
    <3>1. g \in Seq(Seq(C)) /\ Len(g) = m - 1 /\ \A n \in 1..(m - 1) : g[n] = all[n]
      <4> HIDE DEF all, m
      <4>q. QED BY <1>1 DEF Front
    <3>2. h \in Seq(Seq(C)) /\ Len(h) = m - 1 /\ \A n \in 1..(m - 1) : h[n] = all[n]
      BY <2>3, <2>4, <2>5
    <3> HIDE DEF g, h
    <3>3. Len(g) = Len(h) /\ \A n \in 1..Len(g) : g[n] = h[n]
      BY <3>1, <3>2
    <3>4. g = h
      BY <3>1, <3>2, <3>3, SeqEqual, Zenon
    <3>q. QED BY <3>4 DEF g, h
  <2>q. QED BY <2>1, <2>2, <2>8, <2>9
<1>3. CASE p[Len(p)] # "/"
  <2>1. Trimmed(p) = p
    BY <1>3 DEF Trimmed, Last
  <2>2. ASSUME Len(all) > 1 PROVE Last(all) # <<>>
    <3>1. /\ Stop(p, m - 1) \in Nat /\ Stop(p, m - 1) < Len(p) + 1 /\ Stop(p, m - 1) \in Cuts(p)
          /\ Len(all[m]) = Len(p) + 1 - Stop(p, m - 1) - 1
      <4>1. m \in 1..m /\ m - 1 \in 1..m
        BY <1>1, <2>2
      <4>2. Stop(p, m - 1) \in Nat /\ Stop(p, m - 1) < Stop(p, m) /\ Stop(p, m - 1) \in Cuts(p)
        BY <4>1, StopsOf
      <4>3. Len(all[m]) = Stop(p, m) - Stop(p, m - 1) - 1
        BY <4>1, PiecesOf
      <4>q. QED BY <1>1, <4>2, <4>3
    <3>2. Stop(p, m - 1) # Len(p)
      BY <1>1, <1>3, <3>1 DEF Cuts
    <3>3. Len(all[m]) # 0
      BY <1>1, <3>1, <3>2
    <3>q. QED BY <1>1, <3>3, EmptySeq DEF Last
  <2>3. Segments(p) = all
    BY <2>2 DEF Segments
  <2>q. QED BY <2>1, <2>3
<1>q. QED BY <1>2, <1>3

(* PathMatches goes by segments.                                            *)
LEMMA PathsMatchBySegments ==
  ASSUME NEW C, NEW p \in Seq(C), NEW q \in Seq(C), p # <<>>, q # <<>>, "/" \in C
  PROVE  PathMatches(p, q) <=> IsPrefix(Segments(p), Segments(q))
<1>1. /\ Trimmed(p) \in Seq(C) /\ Segments(p) = Pieces(Trimmed(p))
      /\ Trimmed(q) \in Seq(C) /\ Segments(q) = Pieces(Trimmed(q))
  BY SegmentsArePieces
<1>q. QED BY <1>1, PathIsPieces DEF PathMatches
-------------------------------------------------------------------------------
(* What a rule covers. *)

(* A block of addresses has those with its quotient.                        *)
LEMMA BlockIsInterval ==
  ASSUME NEW size \in Nat \ {0}, NEW r \in Nat, r % size = 0, NEW x \in Nat
  PROVE  x \div size = r \div size <=> x \in r..(r + size - 1)
  OBVIOUS

(* ruleMatchesAsset: a rule matches what it is meant to cover.              *)
LEMMA MatchesIsCovers ==
  ASSUME NEW L, NEW C, "/" \in C, NEW r, Normal(r, L, C), NEW a, a = Invalid \/ Normal(a, L, C)
  PROVE  Matches(r, a) <=> Covers(r, a)
<1> DEFINE Kinds == {"host", "wildcard_domain", "ip", "cidr", "url_prefix"}
           Hosts == {"host", "ip", "url_prefix"}
           h == HostOf(a)
<1>1. /\ r.kind \in Kinds /\ r.name \in Seq(L) /\ r.addr \in Nat /\ r.bits \in 0..AddressBits
      /\ r.path \in Seq(C) /\ r.spelling = "plain"
  BY DEF Normal, AssetsSpelled
<1>2. a = Invalid => a.kind = "invalid"
  BY DEF Invalid
<1>3. a.kind \in Kinds => /\ a.name \in Seq(L) /\ a.addr \in Nat /\ a.path \in Seq(C)
                          /\ a.spelling = "plain" /\ Normal(a, L, C)
  BY <1>2 DEF Normal, AssetsSpelled
<1>4. a.kind \in Kinds \union {"invalid"}
  BY <1>2 DEF Normal, AssetsSpelled
<1>5. h = IF a.kind \in Hosts THEN a.name ELSE <<>>
  BY DEF HostOf
<1>6. /\ r.kind # "cidr" => r.name # <<>>
      /\ r.kind = "cidr" => r.addr % BlockSize(r.bits) = 0
      /\ r.kind = "url_prefix" => r.path # <<>> /\ r.bits = 0 /\ r.addr = 0
  BY DEF Normal
<1> HIDE DEF h
<1>7. CASE r.kind \in {"host", "ip"}
  <2>1. Matches(r, a) <=> h = r.name
    BY <1>7 DEF Matches, h
  <2>2. Covers(r, a) <=> a.kind \in Hosts /\ a.name = r.name
    BY <1>7 DEF Covers
  <2>3. r.name # <<>>
    BY <1>6, <1>7
  <2>q. QED BY <1>5, <2>1, <2>2, <2>3
<1>8. CASE r.kind = "wildcard_domain"
  <2> DEFINE s == r.name
  <2>1. Matches(r, a) <=> h # s /\ IsSuffix(s, h)
    BY <1>8 DEF Matches, h
  <2>2. Covers(r, a) <=> /\ a.kind \in Hosts
                         /\ \E n \in 1..(Len(a.name) - 1) : SubSeq(a.name, n + 1, Len(a.name)) = s
    BY <1>8 DEF Covers
  <2>3. s \in Seq(L) /\ Len(s) \in Nat \ {0}
    BY <1>1, <1>6, <1>8, EmptySeq
  <2>4. h \in Seq(L) /\ Len(h) \in Nat
    BY <1>3, <1>5
  <2> HIDE DEF s
  <2>5. IsSuffix(s, h) <=> Len(s) <= Len(h) /\ SubSeq(h, Len(h) - Len(s) + 1, Len(h)) = s
    BY <2>3, <2>4, SuffixAgrees
  <2>6. CASE a.kind \in Hosts
    <3>1. h = a.name
      BY <1>5, <2>6
    <3>2. ASSUME h # s, Len(s) <= Len(h), SubSeq(h, Len(h) - Len(s) + 1, Len(h)) = s
          PROVE  \E n \in 1..(Len(h) - 1) : SubSeq(h, n + 1, Len(h)) = s
      <4>1. Len(h) # Len(s)
        <5> SUFFICES ASSUME Len(h) = Len(s) PROVE FALSE
          OBVIOUS
        <5>1. Len(h) - Len(s) + 1 = 1
          BY <2>4
        <5>2. SubSeq(h, 1, Len(h)) = h
          BY <2>4
        <5>q. QED BY <3>2, <5>1, <5>2
      <4>2. Len(h) - Len(s) \in 1..(Len(h) - 1)
        BY <2>3, <2>4, <3>2, <4>1
      <4>q. QED BY <3>2, <4>2
    <3>3. ASSUME NEW n \in 1..(Len(h) - 1), SubSeq(h, n + 1, Len(h)) = s
          PROVE  h # s /\ Len(s) <= Len(h) /\ SubSeq(h, Len(h) - Len(s) + 1, Len(h)) = s
      <4>1. Len(SubSeq(h, n + 1, Len(h))) = Len(h) - n
        BY <2>4
      <4>2. Len(s) = Len(h) - n
        BY <3>3, <4>1
      <4>3. n = Len(h) - Len(s) /\ Len(h) > Len(s)
        BY <2>3, <2>4, <4>2
      <4>4. h # s
        BY <2>3, <2>4, <4>3
      <4>5. Len(s) <= Len(h)
        BY <2>3, <2>4, <4>3
      <4>q. QED BY <3>3, <4>3, <4>4, <4>5
    <3>q. QED BY <2>1, <2>2, <2>5, <2>6, <3>1, <3>2, <3>3
  <2>7. CASE a.kind \notin Hosts
    <3>1. h = <<>> /\ Len(<<>>) = 0
      BY <1>5, <2>7
    <3>2. ~ IsSuffix(s, h)
      BY <2>3, <2>5, <3>1
    <3>q. QED BY <2>1, <2>2, <2>7, <3>2
  <2>q. QED BY <2>6, <2>7
<1>9. CASE r.kind = "cidr"
  <2> DEFINE size == BlockSize(r.bits)
             x == AddressOf[h]
  <2>1. Matches(r, a) <=> h \in DOMAIN AddressOf /\ x \div size = r.addr \div size
    BY <1>9 DEF Matches, h
  <2>2. Covers(r, a) <=> /\ a.kind \in Hosts /\ a.name \in DOMAIN AddressOf
                         /\ AddressOf[a.name] \in r.addr..(r.addr + size - 1)
    BY <1>9 DEF Covers
  <2>3. size \in Nat \ {0}
    BY <1>1, BlocksAreNumbers
  <2>4. r.addr \in Nat /\ r.addr % size = 0
    BY <1>1, <1>6, <1>9
  <2>5. h \in DOMAIN AddressOf => x \in Nat /\ h # <<>>
    BY AddressAssumption
  <2> HIDE DEF size, x
  <2>6. CASE a.kind \in Hosts
    <3>1. h = a.name
      BY <1>5, <2>6
    <3>2. ASSUME h \in DOMAIN AddressOf PROVE x \div size = r.addr \div size <=> x \in r.addr..(r.addr + size - 1)
      BY <2>3, <2>4, <2>5, <3>2, BlockIsInterval
    <3>q. QED BY <2>1, <2>2, <2>6, <3>1, <3>2 DEF x
  <2>7. CASE a.kind \notin Hosts
    <3>1. h = <<>>
      BY <1>5, <2>7
    <3>q. QED BY <2>1, <2>2, <2>5, <2>7, <3>1
  <2>q. QED BY <2>6, <2>7
<1>10. CASE r.kind = "url_prefix"
  <2>1. Matches(r, a) <=> /\ a.kind = "url_prefix" /\ r.scheme = a.scheme /\ r.port = a.port
                          /\ a.name = r.name /\ PathMatches(r.path, a.path)
    BY <1>10 DEF Matches
  <2>2. Covers(r, a) <=> /\ a.kind = "url_prefix"
                         /\ [a EXCEPT !.path = <<>>] = [r EXCEPT !.path = <<>>]
                         /\ IsPrefix(Segments(r.path), Segments(a.path))
    BY <1>10 DEF Covers
  <2>3. ASSUME a.kind = "url_prefix"
        PROVE  /\ [a EXCEPT !.path = <<>>] = [r EXCEPT !.path = <<>>]
                    <=> a.name = r.name /\ r.scheme = a.scheme /\ r.port = a.port
               /\ PathMatches(r.path, a.path) <=> IsPrefix(Segments(r.path), Segments(a.path))
    <3>1. Normal(a, L, C) /\ a.bits = 0 /\ a.addr = 0 /\ a.spelling = "plain" /\ a.path # <<>> /\ a.path \in Seq(C)
      BY <1>3, <2>3 DEF Normal
    <3>3. PathMatches(r.path, a.path) <=> IsPrefix(Segments(r.path), Segments(a.path))
      BY <1>1, <1>6, <1>10, <3>1, PathsMatchBySegments
    <3>4. /\ a = [kind |-> a.kind, name |-> a.name, addr |-> a.addr, bits |-> a.bits, scheme |-> a.scheme,
                  port |-> a.port, path |-> a.path, spelling |-> a.spelling]
          /\ r = [kind |-> r.kind, name |-> r.name, addr |-> r.addr, bits |-> r.bits, scheme |-> r.scheme,
                  port |-> r.port, path |-> r.path, spelling |-> r.spelling]
      BY <3>1 DEF Normal, AssetsSpelled
    <3>5. /\ [a EXCEPT !.path = <<>>] = [kind |-> "url_prefix", name |-> a.name, addr |-> 0, bits |-> 0,
                                         scheme |-> a.scheme, port |-> a.port, path |-> <<>>, spelling |-> "plain"]
          /\ [r EXCEPT !.path = <<>>] = [kind |-> "url_prefix", name |-> r.name, addr |-> 0, bits |-> 0,
                                         scheme |-> r.scheme, port |-> r.port, path |-> <<>>, spelling |-> "plain"]
      <4>1. [a EXCEPT !.path = <<>>] = [kind |-> a.kind, name |-> a.name, addr |-> a.addr, bits |-> a.bits,
                                        scheme |-> a.scheme, port |-> a.port, path |-> <<>>, spelling |-> a.spelling]
        BY <3>4
      <4>2. [r EXCEPT !.path = <<>>] = [kind |-> r.kind, name |-> r.name, addr |-> r.addr, bits |-> r.bits,
                                        scheme |-> r.scheme, port |-> r.port, path |-> <<>>, spelling |-> r.spelling]
        BY <3>4
      <4>3. r.bits = 0 /\ r.addr = 0 /\ r.spelling = "plain"
        BY <1>1, <1>6, <1>10
      <4>q. QED BY <1>10, <2>3, <3>1, <4>1, <4>2, <4>3
    <3>6. [a EXCEPT !.path = <<>>] = [r EXCEPT !.path = <<>>]
            <=> a.name = r.name /\ r.scheme = a.scheme /\ r.port = a.port
      BY <3>5
    <3>q. QED BY <3>3, <3>6
  <2>q. QED BY <2>1, <2>2, <2>3
<1>q. QED BY <1>1, <1>7, <1>8, <1>9, <1>10
-------------------------------------------------------------------------------
(* Manifests. *)

RulesOf(rules) == ManifestOf(rules).rules

(* parseScopeManifest: the rules of an accepted manifest are normal, and no *)
(* two of them are the same.                                                *)
LEMMA ManifestFits ==
  ASSUME NEW L, NEW C, PathCharacters(C), NEW n \in Nat, NEW rules \in [1..n -> Rules],
         \A r \in Rules : WrittenRule(r, L, C), ManifestOf(rules) # Invalid
  PROVE  /\ RulesOf(rules) = [i \in 1..n |-> RulesOf(rules)[i]] /\ n \in 1..MostRules
         /\ \A i \in 1..n : /\ RulesOf(rules)[i].action \in {"include", "exclude"}
                            /\ Normal(RulesOf(rules)[i].asset, L, C)
                            /\ Normalize(RulesOf(rules)[i].asset) = RulesOf(rules)[i].asset
         /\ \A i, j \in 1..n : i # j => RulesOf(rules)[i] # RulesOf(rules)[j]
<1> DEFINE kept == RulesOf(rules)
           plain(i) == [action |-> rules[i].action, asset |-> Normalize(rules[i].asset)]
<1>1. DOMAIN rules = 1..n
  OBVIOUS
<1>2. /\ Len(rules) \in 1..MostRules /\ \A i \in 1..n : Normalize(rules[i].asset) # Invalid
      /\ \A i, j \in 1..n : i # j => RuleKey(rules[i]) # RuleKey(rules[j])
      /\ ManifestOf(rules) = [kind |-> "manifest",
                              rules |-> [i \in 1..n |-> [rules[i] EXCEPT !.asset = Normalize(rules[i].asset)]]]
  BY <1>1, Zenon DEF ManifestOf
<1>3. kept = [i \in 1..n |-> [rules[i] EXCEPT !.asset = Normalize(rules[i].asset)]]
  BY <1>2 DEF RulesOf
<1>4. ASSUME NEW i \in 1..n
      PROVE  /\ kept[i] = plain(i) /\ rules[i].action \in {"include", "exclude"}
             /\ Normal(Normalize(rules[i].asset), L, C)
             /\ Normalize(Normalize(rules[i].asset)) = Normalize(rules[i].asset)
  <2>1. PICK a : Written(a, L, C) /\ \E action \in {"include", "exclude"} : rules[i] = [action |-> action, asset |-> a]
    BY DEF WrittenRule
  <2>2. PICK action \in {"include", "exclude"} : rules[i] = [action |-> action, asset |-> a]
    BY <2>1
  <2>3. rules[i].action = action /\ rules[i].asset = a
    BY <2>2
  <2>4. Normal(Normalize(a), L, C) /\ Normalize(Normalize(a)) = Normalize(a)
    BY <1>2, <2>1, <2>3, NormalForm, NormalIsNormal
  <2>5. [rules[i] EXCEPT !.asset = Normalize(a)] = [action |-> action, asset |-> Normalize(a)]
    BY <2>2
  <2>q. QED BY <1>3, <2>3, <2>4, <2>5
<1>5. kept = [i \in 1..n |-> kept[i]]
  BY <1>3
<1>6. ASSUME NEW i \in 1..n, NEW j \in 1..n, kept[i] = kept[j] PROVE i = j
  <2>1. plain(i).action = plain(j).action /\ plain(i).asset = plain(j).asset
    BY <1>4, <1>6
  <2>2. RuleKey(rules[i]) = RuleKey(rules[j])
    BY <2>1 DEF RuleKey
  <2>q. QED BY <1>2, <2>2
<1>7. ASSUME NEW i \in 1..n PROVE kept[i].action = rules[i].action /\ kept[i].asset = Normalize(rules[i].asset)
  <2>1. kept[i] = plain(i)
    BY <1>4
  <2> HIDE DEF kept
  <2>q. QED BY <2>1
<1> HIDE DEF kept, plain
<1>8. \A i \in 1..n : /\ kept[i].action \in {"include", "exclude"}
                      /\ Normal(kept[i].asset, L, C) /\ Normalize(kept[i].asset) = kept[i].asset
  BY <1>4, <1>7
<1>9. n \in 1..MostRules
  <2>1. Len(rules) = n
    OBVIOUS
  <2>q. QED BY <1>2, <2>1
<1>q. QED BY <1>5, <1>6, <1>8, <1>9 DEF kept

(* effectiveScopeStatus: of any rules and assets, what the loop finds is    *)
(* what the rules mean by hosts, blocks and path segments.                  *)
LEMMA StatusAsIntended ==
  ASSUME NEW L, NEW C, PathCharacters(C), NEW n \in Nat, NEW rules \in [1..n -> Rules],
         \A r \in Rules : WrittenRule(r, L, C), NEW judged, \A a \in judged : a = Invalid \/ Normal(a, L, C)
  PROVE  ScopeStatus(ManifestOf(rules), judged) = IntendedStatus(ManifestOf(rules), judged)
<1> DEFINE manifest == ManifestOf(rules)
           kept == RulesOf(rules)
           covering(a, action) == IF manifest = Invalid THEN {}
                                  ELSE {r \in ToSet(manifest.rules) : r.action = action /\ Covers(r.asset, a)}
           verdicts == IF manifest = Invalid THEN {} ELSE {Verdict(manifest.rules, a) : a \in judged}
<1>1. ScopeStatus(manifest, judged) = CASE "exclude" \in verdicts -> "out_of_scope"
                                        [] verdicts = {"include"} -> "authorized"
                                        [] OTHER -> "unknown"
  BY DEF ScopeStatus
<1>2. IntendedStatus(manifest, judged) =
        CASE \E a \in judged : covering(a, "exclude") # {} -> "out_of_scope"
          [] /\ judged # {} /\ \A a \in judged : covering(a, "exclude") = {}
             /\ \A a \in judged : covering(a, "include") # {} -> "authorized"
          [] OTHER -> "unknown"
  BY DEF IntendedStatus
<1> HIDE DEF manifest
<1>3. CASE manifest = Invalid
  <2>1. verdicts = {} /\ \A a, action : covering(a, action) = {}
    BY <1>3
  <2> HIDE DEF verdicts, covering
  <2>2. ScopeStatus(manifest, judged) = "unknown"
    BY <1>1, <2>1
  <2>3. IntendedStatus(manifest, judged) = "unknown"
    BY <1>2, <2>1
  <2>q. QED BY <2>2, <2>3 DEF manifest
<1>4. CASE manifest # Invalid
  <2>1. /\ kept = [i \in 1..n |-> kept[i]]
        /\ \A i \in 1..n : kept[i].action \in {"include", "exclude"} /\ Normal(kept[i].asset, L, C)
    BY <1>4, ManifestFits DEF manifest
  <2>0. manifest.rules = kept
    BY DEF manifest, RulesOf
  <2> HIDE DEF kept
  <2>2. DOMAIN kept = 1..n /\ ToSet(kept) = {kept[i] : i \in 1..n}
    BY <2>1 DEF ToSet
  <2>3. ASSUME NEW a \in judged
        PROVE  /\ Verdict(kept, a) = "exclude" <=> covering(a, "exclude") # {}
               /\ Verdict(kept, a) = "include" <=> covering(a, "exclude") = {} /\ covering(a, "include") # {}
    <3> DEFINE R == ToSet(kept)
    <3>1. kept \in Seq(R)
      BY <2>1, <2>2
    <3>2. \A r \in R : r.action \in {"include", "exclude"}
      BY <2>1, <2>2
    <3> HIDE DEF R
    <3>3. Verdict(kept, a) = Judgement(kept, a, 1..n)
      BY <2>2, <3>1, <3>2, OrderIsNoMatter
    <3>4. \A i \in 1..n : Matches(kept[i].asset, a) <=> Covers(kept[i].asset, a)
      BY <2>1, MatchesIsCovers DEF PathCharacters
    <3>5. covering(a, "exclude") # {} <=> Excluded(kept, a, 1..n)
      <4>1. covering(a, "exclude") = {r \in ToSet(kept) : r.action = "exclude" /\ Covers(r.asset, a)}
        BY <1>4, <2>0
      <4> HIDE DEF covering
      <4>q. QED BY <2>2, <3>4, <4>1 DEF Excluded
    <3>6. Touched(kept, a, 1..n) <=> covering(a, "exclude") # {} \/ covering(a, "include") # {}
      <4>1. /\ covering(a, "exclude") = {r \in ToSet(kept) : r.action = "exclude" /\ Covers(r.asset, a)}
            /\ covering(a, "include") = {r \in ToSet(kept) : r.action = "include" /\ Covers(r.asset, a)}
        BY <1>4, <2>0
      <4> HIDE DEF covering
      <4>q. QED BY <2>1, <2>2, <3>4, <4>1 DEF Touched
    <3> HIDE DEF covering
    <3>q. QED BY <3>3, <3>5, <3>6 DEF Judgement
  <2>4. verdicts = {Verdict(kept, a) : a \in judged}
    BY <1>4, <2>0
  <2> HIDE DEF verdicts, covering
  <2>5. "exclude" \in verdicts <=> \E a \in judged : covering(a, "exclude") # {}
    BY <2>3, <2>4
  <2>6. verdicts = {"include"} <=> /\ judged # {} /\ \A a \in judged : covering(a, "exclude") = {}
                                   /\ \A a \in judged : covering(a, "include") # {}
    <3>1. verdicts = {"include"} <=> judged # {} /\ \A a \in judged : Verdict(kept, a) = "include"
      BY <2>4
    <3>q. QED BY <2>3, <3>1
  <2>7. ScopeStatus(manifest, judged) = IntendedStatus(manifest, judged)
    <3>1. CASE "exclude" \in verdicts
      <4>1. ~ (verdicts = {"include"})
        BY <3>1
      <4>q. QED BY <1>1, <1>2, <2>5, <2>6, <3>1, <4>1
    <3>2. CASE "exclude" \notin verdicts /\ verdicts = {"include"}
      BY <1>1, <1>2, <2>5, <2>6, <3>2
    <3>3. CASE "exclude" \notin verdicts /\ verdicts # {"include"}
      BY <1>1, <1>2, <2>5, <2>6, <3>3
    <3>q. QED BY <3>1, <3>2, <3>3
  <2>q. QED BY <2>7 DEF manifest
<1>q. QED BY <1>3, <1>4

(* ScopeStatus and validScopeStatusSnapshot: what is published of any       *)
(* manifest is accepted, unless a value has grown too long.                 *)
LEMMA SnapshotIsValid ==
  ASSUME NEW L, NEW C, PathCharacters(C), NEW n \in Nat, NEW rules \in [1..n -> Rules],
         \A r \in Rules : WrittenRule(r, L, C), SnapshotOf(ManifestOf(rules)) # <<>>
  PROVE  SnapshotValid(SnapshotOf(ManifestOf(rules)))
           <=> \A i \in DOMAIN SnapshotOf(ManifestOf(rules)) : Length(SnapshotOf(ManifestOf(rules))[i].asset) <= MostValue
<1> DEFINE kept == RulesOf(rules)
<1>1. /\ ManifestOf(rules) # Invalid /\ SnapshotOf(ManifestOf(rules)) = kept
      /\ \E i \in DOMAIN kept : kept[i].action # "exclude"
  BY DEF SnapshotOf, RulesOf
<1>2. /\ kept = [i \in 1..n |-> kept[i]] /\ n \in 1..MostRules
      /\ \A i \in 1..n : kept[i].action \in {"include", "exclude"} /\ Normalize(kept[i].asset) = kept[i].asset
      /\ \A i, j \in 1..n : i # j => kept[i] # kept[j]
  BY <1>1, ManifestFits
<1> HIDE DEF kept
<1>3. DOMAIN kept = 1..n
  BY <1>2
<1>4. Len(kept) <= MostRules
  <2>1. Len(kept) = n
    BY <1>2
  <2>q. QED BY <1>2, <2>1
<1>5. SnapshotValid(kept) <=> \A i \in DOMAIN kept : Length(kept[i].asset) <= MostValue
  BY <1>1, <1>2, <1>3, <1>4 DEF SnapshotValid
<1>q. QED BY <1>1, <1>5

(* effectiveScopeStatus and validScopeStatusSnapshot, for any rules and     *)
(* assets that can be written, over any alphabet: an asset is judged as the *)
(* rules mean it, wherever they stand, and rules a server hands out are     *)
(* rules a client takes, but for values that grew past the limit.           *)
THEOREM RulesHonestAlways ==
  ASSUME NEW L, NEW C, PathCharacters(C), \A r \in Rules : WrittenRule(r, L, C),
         \A assets \in AssetSets : \A a \in assets : Written(a, L, C)
  PROVE  DecisionsSpec => []RulesHonest
<1>1. DecisionsInit => RulesHonest
  BY DEF DecisionsInit, Idle, RulesHonest, RulesDecide, SnapshotAccepted
<1>2. RulesHonest /\ [DecisionsNext]_<<asked, answer>> => RulesHonest'
  <2> SUFFICES ASSUME RulesHonest, [DecisionsNext]_<<asked, answer>> PROVE RulesHonest'
    OBVIOUS
  <2>1. CASE JudgeAssets
    <3>1. PICK n \in 0..2 : \E rules \in [1..n -> Rules], assets \in AssetSets :
            /\ asked' = [what |-> "scope", rules |-> rules, assets |-> assets]
            /\ answer' = <<ScopeStatus(ManifestOf(rules), {Normalize(a) : a \in assets})>>
      BY <2>1, Zenon DEF JudgeAssets, Ask
    <3>2. PICK rules \in [1..n -> Rules], assets \in AssetSets :
            /\ asked' = [what |-> "scope", rules |-> rules, assets |-> assets]
            /\ answer' = <<ScopeStatus(ManifestOf(rules), {Normalize(a) : a \in assets})>>
      BY <3>1
    <3>3. n \in Nat
      OBVIOUS
    <3>4. ScopeStatus(ManifestOf(rules), {Normalize(a) : a \in assets})
            = IntendedStatus(ManifestOf(rules), {Normalize(a) : a \in assets})
      <4> DEFINE judged == {Normalize(a) : a \in assets}
      <4>1. \A a \in judged : a = Invalid \/ Normal(a, L, C)
        BY NormalForm
      <4> HIDE DEF judged
      <4>2. ScopeStatus(ManifestOf(rules), judged) = IntendedStatus(ManifestOf(rules), judged)
        BY <3>3, <4>1, StatusAsIntended
      <4>q. QED BY <4>2 DEF judged
    <3>5. asked'.what = "scope" /\ asked'.rules = rules /\ asked'.assets = assets
      BY <3>2
    <3>6. answer'[1] = IntendedStatus(ManifestOf(asked'.rules), {Normalize(a) : a \in asked'.assets})
      BY <3>2, <3>4, <3>5
    <3>q. QED BY <3>5, <3>6 DEF RulesHonest, RulesDecide, SnapshotAccepted, Said
  <2>2. CASE PublishRules
    <3>1. PICK n \in 0..3 : \E rules \in [1..n -> Rules] :
            /\ asked' = [what |-> "snapshot", rules |-> rules] /\ answer' = <<SnapshotOf(ManifestOf(rules))>>
      BY <2>2, Zenon DEF PublishRules, Ask
    <3>2. PICK rules \in [1..n -> Rules] :
            /\ asked' = [what |-> "snapshot", rules |-> rules] /\ answer' = <<SnapshotOf(ManifestOf(rules))>>
      BY <3>1
    <3>3. n \in Nat
      OBVIOUS
    <3> DEFINE shown == SnapshotOf(ManifestOf(rules))
    <3>4. shown # <<>> => (SnapshotValid(shown) <=> \A i \in DOMAIN shown : Length(shown[i].asset) <= MostValue)
      BY <3>3, SnapshotIsValid
    <3> HIDE DEF shown
    <3>5. asked'.what = "snapshot" /\ answer'[1] = shown
      BY <3>2 DEF shown
    <3>q. QED BY <3>4, <3>5 DEF RulesHonest, RulesDecide, SnapshotAccepted, Said
  <2>3. CASE \/ CutText \/ CutMarkdown \/ CutBlocks \/ AnswerSearch \/ AnswerContext \/ ListTargets \/ RankTargets
             \/ WaitAgain \/ ValidateAll \/ ReportUsage \/ ScoreAnswer \/ Done
    <3>1. asked'.what \notin {"scope", "snapshot"}
      <4>1. CutText => asked'.what \notin {"scope", "snapshot"}
        BY DEF CutText, Ask
      <4>2. CutMarkdown => asked'.what \notin {"scope", "snapshot"}
        BY DEF CutMarkdown, Ask
      <4>3. CutBlocks => asked'.what \notin {"scope", "snapshot"}
        BY DEF CutBlocks, Ask
      <4>4. AnswerSearch => asked'.what \notin {"scope", "snapshot"}
        BY DEF AnswerSearch, Ask
      <4>5. AnswerContext => asked'.what \notin {"scope", "snapshot"}
        BY DEF AnswerContext, Ask
      <4>6. ListTargets => asked'.what \notin {"scope", "snapshot"}
        BY DEF ListTargets, Ask
      <4>7. RankTargets => asked'.what \notin {"scope", "snapshot"}
        BY DEF RankTargets, Ask
      <4>8. WaitAgain => asked'.what \notin {"scope", "snapshot"}
        BY DEF WaitAgain, Ask
      <4>9. ValidateAll => asked'.what \notin {"scope", "snapshot"}
        BY DEF ValidateAll, Ask
      <4>10. ReportUsage => asked'.what \notin {"scope", "snapshot"}
        BY DEF ReportUsage, Ask
      <4>11. ScoreAnswer => asked'.what \notin {"scope", "snapshot"}
        BY DEF ScoreAnswer, Ask
      <4>12. Done => asked'.what \notin {"scope", "snapshot"}
        BY DEF Done, Idle
      <4>q. QED BY <2>3, <4>1, <4>2, <4>3, <4>4, <4>5, <4>6, <4>7, <4>8, <4>9, <4>10, <4>11, <4>12
    <3>q. QED BY <3>1 DEF RulesHonest, RulesDecide, SnapshotAccepted
  <2>4. CASE UNCHANGED <<asked, answer>>
    BY <2>4 DEF RulesHonest, RulesDecide, SnapshotAccepted, Said
  <2>q. QED BY <2>1, <2>2, <2>3, <2>4 DEF DecisionsNext
<1>q. QED BY <1>1, <1>2, PTL DEF DecisionsSpec

-------------------------------------------------------------------------------
(* Loops over a sequence. *)

(* h has for every set of places what a loop over the elements there        *)
(* computes, in ascending order, from a start, by steps f.                  *)
Accumulates(h, s, f, start, t) ==
  \A u \in SUBSET s : h[u] = IF u = {} THEN start ELSE f[<<h[u \ {Max(u)}], t[Max(u)]>>]

Within(part, s) == part \subseteq s

(* Two such tables agree where they both speak.                             *)
LEMMA LoopsAgree ==
  ASSUME NEW n \in Nat, NEW f, NEW start, NEW t, NEW r, NEW s, Within(r, 1..n), Within(s, 1..n), NEW g, NEW h,
         Accumulates(g, r, f, start, t), Accumulates(h, s, f, start, t),
         NEW part, Within(part, r), Within(part, s)
  PROVE  g[part] = h[part]
<1> DEFINE U == 1..n
           Bad == {u \in SUBSET U : u \subseteq r /\ u \subseteq s /\ g[u] # h[u]}
<1>1. Bad = {}
  <2> SUFFICES ASSUME Bad # {} PROVE FALSE
    OBVIOUS
  <2>1. IsFiniteSet(U) /\ Bad \subseteq SUBSET U
    BY IntervalIsFinite
  <2>2. PICK u \in Bad : \A y \in Bad : y \subseteq u => y = u
    <3> HIDE DEF Bad, U
    <3>q. QED BY <2>1, SmallestPart
  <2>3. u # {}
    BY DEF Accumulates
  <2>4. Max(u) \in u
    BY <2>3, GreatestNumber
  <2>5. /\ g[u] = f[<<g[u \ {Max(u)}], t[Max(u)]>>]
        /\ h[u] = f[<<h[u \ {Max(u)}], t[Max(u)]>>]
    BY <2>3 DEF Accumulates
  <2>6. u \ {Max(u)} \notin Bad
    BY <2>2, <2>4
  <2>7. g[u \ {Max(u)}] = h[u \ {Max(u)}]
    BY <2>6
  <2>q. QED BY <2>5, <2>7
<1>q. QED BY <1>1 DEF Within

(* There is such a table for every sequence.                                *)
LEMMA LoopExists ==
  ASSUME NEW V, NEW E, NEW f \in [V \X E -> V], NEW start \in V, NEW n \in Nat, NEW t \in [1..n -> E]
  PROVE  \E h \in [SUBSET (1..n) -> V] : Accumulates(h, 1..n, f, start, t)
<1> DEFINE U == 1..n
           Fills(h, s) == h \in [SUBSET s -> V] /\ Accumulates(h, s, f, start, t)
           Bad == {s \in SUBSET U : ~ \E h : Fills(h, s)}
           of(s) == CHOOSE h : Fills(h, s)
<1>1. Bad = {}
  <2> SUFFICES ASSUME Bad # {} PROVE FALSE
    OBVIOUS
  <2>1. IsFiniteSet(U) /\ Bad \subseteq SUBSET U
    BY IntervalIsFinite
  <2>2. PICK s \in Bad : \A y \in Bad : y \subseteq s => y = s
    <3> HIDE DEF Bad, U
    <3>q. QED BY <2>1, SmallestPart
  <2> DEFINE whole == IF s = {} THEN start ELSE f[<<of(s \ {Max(s)})[s \ {Max(s)}], t[Max(s)]>>]
             table == [u \in SUBSET s |-> IF u = s THEN whole ELSE of(u)[u]]
  <2>3. \A u \in SUBSET s : u # s => Fills(of(u), u)
    <3> SUFFICES ASSUME NEW u \in SUBSET s, u # s PROVE Fills(of(u), u)
      OBVIOUS
    <3>1. \E h : Fills(h, u)
      BY <2>2
    <3> HIDE DEF Fills
    <3>q. QED BY <3>1, Zenon
  <2> HIDE DEF of
  <2>4. ASSUME NEW u \in SUBSET s, u # {}
        PROVE  Max(u) \in u /\ Max(u) \in 1..n /\ u \ {Max(u)} \in SUBSET s /\ u \ {Max(u)} # s
    <3>1. u \in SUBSET (1..n)
      OBVIOUS
    <3>2. Max(u) \in u
      BY <2>4, <3>1, GreatestNumber
    <3>q. QED BY <3>1, <3>2
  <2>5. ASSUME NEW u \in SUBSET s, u # s PROVE of(u)[u] \in V
    BY <2>3, <2>5
  <2>6. whole \in V
    <3>1. CASE s = {}
      BY <3>1
    <3>2. CASE s # {}
      <4>1. of(s \ {Max(s)})[s \ {Max(s)}] \in V /\ t[Max(s)] \in E
        BY <2>4, <2>5, <3>2
      <4>q. QED BY <3>2, <4>1
    <3>q. QED BY <3>1, <3>2
  <2> HIDE DEF whole
  <2>7. table \in [SUBSET s -> V]
    BY <2>5, <2>6
  <2>8. ASSUME NEW u \in SUBSET s
        PROVE  table[u] = IF u = {} THEN start ELSE f[<<table[u \ {Max(u)}], t[Max(u)]>>]
    <3>1. CASE u = s
      <4>1. CASE s = {}
        BY <3>1, <4>1 DEF whole
      <4>2. CASE s # {}
        <5>1. table[s \ {Max(s)}] = of(s \ {Max(s)})[s \ {Max(s)}]
          BY <2>4, <4>2
        <5>2. table[u] = whole
          BY <3>1
        <5>q. QED BY <3>1, <4>2, <5>1, <5>2 DEF whole
      <4>q. QED BY <4>1, <4>2
    <3>2. CASE u # s
      <4>1. table[u] = of(u)[u] /\ Accumulates(of(u), u, f, start, t)
        BY <2>3, <3>2
      <4>2. CASE u = {}
        BY <4>1, <4>2 DEF Accumulates
      <4>3. CASE u # {}
        <5> DEFINE w == u \ {Max(u)}
        <5>1. w \in SUBSET s /\ w # s /\ w \subseteq u
          BY <2>4, <4>3
        <5>2. of(u)[u] = f[<<of(u)[w], t[Max(u)]>>]
          BY <4>1, <4>3 DEF Accumulates
        <5>3. Accumulates(of(w), w, f, start, t) /\ table[w] = of(w)[w]
          BY <2>3, <5>1
        <5>4. of(u)[w] = of(w)[w]
          <6>1. u \in SUBSET (1..n) /\ w \in SUBSET (1..n) /\ w \subseteq w
            OBVIOUS
          <6> HIDE DEF w
          <6>2. ASSUME NEW a, NEW b, Accumulates(a, u, f, start, t), Accumulates(b, w, f, start, t)
                PROVE  a[w] = b[w]
            <7>1. Within(u, 1..n) /\ Within(w, 1..n) /\ Within(w, u) /\ Within(w, w)
              BY <5>1, <6>1 DEF Within
            <7>q. QED BY <6>2, <7>1, LoopsAgree
          <6>q. QED BY <4>1, <5>3, <6>2, Zenon
        <5>q. QED BY <4>1, <4>3, <5>2, <5>3, <5>4
      <4>q. QED BY <4>2, <4>3
    <3>q. QED BY <3>1, <3>2
  <2> HIDE DEF table
  <2>9. Fills(table, s)
    BY <2>7, <2>8 DEF Accumulates
  <2>q. QED BY <2>2, <2>9
<1>2. \E h : Fills(h, 1..n)
  BY <1>1
<1>q. QED BY <1>2

(* Along the places 1 to n such a table goes step by step.                  *)
StepByStep(h, n, f, start, t) ==
  h[1..0] = start /\ \A k \in 1..n : h[1..k] = f[<<h[1..(k - 1)], t[k]>>]

(* The parts of 1..n that are beginnings are reached one by one.            *)
LEMMA LoopSteps ==
  ASSUME NEW n \in Nat, NEW f, NEW start, NEW t, NEW h, Accumulates(h, 1..n, f, start, t)
  PROVE  StepByStep(h, n, f, start, t)
<1>1. 1..0 = {}
  OBVIOUS
<1>2. h[{}] = start
  BY DEF Accumulates
<1>3. ASSUME NEW k \in 1..n PROVE h[1..k] = f[<<h[1..(k - 1)], t[k]>>]
  <2>1. 1..k \in SUBSET (1..n) /\ 1..k # {}
    OBVIOUS
  <2>2. Max(1..k) = k
    <3> DEFINE I == 1..k
    <3>1. I \in SUBSET (1..n) /\ I # {} /\ k \in I
      BY <2>1
    <3>2. Max(I) \in I /\ k <= Max(I)
      BY <3>1, GreatestNumber
    <3>q. QED BY <3>2
  <2>3. (1..k) \ {k} = 1..(k - 1)
    OBVIOUS
  <2>q. QED BY <2>1, <2>2, <2>3 DEF Accumulates
<1>q. QED BY <1>1, <1>2, <1>3 DEF StepByStep

(* The first k places lead to the first k - 1 and the last of them.         *)
LEMMA UpTo ==
  ASSUME NEW n \in Nat, NEW k \in 1..n
  PROVE  1..k \in SUBSET (1..n) /\ 1..k # {} /\ Max(1..k) = k /\ (1..k) \ {k} = 1..(k - 1)
<1>1. 1..k \in SUBSET (1..n) /\ 1..k # {}
  <2>1. 1 \in 1..k
    OBVIOUS
  <2>2. \A i \in 1..k : i \in 1..n
    OBVIOUS
  <2>q. QED BY <2>1, <2>2
<1>2. Max(1..k) = k
  <2> DEFINE I == 1..k
  <2>1. I \in SUBSET (1..n) /\ I # {} /\ k \in I
    BY <1>1
  <2>2. Max(I) \in I /\ k <= Max(I)
    BY <2>1, GreatestNumber
  <2>q. QED BY <2>2
<1>3. (1..k) \ {k} = 1..(k - 1)
  OBVIOUS
<1>q. QED BY <1>1, <1>2, <1>3

-------------------------------------------------------------------------------
(* Sorting and filtering. *)

(* order has, of any two different elements of S, one before the other, and *)
(* goes on from one to the next.                                            *)
Sorts(order, S) ==
  /\ \A x \in S : <<x, x>> \notin order
  /\ \A x, y \in S : x # y => <<x, y>> \in order \/ <<y, x>> \in order
  /\ \A x, y, z \in S : <<x, y>> \in order /\ <<y, z>> \in order => <<x, z>> \in order

Ahead(S, order, x) == {y \in S : <<y, x>> \in order}

(* How many elements go before one grows along the order, and takes every   *)
(* value there is room for.                                                 *)
LEMMA AheadCounts ==
  ASSUME NEW S, IsFiniteSet(S), NEW order, Sorts(order, S)
  PROVE  /\ Cardinality(S) \in Nat
         /\ \A x \in S : Cardinality(Ahead(S, order, x)) \in 0..(Cardinality(S) - 1)
         /\ \A x, y \in S : <<x, y>> \in order => Cardinality(Ahead(S, order, x)) < Cardinality(Ahead(S, order, y))
         /\ \A n \in 0..(Cardinality(S) - 1) : \E x \in S : Cardinality(Ahead(S, order, x)) = n
<1> DEFINE m == Cardinality(S)
           A(x) == Ahead(S, order, x)
           f == [x \in S |-> Cardinality(A(x))]
           I == 0..(m - 1)
           Values == {f[x] : x \in S}
<1>1. m \in Nat
  BY FS_CardinalityType
<1>2. ASSUME NEW x \in S PROVE IsFiniteSet(A(x)) /\ Cardinality(A(x)) \in Nat /\ Cardinality(A(x)) < m
  <2>1. A(x) \subseteq S /\ A(x) # S
    BY DEF Ahead, Sorts
  <2>2. IsFiniteSet(A(x)) /\ Cardinality(A(x)) <= m /\ (Cardinality(A(x)) = m => A(x) = S)
    BY <2>1, FS_Subset
  <2>3. Cardinality(A(x)) \in Nat
    BY <2>2, FS_CardinalityType
  <2>q. QED BY <1>1, <2>1, <2>2, <2>3
<1>3. ASSUME NEW x \in S, NEW y \in S, <<x, y>> \in order PROVE Cardinality(A(x)) < Cardinality(A(y))
  <2>1. A(x) \subseteq A(y) /\ x \in A(y) /\ x \notin A(x)
    BY <1>3 DEF Ahead, Sorts
  <2>2. Cardinality(A(x)) <= Cardinality(A(y)) /\ (Cardinality(A(x)) = Cardinality(A(y)) => A(x) = A(y))
    BY <1>2, <2>1, FS_Subset
  <2>3. Cardinality(A(x)) \in Nat /\ Cardinality(A(y)) \in Nat
    BY <1>2
  <2>q. QED BY <2>1, <2>2, <2>3
<1> HIDE DEF A
<1>4. f \in [S -> I]
  <2>1. ASSUME NEW x \in S PROVE Cardinality(A(x)) \in 0..(m - 1)
    <3> HIDE DEF m
    <3>q. QED BY <1>1, <1>2
  <2>q. QED BY <2>1
<1>5. \A x, y \in S : f[x] = f[y] => x = y
  <2> SUFFICES ASSUME NEW x \in S, NEW y \in S, Cardinality(A(x)) = Cardinality(A(y)), x # y PROVE FALSE
    OBVIOUS
  <2>1. Cardinality(A(x)) < Cardinality(A(y)) \/ Cardinality(A(y)) < Cardinality(A(x))
    BY <1>3 DEF Sorts
  <2>2. Cardinality(A(x)) \in Nat /\ Cardinality(A(y)) \in Nat
    BY <1>2
  <2>q. QED BY <2>1, <2>2
<1>6. Cardinality(Values) = m
  <2>1. f \in [S -> Values] /\ \A y \in Values : \E x \in S : f[x] = y
    BY <1>4
  <2> HIDE DEF f, Values
  <2>2. f \in Bijection(S, Values)
    BY <1>5, <2>1, Fun_IsBij
  <2>q. QED BY <2>2, FS_Bijection DEF ExistsBijection
<1>7. IsFiniteSet(I) /\ Cardinality(I) = m
  <2>1. 0 \in Int /\ m - 1 \in Int
    BY <1>1
  <2>2. IsFiniteSet(I) /\ Cardinality(I) = IF 0 > m - 1 THEN 0 ELSE m - 1 - 0 + 1
    BY <2>1, FS_Interval
  <2> HIDE DEF m
  <2>q. QED BY <1>1, <2>2
<1>8. Values \subseteq I
  BY <1>4
<1>9. Values = I
  <2> HIDE DEF Values, I, m
  <2>q. QED BY <1>6, <1>7, <1>8, FS_Subset
<1>10. ASSUME NEW n \in I PROVE \E x \in S : Cardinality(A(x)) = n
  <2>1. n \in Values
    BY <1>9
  <2> HIDE DEF I
  <2>q. QED BY <2>1
<1>11. ASSUME NEW x \in S PROVE Cardinality(A(x)) \in I
  BY <1>4
<1> HIDE DEF f, Values
<1>q. QED BY <1>1, <1>3, <1>10, <1>11 DEF A, I

(* What a sort returns has every element, each after those that go before.  *)
LEMMA InOrderLists ==
  ASSUME NEW S, IsFiniteSet(S), NEW order, Sorts(order, S)
  PROVE  /\ Cardinality(S) \in Nat
         /\ InOrder(S, order) \in [1..Cardinality(S) -> S]
         /\ \A i, j \in 1..Cardinality(S) : i < j => <<InOrder(S, order)[i], InOrder(S, order)[j]>> \in order
         /\ \A x \in S : \E k \in 1..Cardinality(S) : InOrder(S, order)[k] = x
<1> DEFINE m == Cardinality(S)
           A(x) == Ahead(S, order, x)
           c == InOrder(S, order)
<1>1. /\ m \in Nat
      /\ \A x \in S : Cardinality(A(x)) \in 0..(m - 1)
      /\ \A x, y \in S : <<x, y>> \in order => Cardinality(A(x)) < Cardinality(A(y))
      /\ \A n \in 0..(m - 1) : \E x \in S : Cardinality(A(x)) = n
  BY AheadCounts
<1>2. c = [n \in 1..m |-> CHOOSE x \in S : Cardinality(A(x)) = n - 1]
  BY DEF InOrder, Ahead
<1> HIDE DEF A, m, c
<1>3. ASSUME NEW n \in 1..m PROVE c[n] \in S /\ Cardinality(A(c[n])) = n - 1
  <2>1. n - 1 \in 0..(m - 1)
    BY <1>1
  <2>2. \E x \in S : Cardinality(A(x)) = n - 1
    BY <1>1, <2>1
  <2>3. c[n] = CHOOSE x \in S : Cardinality(A(x)) = n - 1
    BY <1>2
  <2>q. QED BY <2>2, <2>3
<1>4. c \in [1..m -> S]
  <2>1. c = [n \in 1..m |-> c[n]]
    BY <1>2
  <2>q. QED BY <1>3, <2>1
<1>5. ASSUME NEW i \in 1..m, NEW j \in 1..m, i < j PROVE <<c[i], c[j]>> \in order
  <2>1. c[i] \in S /\ c[j] \in S /\ Cardinality(A(c[i])) = i - 1 /\ Cardinality(A(c[j])) = j - 1
    BY <1>3
  <2>2. c[i] # c[j]
    BY <1>1, <1>5, <2>1
  <2>3. ~ (<<c[j], c[i]>> \in order)
    <3> SUFFICES ASSUME <<c[j], c[i]>> \in order PROVE FALSE
      OBVIOUS
    <3>1. Cardinality(A(c[j])) < Cardinality(A(c[i]))
      BY <1>1, <2>1
    <3>2. j - 1 < i - 1
      BY <2>1, <3>1
    <3>q. QED BY <1>1, <1>5, <3>2
  <2>q. QED BY <2>1, <2>2, <2>3 DEF Sorts
<1>6. ASSUME NEW x \in S PROVE \E k \in 1..m : c[k] = x
  <2> DEFINE k == Cardinality(A(x)) + 1
  <2>1. k \in 1..m /\ Cardinality(A(x)) = k - 1
    BY <1>1
  <2> HIDE DEF k
  <2>2. c[k] \in S /\ Cardinality(A(c[k])) = k - 1
    BY <1>3, <2>1
  <2>3. c[k] = x
    <3> SUFFICES ASSUME c[k] # x PROVE FALSE
      OBVIOUS
    <3>1. <<c[k], x>> \in order \/ <<x, c[k]>> \in order
      BY <2>2 DEF Sorts
    <3>2. Cardinality(A(c[k])) < Cardinality(A(x)) \/ Cardinality(A(x)) < Cardinality(A(c[k]))
      BY <1>1, <2>2, <3>1
    <3>3. k - 1 < k - 1
      BY <2>1, <2>2, <3>2
    <3>q. QED BY <1>1, <2>1, <3>3
  <2>q. QED BY <2>1, <2>3
<1>q. QED BY <1>1, <1>4, <1>5, <1>6 DEF m, c

(* The places themselves, in ascending order.                               *)
Places(P) == InOrder(P, {p \in P \X P : p[1] < p[2]})

(* Numbers are sorted by their size.                                        *)
LEMMA PlacesAscend ==
  ASSUME NEW n \in Nat, NEW P \in SUBSET (1..n)
  PROVE  /\ Cardinality(P) \in Nat /\ Places(P) \in [1..Cardinality(P) -> P]
         /\ \A i, j \in 1..Cardinality(P) : i < j => Places(P)[i] < Places(P)[j]
         /\ \A x \in P : \E k \in 1..Cardinality(P) : Places(P)[k] = x
<1> DEFINE order == {p \in P \X P : p[1] < p[2]}
<1>1. IsFiniteSet(P)
  <2>1. IsFiniteSet(1..n)
    BY IntervalIsFinite
  <2>q. QED BY <2>1, FS_Subset
<1>2. \A x \in P : x \in Int
  OBVIOUS
<1>3. \A x, y \in P : <<x, y>> \in order <=> x < y
  OBVIOUS
<1> HIDE DEF order
<1>4. Sorts(order, P)
  <2>1. \A x \in P : <<x, x>> \notin order
    BY <1>2, <1>3
  <2>2. \A x, y \in P : x # y => <<x, y>> \in order \/ <<y, x>> \in order
    BY <1>2, <1>3
  <2>3. ASSUME NEW x \in P, NEW y \in P, NEW z \in P, <<x, y>> \in order, <<y, z>> \in order PROVE <<x, z>> \in order
    <3>1. x \in Int /\ y \in Int /\ z \in Int /\ x < y /\ y < z
      BY <1>2, <1>3, <2>3
    <3>2. x < z
      BY <3>1
    <3>q. QED BY <1>3, <3>2
  <2>q. QED BY <2>1, <2>2, <2>3 DEF Sorts
<1> DEFINE c == InOrder(P, order)
           m == Cardinality(P)
<1>5. /\ m \in Nat /\ c \in [1..m -> P]
      /\ \A i, j \in 1..m : i < j => <<c[i], c[j]>> \in order
      /\ \A x \in P : \E k \in 1..m : c[k] = x
  BY <1>1, <1>4, InOrderLists
<1>6. c = Places(P)
  BY DEF Places, order
<1> HIDE DEF c, m
<1>7. ASSUME NEW i \in 1..m, NEW j \in 1..m, i < j PROVE c[i] < c[j]
  <2>1. c[i] \in P /\ c[j] \in P /\ <<c[i], c[j]>> \in order
    BY <1>5, <1>7
  <2>q. QED BY <1>3, <2>1
<1>q. QED BY <1>5, <1>6, <1>7 DEF m

(* A filter keeps what stands at its places, in its order.                  *)
LEMMA PlacesTaken ==
  ASSUME NEW E, NEW s \in Seq(E), NEW P \in SUBSET (1..Len(s))
  PROVE  /\ Cardinality(P) \in Nat /\ AtPlaces(s, P) \in Seq(E) /\ Len(AtPlaces(s, P)) = Cardinality(P)
         /\ \A n \in 1..Cardinality(P) : Places(P)[n] \in P /\ AtPlaces(s, P)[n] = s[Places(P)[n]]
<1> DEFINE m == Cardinality(P)
           t == AtPlaces(s, P)
<1>1. m \in Nat /\ Places(P) \in [1..m -> P]
  <2>1. Len(s) \in Nat
    OBVIOUS
  <2>q. QED BY <2>1, PlacesAscend
<1>2. t = [n \in 1..m |-> s[Places(P)[n]]]
  BY DEF AtPlaces, Places
<1> HIDE DEF m, t
<1>3. \A n \in 1..m : Places(P)[n] \in P
  BY <1>1
<1>4. t \in [1..m -> E]
  <2>1. \A x \in P : s[x] \in E
    OBVIOUS
  <2>q. QED BY <1>2, <1>3, <2>1
<1>5. t \in Seq(E) /\ Len(t) = m
  BY <1>1, <1>4
<1>6. \A n \in 1..m : t[n] = s[Places(P)[n]]
  BY <1>2
<1>q. QED BY <1>1, <1>3, <1>5, <1>6 DEF m, t

(* A sequence begins with some of its elements.                             *)
LEMMA Beginning ==
  ASSUME NEW E, NEW s \in Seq(E), NEW n \in 0..Len(s)
  PROVE  /\ SubSeq(s, 1, n) \in Seq(E) /\ Len(SubSeq(s, 1, n)) = n
         /\ \A i \in 1..n : SubSeq(s, 1, n)[i] = s[i]
<1>1. Len(s) \in Nat /\ n \in Nat
  OBVIOUS
<1>2. SubSeq(s, 1, n) \in Seq(E) /\ Len(SubSeq(s, 1, n)) = n
  BY <1>1
<1>3. \A i \in 1..n : SubSeq(s, 1, n)[i] = s[i]
  BY <1>1
<1>q. QED BY <1>2, <1>3

(* The elements of a sequence stand at its places.                          *)
LEMMA Elements ==
  ASSUME NEW E, NEW s \in Seq(E)
  PROVE  /\ \A x : x \in ToSet(s) <=> \E i \in 1..Len(s) : s[i] = x
         /\ ToSet(s) \subseteq E
<1>1. DOMAIN s = 1..Len(s)
  OBVIOUS
<1>2. ToSet(s) = {s[i] : i \in 1..Len(s)}
  BY <1>1 DEF ToSet
<1>3. \A x : x \in ToSet(s) <=> \E i \in 1..Len(s) : s[i] = x
  BY <1>2
<1>4. \A i \in 1..Len(s) : s[i] \in E
  OBVIOUS
<1>q. QED BY <1>3, <1>4

(* A sequence has finitely many elements.                                   *)
LEMMA ListIsFinite ==
  ASSUME NEW E, NEW s \in Seq(E)
  PROVE  IsFiniteSet(ToSet(s))
<1> DEFINE I == 1..Len(s)
           J == ToSet(s)
           g == [i \in I |-> s[i]]
<1>1. DOMAIN s = I /\ Len(s) \in Nat
  OBVIOUS
<1>2. IsFiniteSet(I)
  BY <1>1, IntervalIsFinite
<1>3. g \in [I -> J] /\ \A y \in J : \E i \in I : g[i] = y
  BY <1>1 DEF ToSet
<1> HIDE DEF g, J, I
<1>4. g \in Surjection(I, J)
  BY <1>3 DEF Surjection
<1>q. QED BY <1>2, <1>4, FS_Surjection DEF J

-------------------------------------------------------------------------------
(* Windows of a text. *)

(* From a start, the window there and, unless it reaches the end, those     *)
(* that f has from the next start on.                                       *)
Onwards(f, start, length, size, step) ==
  LET end == Least(start + size, length)
  IN  <<<<start, end>>>> \o (IF end = length THEN <<>> ELSE f[start + step])

(* A window that does not reach the end is followed by one that starts      *)
(* later, within the text.                                                  *)
LEMMA StartsLater ==
  ASSUME NEW length \in Nat, NEW size \in Nat \ {0}, NEW step \in 1..size, NEW start \in 0..length
  PROVE  /\ Least(start + size, length) \in 0..length
         /\ Least(start + size, length) # length =>
              start + size < length /\ start + step \in 0..length /\ start < start + step
BY DEF Least

(* An element before a sequence moves the others on by one place.           *)
LEMMA OneBefore ==
  ASSUME NEW S, NEW e \in S, NEW w \in Seq(S)
  PROVE  /\ (<<e>> \o w) \in Seq(S) /\ Len(<<e>> \o w) = Len(w) + 1 /\ (<<e>> \o w)[1] = e
         /\ \A i \in 1..Len(w) : (<<e>> \o w)[i + 1] = w[i]
<1>1. <<e>> \in Seq(S) /\ Len(<<e>>) = 1 /\ <<e>>[1] = e /\ Len(w) \in Nat
  OBVIOUS
<1>2. (<<e>> \o w) \in Seq(S) /\ Len(<<e>> \o w) = Len(w) + 1
  BY <1>1
<1>3. (<<e>> \o w)[1] = e
  BY <1>1
<1>4. ASSUME NEW i \in 1..Len(w) PROVE (<<e>> \o w)[i + 1] = w[i]
  BY <1>1
<1>q. QED BY <1>2, <1>3, <1>4

(* The loop that cuts windows is defined from every start.                  *)
LEMMA WindowsExist ==
  ASSUME NEW length \in Nat, NEW size \in Nat \ {0}, NEW step \in 1..size
  PROVE  \E f : f = [start \in 0..length |-> Onwards(f, start, length, size, step)]
<1> DEFINE Fills(f, k) == f = [start \in (length - k)..length |-> Onwards(f, start, length, size, step)]
           Bad == {k \in 0..length : ~ \E f : Fills(f, k)}
<1>1. Bad = {}
  <2> SUFFICES ASSUME Bad # {} PROVE FALSE
    OBVIOUS
  <2>1. PICK k \in Bad : \A y \in Bad : k <= y
    <3>1. Bad \in SUBSET Nat
      OBVIOUS
    <3> HIDE DEF Bad
    <3>q. QED BY <3>1, LeastNumber
  <2> DEFINE here == length - k
  <2>2. k \in 0..length /\ here \in 0..length
    OBVIOUS
  <2>3. PICK f : k = 0 \/ Fills(f, k - 1)
    <3>1. CASE k = 0
      BY <3>1
    <3>2. CASE k # 0
      <4>1. k - 1 \in 0..length /\ ~ (k <= k - 1)
        BY <2>2, <3>2
      <4>2. \E f : Fills(f, k - 1)
        BY <2>1, <4>1
      <4>q. QED BY <4>2
    <3>q. QED BY <3>1, <3>2
  <2> DEFINE g == [start \in here..length |-> IF start = here THEN Onwards(f, start, length, size, step) ELSE f[start]]
  <2>4. ASSUME NEW start \in here..length
        PROVE  g[start] = Onwards(f, start, length, size, step)
    <3>1. CASE start = here
      BY <3>1
    <3>2. CASE start # here
      <4>1. k # 0 /\ start \in (length - (k - 1))..length
        BY <2>2, <3>2
      <4>2. f[start] = Onwards(f, start, length, size, step)
        <5>1. Fills(f, k - 1)
          BY <2>3, <4>1
        <5> DEFINE low == length - (k - 1)
        <5>2. f = [s \in low..length |-> Onwards(f, s, length, size, step)] /\ start \in low..length
          BY <4>1, <5>1
        <5> HIDE DEF low
        <5>q. QED BY <5>2, Zenon
      <4>q. QED BY <3>2, <4>2
    <3>q. QED BY <3>1, <3>2
  <2>5. ASSUME NEW start \in here..length
        PROVE  Onwards(f, start, length, size, step) = Onwards(g, start, length, size, step)
    <3>1. start \in 0..length
      BY <2>2
    <3>2. CASE Least(start + size, length) = length
      BY <3>2 DEF Onwards
    <3>3. CASE Least(start + size, length) # length
      <4>1. start + step \in 0..length /\ start < start + step
        BY <3>1, <3>3, StartsLater
      <4>2. start + step \in here..length /\ start + step # here
        BY <2>2, <3>1, <4>1
      <4>3. g[start + step] = f[start + step]
        BY <4>2
      <4>q. QED BY <4>3 DEF Onwards
    <3>q. QED BY <3>2, <3>3
  <2>6. g = [start \in here..length |-> Onwards(g, start, length, size, step)]
    <3>1. \A start \in here..length : g[start] = Onwards(g, start, length, size, step)
      BY <2>4, <2>5, Zenon
    <3>2. g = [start \in here..length |-> g[start]]
      OBVIOUS
    <3> HIDE DEF g, here
    <3>q. QED BY <3>1, <3>2
  <2> HIDE DEF g
  <2>7. Fills(g, k)
    BY <2>6
  <2>q. QED BY <2>1, <2>7
<1>2. \E f : Fills(f, length)
  BY <1>1
<1>3. length - length = 0
  OBVIOUS
<1>q. QED BY <1>2, <1>3

(* Windows go on from a start by steps, each as long as there is text for,  *)
(* and only the last reaches the end.                                       *)
Marches(w, start, length, size, step) ==
  /\ w \in Seq((0..length) \X (0..length)) /\ Len(w) \in Nat \ {0}
  /\ w[1][1] = start /\ w[Len(w)][2] = length
  /\ \A i \in 1..Len(w) : w[i][1] \in 0..length /\ w[i][2] = Least(w[i][1] + size, length)
  /\ \A i \in 1..(Len(w) - 1) : w[i + 1][1] = w[i][1] + step /\ w[i][1] + size < length

(* The windows chunkRunes cuts march from the start of the text to its end. *)
LEMMA WindowsMarch ==
  ASSUME NEW length \in Nat, NEW size \in Nat \ {0}, NEW step \in 1..size
  PROVE  Marches(Windows(length, size, step), 0, length, size, step)
<1> DEFINE from[start \in 0..length] ==
             LET end == Least(start + size, length)
             IN  <<<<start, end>>>> \o (IF end = length THEN <<>> ELSE from[start + step])
<1>1. Windows(length, size, step) = from[0]
  BY DEF Windows
<1>2. from = [start \in 0..length |-> Onwards(from, start, length, size, step)]
  BY WindowsExist, Zenon DEF Onwards
<1> HIDE DEF from
<1> DEFINE Bad == {k \in 0..length : ~ Marches(from[length - k], length - k, length, size, step)}
<1>3. Bad = {}
  <2> SUFFICES ASSUME Bad # {} PROVE FALSE
    OBVIOUS
  <2>1. PICK k \in Bad : \A y \in Bad : k <= y
    <3>1. Bad \in SUBSET Nat
      OBVIOUS
    <3> HIDE DEF Bad
    <3>q. QED BY <3>1, LeastNumber
  <2> DEFINE start == length - k
             end == Least(start + size, length)
             S == (0..length) \X (0..length)
  <2>2. start \in 0..length /\ end \in 0..length /\ <<start, end>> \in S
    <3>1. start \in 0..length
      OBVIOUS
    <3> HIDE DEF start
    <3>2. end \in 0..length
      BY <3>1, StartsLater
    <3>q. QED BY <3>1, <3>2
  <2>3. from[start] = <<<<start, end>>>> \o (IF end = length THEN <<>> ELSE from[start + step])
    BY <1>2, <2>2 DEF Onwards
  <2>4. CASE end = length
    <3>1. from[start] = <<<<start, end>>>>
      BY <2>3, <2>4
    <3>2. Marches(<<<<start, end>>>>, start, length, size, step)
      <4> DEFINE w == <<<<start, end>>>>
      <4>1. w \in Seq(S) /\ Len(w) = 1 /\ w[1] = <<start, end>>
        BY <2>2
      <4> HIDE DEF w
      <4>q. QED BY <2>2, <2>4, <4>1 DEF Marches
    <3>q. QED BY <3>1, <3>2
  <2>5. CASE end # length
    <3> DEFINE w == from[start + step]
               v == <<<<start, end>>>> \o w
    <3>1. start + size < length /\ start + step \in 0..length /\ start < start + step
      BY <2>2, <2>5, StartsLater
    <3>2. Marches(w, start + step, length, size, step)
      <4> DEFINE j == length - (start + step)
      <4>1. j \in 0..length /\ ~ (k <= j) /\ length - j = start + step
        BY <3>1
      <4>2. j \notin Bad
        BY <2>1, <4>1
      <4>q. QED BY <4>1, <4>2
    <3>3. from[start] = v
      BY <2>3, <2>5
    <3> HIDE DEF w
    <3>4. w \in Seq(S) /\ Len(w) \in Nat \ {0}
      BY <3>2 DEF Marches
    <3>5. /\ v \in Seq(S) /\ Len(v) = Len(w) + 1 /\ v[1] = <<start, end>>
          /\ \A i \in 1..Len(w) : v[i + 1] = w[i]
      <4> DEFINE e == <<start, end>>
      <4>1. e \in S
        BY <2>2
      <4> HIDE DEF e, S
      <4>2. /\ (<<e>> \o w) \in Seq(S) /\ Len(<<e>> \o w) = Len(w) + 1 /\ (<<e>> \o w)[1] = e
            /\ \A i \in 1..Len(w) : (<<e>> \o w)[i + 1] = w[i]
        BY <3>4, <4>1, OneBefore
      <4>q. QED BY <4>2 DEF e
    <3> HIDE DEF v
    <3>6. \A i \in 1..Len(v) : i = 1 \/ (i - 1 \in 1..Len(w) /\ v[i] = w[i - 1])
      <4> SUFFICES ASSUME NEW i \in 1..Len(v), i # 1 PROVE i - 1 \in 1..Len(w) /\ v[i] = w[i - 1]
        OBVIOUS
      <4>1. Len(w) \in Nat /\ Len(v) = Len(w) + 1 /\ i \in 1..Len(v) /\ i # 1
        BY <3>4, <3>5
      <4> DEFINE m == Len(w)
                 n == Len(v)
                 j == i - 1
      <4> HIDE DEF m, n
      <4>2. j \in 1..m /\ j + 1 = i
        BY <4>1 DEF m, n
      <4> HIDE DEF j
      <4>3. v[j + 1] = w[j]
        BY <3>5, <4>2 DEF m
      <4>q. QED BY <4>2, <4>3 DEF j, m
    <3>7. Len(v) \in Nat \ {0} /\ v[1][1] = start /\ v[1][2] = end
      BY <3>4, <3>5
    <3>8. v[Len(v)][2] = length
      <4>1. Len(v) \in 1..Len(v) /\ Len(v) # 1 /\ Len(v) - 1 = Len(w)
        BY <3>4, <3>5
      <4>q. QED BY <3>2, <3>6, <4>1 DEF Marches
    <3>9. ASSUME NEW i \in 1..Len(v) PROVE v[i][1] \in 0..length /\ v[i][2] = Least(v[i][1] + size, length)
      <4>1. CASE i = 1
        BY <2>2, <3>7, <4>1
      <4>2. CASE i # 1
        <5>1. i - 1 \in 1..Len(w) /\ v[i] = w[i - 1]
          BY <3>6, <4>2
        <5> DEFINE j == i - 1
        <5> HIDE DEF j
        <5>2. w[j][1] \in 0..length /\ w[j][2] = Least(w[j][1] + size, length)
          BY <3>2, <5>1 DEF Marches, j
        <5>q. QED BY <5>1, <5>2 DEF j
      <4>q. QED BY <4>1, <4>2
    <3>10. ASSUME NEW i \in 1..(Len(v) - 1) PROVE v[i + 1][1] = v[i][1] + step /\ v[i][1] + size < length
      <4>1. i \in 1..Len(w) /\ v[i + 1] = w[i]
        BY <3>4, <3>5
      <4>2. CASE i = 1
        BY <3>1, <3>2, <3>7, <4>1, <4>2 DEF Marches
      <4>3. CASE i # 1
        <5>0. i \in 1..Len(v) /\ i - 1 \in 1..(Len(w) - 1) /\ (i - 1) + 1 = i
          BY <3>4, <3>5, <4>1, <4>3
        <5>1. i \in 1..Len(v) /\ i - 1 \in 1..(Len(w) - 1) /\ (i - 1) + 1 = i /\ v[i] = w[i - 1]
          BY <3>6, <4>3, <5>0
        <5>2. w[i][1] = w[i - 1][1] + step /\ w[i - 1][1] + size < length
          BY <3>2, <5>1 DEF Marches
        <5>q. QED BY <4>1, <5>1, <5>2
      <4>q. QED BY <4>2, <4>3
    <3>11. Marches(v, start, length, size, step)
      BY <3>5, <3>7, <3>8, <3>9, <3>10 DEF Marches
    <3>q. QED BY <3>3, <3>11
  <2>q. QED BY <2>4, <2>5
<1>4. length \in 0..length /\ length - length = 0
  OBVIOUS
<1>5. Marches(from[length - length], length - length, length, size, step)
  BY <1>3, <1>4
<1>q. QED BY <1>1, <1>4, <1>5

-------------------------------------------------------------------------------
(* Joining chunks. *)

(* No window says only what its predecessor said, and none is too long.     *)
LEMMA WindowsAdd ==
  ASSUME NEW length \in Nat, NEW size \in Nat \ {0}, NEW step \in 1..size,
         NEW w, Marches(w, 0, length, size, step)
  PROVE  EachAdds(w, size)
<1>1. DOMAIN w = 1..Len(w) /\ Len(w) \in Nat
  BY DEF Marches
<1>2. ASSUME NEW i \in 1..Len(w) PROVE w[i][2] - w[i][1] <= size
  <2>1. w[i][1] \in Nat /\ w[i][2] = Least(w[i][1] + size, length)
    BY DEF Marches
  <2>q. QED BY <2>1 DEF Least
<1>3. ASSUME NEW i \in 1..(Len(w) - 1) PROVE w[i + 1][1] <= w[i][2] /\ w[i + 1][2] > w[i][2]
  <2>1. i \in 1..Len(w) /\ i + 1 \in 1..Len(w)
    BY <1>1
  <2>2. /\ w[i][1] \in Nat /\ w[i][2] = Least(w[i][1] + size, length)
        /\ w[i + 1][1] \in Nat /\ w[i + 1][2] = Least(w[i + 1][1] + size, length)
        /\ w[i + 1][1] = w[i][1] + step /\ w[i][1] + size < length
    BY <2>1 DEF Marches
  <2>q. QED BY <2>2 DEF Least
<1>q. QED BY <1>1, <1>2, <1>3 DEF EachAdds

(* What is joined to a text is joined, or an error.                         *)
LEMMA JoinedIsText ==
  ASSUME NEW C, NEW joined \in Seq(C \union {"inconsistent"}), NEW next \in Seq(C \union {"inconsistent"}),
         NEW overlap \in Nat
  PROVE  JoinOne(joined, next, overlap) \in Seq(C \union {"inconsistent"})
<1> DEFINE S == C \union {"inconsistent"}
           shared == Least(overlap, Least(Len(joined), Len(next)))
           rest == SubSeq(next, shared + 1, Len(next))
<1>1. shared \in Nat
  BY DEF Least
<1>2. "inconsistent" \in S /\ joined \in Seq(S) /\ next \in Seq(S)
  OBVIOUS
<1> HIDE DEF S, shared
<1>3. rest \in Seq(S)
  BY <1>1, <1>2
<1> HIDE DEF rest
<1>4. (joined \o rest) \in Seq(S) /\ Broken \in Seq(S)
  BY <1>2, <1>3 DEF Broken
<1>5. JoinOne(joined, next, overlap) \in {joined \o rest, Broken}
  BY DEF JoinOne, rest, shared
<1>q. QED BY <1>4, <1>5 DEF S

(* One sequence after another.                                              *)
LEMMA OneAfterAnother ==
  ASSUME NEW S, NEW a \in Seq(S), NEW b \in Seq(S)
  PROVE  /\ (a \o b) \in Seq(S) /\ Len(a \o b) = Len(a) + Len(b)
         /\ \A i \in 1..(Len(a) + Len(b)) : (a \o b)[i] = IF i <= Len(a) THEN a[i] ELSE b[i - Len(a)]
<1>1. (a \o b) \in Seq(S) /\ Len(a \o b) = Len(a) + Len(b)
  OBVIOUS
<1>2. ASSUME NEW i \in 1..(Len(a) + Len(b)) PROVE (a \o b)[i] = IF i <= Len(a) THEN a[i] ELSE b[i - Len(a)]
  OBVIOUS
<1>q. QED BY <1>1, <1>2

(* A window that starts overlap characters before the end of what is        *)
(* joined, and ends later, lengthens it to its own end.                     *)
LEMMA JoinNext ==
  ASSUME NEW C, "inconsistent" \notin C, NEW kept \in Seq(C), NEW overlap \in Nat, NEW e \in Nat, NEW last \in Nat,
         overlap <= e, e < last, last <= Len(kept)
  PROVE  JoinOne(SubSeq(kept, 1, e), SubSeq(kept, e - overlap + 1, last), overlap) = SubSeq(kept, 1, last)
<1> DEFINE joined == SubSeq(kept, 1, e)
           next == SubSeq(kept, e - overlap + 1, last)
           n == last - e + overlap
           both == SubSeq(next, 1, overlap)
           rest == SubSeq(next, overlap + 1, n)
           whole == SubSeq(kept, 1, last)
<1>1. joined \in Seq(C) /\ Len(joined) = e /\ \A i \in 1..e : joined[i] = kept[i]
  OBVIOUS
<1>2. next \in Seq(C) /\ Len(next) = n /\ \A i \in 1..n : next[i] = kept[e - overlap + i]
  OBVIOUS
<1>3. n \in Nat /\ overlap < n
  OBVIOUS
<1> HIDE DEF joined, next, n
<1>4. Least(overlap, Least(Len(joined), Len(next))) = overlap
  BY <1>1, <1>2, <1>3 DEF Least
<1>5. both \in Seq(C) /\ Len(both) = overlap /\ \A i \in 1..overlap : both[i] = next[i]
  BY <1>2, <1>3
<1>6. rest \in Seq(C) /\ Len(rest) = n - overlap /\ \A i \in 1..(n - overlap) : rest[i] = next[overlap + i]
  BY <1>2, <1>3
<1>7. whole \in Seq(C) /\ Len(whole) = last /\ \A i \in 1..last : whole[i] = kept[i]
  OBVIOUS
<1> HIDE DEF both, rest, whole
<1>8. IsSuffix(both, joined)
  <2> DEFINE tail == SubSeq(joined, Len(joined) - Len(both) + 1, Len(joined))
  <2>1. tail \in Seq(C) /\ Len(tail) = overlap /\ \A i \in 1..overlap : tail[i] = joined[e - overlap + i]
    BY <1>1, <1>5
  <2> HIDE DEF tail
  <2>2. ASSUME NEW i \in 1..overlap PROVE tail[i] = both[i]
    <3>1. i \in 1..n /\ e - overlap + i \in 1..e
      BY <1>3
    <3>2. tail[i] = kept[e - overlap + i]
      BY <1>1, <2>1, <3>1
    <3>3. both[i] = kept[e - overlap + i]
      BY <1>2, <1>5, <3>1
    <3>q. QED BY <3>2, <3>3
  <2>3. tail = both
    <3>1. Len(tail) = Len(both) /\ \A i \in 1..Len(tail) : tail[i] = both[i]
      BY <1>5, <2>1, <2>2
    <3>q. QED BY <1>5, <2>1, <3>1, SeqEqual, Zenon
  <2>4. Len(both) <= Len(joined)
    BY <1>1, <1>5
  <2>q. QED BY <1>1, <1>5, <2>3, <2>4, SuffixAgrees DEF tail
<1>9. joined # Broken
  <2> SUFFICES ASSUME joined = Broken PROVE FALSE
    OBVIOUS
  <2>1. e = 1 /\ joined[1] = "inconsistent"
    BY <1>1 DEF Broken
  <2>q. QED BY <1>1, <2>1
<1>10. joined \o rest = whole
  <2> DEFINE all == joined \o rest
  <2>1. /\ all \in Seq(C) /\ Len(all) = last
        /\ \A i \in 1..last : all[i] = IF i <= e THEN joined[i] ELSE rest[i - e]
    <3>1. Len(joined) + Len(rest) = last
      BY <1>1, <1>6 DEF n
    <3>2. /\ all \in Seq(C) /\ Len(all) = Len(joined) + Len(rest)
          /\ \A i \in 1..(Len(joined) + Len(rest)) :
               all[i] = IF i <= Len(joined) THEN joined[i] ELSE rest[i - Len(joined)]
      <4>1. joined \in Seq(C) /\ rest \in Seq(C)
        BY <1>1, <1>6
      <4>q. QED BY <4>1, OneAfterAnother, Zenon
    <3> HIDE DEF all
    <3>q. QED BY <1>1, <3>1, <3>2
  <2> HIDE DEF all
  <2>2. ASSUME NEW i \in 1..last PROVE all[i] = whole[i]
    <3>1. CASE i <= e
      <4>1. i \in 1..e
        BY <3>1
      <4>2. joined[i] = kept[i] /\ whole[i] = kept[i]
        BY <1>1, <1>7, <4>1
      <4>q. QED BY <2>1, <3>1, <4>2
    <3>2. CASE ~ (i <= e)
      <4>1. i - e \in 1..(n - overlap) /\ overlap + (i - e) \in 1..n /\ e - overlap + (overlap + (i - e)) = i
        BY <3>2 DEF n
      <4>2. all[i] = rest[i - e]
        BY <2>1, <3>2
      <4>3. rest[i - e] = next[overlap + (i - e)]
        BY <1>6, <4>1
      <4>4. next[overlap + (i - e)] = kept[e - overlap + (overlap + (i - e))]
        BY <1>2, <4>1
      <4>q. QED BY <1>7, <4>1, <4>2, <4>3, <4>4
    <3>q. QED BY <3>1, <3>2
  <2>3. Len(all) = Len(whole) /\ \A i \in 1..Len(all) : all[i] = whole[i]
    BY <1>7, <2>1, <2>2
  <2>4. all = whole
    BY <1>7, <2>1, <2>3, SeqEqual, Zenon
  <2>q. QED BY <2>4 DEF all
<1>11. JoinOne(joined, next, overlap) = joined \o rest
  <2>1. SubSeq(next, 1, overlap) = both /\ SubSeq(next, overlap + 1, Len(next)) = rest
    BY <1>2 DEF both, rest
  <2>q. QED BY <1>4, <1>8, <1>9, <2>1 DEF JoinOne
<1>q. QED BY <1>10, <1>11 DEF joined, next, whole

(* The loop of joinOverlappingChunks, chunk by chunk.                       *)
JoinAll(start, later, overlap) == FoldLeft(LAMBDA joined, next : JoinOne(joined, next, overlap), start, later)

Joins(h, start, later, n, overlap) ==
  /\ JoinAll(start, later, overlap) = h[1..n]
  /\ h[1..0] = start
  /\ \A k \in 1..n : h[1..k] = JoinOne(h[1..(k - 1)], later[k], overlap)

(* The join of any chunks goes on in this way.                              *)
LEMMA JoinGoesOn ==
  ASSUME NEW C, NEW start \in Seq(C \union {"inconsistent"}), NEW n \in Nat, NEW t,
         t \in [1..n -> Seq(C \union {"inconsistent"})], NEW overlap \in Nat
  PROVE  \E h : Joins(h, start, t, n, overlap)
<1> DEFINE D == DOMAIN t
           V == Seq(C \union {"inconsistent"})
           f == [p \in V \X V |-> JoinOne(p[1], p[2], overlap)]
           Loop(h) == [s \in SUBSET D |->
                         IF s = {} THEN start ELSE LET x == Max(s) IN JoinOne(h[s \ {x}], t[x], overlap)]
           iter[s \in SUBSET D] ==
             IF s = {} THEN start ELSE LET x == Max(s) IN JoinOne(iter[s \ {x}], t[x], overlap)
<1>1. JoinAll(start, t, overlap) = iter[D]
  BY DEF JoinAll, FoldLeft, MapThenFoldSet
<1>2. D = 1..n
  OBVIOUS
<1>3. f \in [V \X V -> V]
  <2>1. ASSUME NEW p \in V \X V PROVE JoinOne(p[1], p[2], overlap) \in V
    <3>1. p[1] \in V /\ p[2] \in V
      OBVIOUS
    <3>q. QED BY <3>1, JoinedIsText
  <2>q. QED BY <2>1
<1>4. PICK h \in [SUBSET (1..n) -> V] : Accumulates(h, 1..n, f, start, t)
  <2> HIDE DEF f, V
  <2>1. start \in V /\ t \in [1..n -> V]
    BY DEF V
  <2>q. QED BY <1>3, <2>1, LoopExists
<1>5. ASSUME NEW u \in SUBSET (1..n)
      PROVE  h[u] = IF u = {} THEN start ELSE JoinOne(h[u \ {Max(u)}], t[Max(u)], overlap)
  <2>1. CASE u = {}
    BY <1>4, <2>1 DEF Accumulates
  <2>2. CASE u # {}
    <3>1. Max(u) \in u
      BY <2>2, GreatestNumber
    <3>2. h[u \ {Max(u)}] \in V /\ t[Max(u)] \in V
      BY <1>4, <3>1
    <3>3. h[u] = f[<<h[u \ {Max(u)}], t[Max(u)]>>]
      BY <1>4, <2>2 DEF Accumulates
    <3> DEFINE a == h[u \ {Max(u)}]
               b == t[Max(u)]
    <3> HIDE DEF a, b
    <3>4. a \in V /\ b \in V /\ h[u] = f[<<a, b>>]
      BY <3>2, <3>3 DEF a, b
    <3> HIDE DEF V
    <3>5. f[<<a, b>>] = JoinOne(a, b, overlap)
      BY <3>4
    <3>q. QED BY <2>2, <3>4, <3>5 DEF a, b
  <2>q. QED BY <2>1, <2>2
<1>6. h = Loop(h)
  <2>1. h = [u \in SUBSET D |-> h[u]]
    BY <1>2
  <2>2. \A u \in SUBSET D : h[u] = IF u = {} THEN start ELSE LET x == Max(u) IN JoinOne(h[u \ {x}], t[x], overlap)
    BY <1>2, <1>5
  <2> HIDE DEF D
  <2>q. QED BY <2>1, <2>2
<1>7. iter = Loop(iter)
  BY <1>6, Zenon
<1> HIDE DEF iter
<1>8. iter[1..0] = start
  <2>1. 1..0 = {}
    OBVIOUS
  <2>2. iter[{}] = start
    BY <1>7
  <2>q. QED BY <2>1, <2>2
<1>9. ASSUME NEW k \in 1..n PROVE iter[1..k] = JoinOne(iter[1..(k - 1)], t[k], overlap)
  <2>1. 1..k \in SUBSET (1..n) /\ 1..k # {}
    <3>1. 1 \in 1..k
      OBVIOUS
    <3>2. \A i \in 1..k : i \in 1..n
      OBVIOUS
    <3>q. QED BY <3>1, <3>2
  <2>2. Max(1..k) = k
    <3> DEFINE I == 1..k
    <3>1. I \in SUBSET (1..n) /\ I # {} /\ k \in I
      BY <1>2, <2>1
    <3>2. Max(I) \in I /\ k <= Max(I)
      BY <3>1, GreatestNumber
    <3>q. QED BY <3>2
  <2>3. (1..k) \ {k} = 1..(k - 1)
    OBVIOUS
  <2> DEFINE I == 1..k
  <2> HIDE DEF I
  <2>4. iter[I] = JoinOne(iter[I \ {Max(I)}], t[Max(I)], overlap)
    <3> HIDE DEF D
    <3>1. I \in SUBSET D /\ I # {}
      BY <1>2, <2>1 DEF I
    <3>q. QED BY <1>7, <3>1
  <2>q. QED BY <2>2, <2>3, <2>4 DEF I
<1>10. iter[D] = iter[1..n]
  <2> HIDE DEF D
  <2>q. QED BY <1>2
<1>11. Joins(iter, start, t, n, overlap)
  BY <1>1, <1>8, <1>9, <1>10 DEF Joins
<1>q. QED BY <1>11

(* Joined, the chunks of a text are the text.                               *)
LEMMA ChunksJoin ==
  ASSUME NEW C, "inconsistent" \notin C, NEW kept \in Seq(C), Len(kept) # 0,
         NEW size \in Nat \ {0}, NEW overlap \in Nat, overlap < size,
         NEW w, Marches(w, 0, Len(kept), size, size - overlap)
  PROVE  Join(Cut(kept, w), overlap) = kept
<1> DEFINE S == C \union {"inconsistent"}
           chunks == Cut(kept, w)
           n == Len(w) - 1
           later == [i \in 1..n |-> SubSeq(kept, w[i + 1][1] + 1, w[i + 1][2])]
           length == Len(kept)
<1>1. DOMAIN w = 1..Len(w) /\ Len(w) \in Nat \ {0} /\ n \in Nat /\ length \in Nat \ {0}
  BY DEF Marches
<1>2. ASSUME NEW i \in 1..Len(w)
      PROVE  w[i][1] \in 0..length /\ w[i][2] \in 0..length /\ w[i][2] = Least(w[i][1] + size, length)
  <2>1. w[i][1] \in 0..length /\ w[i][2] = Least(w[i][1] + size, length)
    BY DEF Marches
  <2>q. QED BY <2>1 DEF Least
<1>3. \A a, b \in 0..length : SubSeq(kept, a + 1, b) \in Seq(S)
  <2> SUFFICES ASSUME NEW a \in 0..length, NEW b \in 0..length PROVE SubSeq(kept, a + 1, b) \in Seq(S)
    OBVIOUS
  <2>1. kept \in Seq(S)
    <3>1. \A i \in 1..length : kept[i] \in S
      OBVIOUS
    <3> HIDE DEF S
    <3>q. QED BY <3>1
  <2> HIDE DEF S
  <2>q. QED BY <2>1
<1>4. chunks = [i \in 1..Len(w) |-> SubSeq(kept, w[i][1] + 1, w[i][2])]
  BY <1>1 DEF Cut
<1>5. chunks \in Seq(Seq(S)) /\ Len(chunks) = n + 1
  <2>1. \A i \in 1..Len(w) : SubSeq(kept, w[i][1] + 1, w[i][2]) \in Seq(S)
    BY <1>2, <1>3
  <2> DEFINE V == Seq(S)
  <2> HIDE DEF V, chunks
  <2>2. chunks \in [1..Len(w) -> V]
    BY <1>4, <2>1 DEF V
  <2>q. QED BY <1>1, <2>2 DEF V
<1>6. Head(chunks) = SubSeq(kept, 1, w[1][2])
  <2>1. w[1][1] = 0 /\ 1 \in 1..Len(w)
    BY <1>1 DEF Marches
  <2> HIDE DEF chunks
  <2>2. Head(chunks) = chunks[1]
    BY <1>1, <1>5
  <2>3. chunks[1] = SubSeq(kept, w[1][1] + 1, w[1][2])
    BY <1>4, <2>1
  <2>4. w[1][1] + 1 = 1
    BY <2>1
  <2>q. QED BY <2>2, <2>3, <2>4
<1>7. Tail(chunks) = later
  <2> DEFINE V == Seq(S)
             rest == Tail(chunks)
  <2> HIDE DEF chunks, V
  <2>1. rest \in Seq(V) /\ Len(rest) = n /\ \A i \in 1..n : rest[i] = chunks[i + 1]
    BY <1>1, <1>5 DEF V
  <2>2. \A i \in 1..n : i + 1 \in 1..Len(w)
    BY <1>1
  <2>3. \A i \in 1..n : rest[i] = SubSeq(kept, w[i + 1][1] + 1, w[i + 1][2])
    BY <1>4, <2>1, <2>2
  <2> HIDE DEF rest, n
  <2>4. rest = [i \in 1..n |-> rest[i]]
    BY <2>1
  <2>5. rest = later
    BY <2>3, <2>4
  <2>q. QED BY <2>5 DEF rest
<1>8. SubSeq(kept, 1, w[1][2]) \in Seq(S) /\ later \in [1..n -> Seq(S)]
  <2>1. ASSUME NEW i \in 1..n PROVE SubSeq(kept, w[i + 1][1] + 1, w[i + 1][2]) \in Seq(S)
    <3>1. i + 1 \in 1..Len(w)
      BY <1>1
    <3>q. QED BY <1>2, <1>3, <3>1
  <2>2. w[1][1] = 0 /\ 1 \in 1..Len(w)
    BY <1>1 DEF Marches
  <2>3. SubSeq(kept, 0 + 1, w[1][2]) \in Seq(S)
    BY <1>1, <1>2, <1>3, <2>2
  <2>q. QED BY <2>1, <2>3
<1> HIDE DEF later
<1>9. PICK h : Joins(h, SubSeq(kept, 1, w[1][2]), later, n, overlap)
  <2> DEFINE start == SubSeq(kept, 1, w[1][2])
  <2>1. n \in Nat /\ start \in Seq(C \union {"inconsistent"}) /\ later \in [1..n -> Seq(C \union {"inconsistent"})]
    BY <1>1, <1>8
  <2> HIDE DEF start, n
  <2>2. \E h : Joins(h, start, later, n, overlap)
    BY <2>1, JoinGoesOn, Zenon
  <2>q. QED BY <2>2 DEF start
<1>10. Join(chunks, overlap) = h[1..n]
  BY <1>6, <1>7, <1>9 DEF Join, JoinAll, Joins
<1> DEFINE Bad == {k \in 0..n : h[1..k] # SubSeq(kept, 1, w[k + 1][2])}
<1>11. Bad = {}
  <2> SUFFICES ASSUME Bad # {} PROVE FALSE
    OBVIOUS
  <2>1. PICK k \in Bad : \A y \in Bad : k <= y
    <3>1. Bad \in SUBSET Nat
      BY <1>1
    <3> HIDE DEF Bad
    <3>q. QED BY <3>1, LeastNumber
  <2>2. k \in 1..n
    <3>1. 0 + 1 = 1 /\ h[1..0] = SubSeq(kept, 1, w[0 + 1][2])
      BY <1>9 DEF Joins
    <3>2. 0 \notin Bad
      BY <3>1
    <3>3. k # 0 /\ k \in 0..n
      BY <3>2
    <3>q. QED BY <1>1, <3>3
  <2>3. h[1..(k - 1)] = SubSeq(kept, 1, w[k][2])
    <3>1. k - 1 \in 0..n /\ ~ (k <= k - 1) /\ (k - 1) + 1 = k
      BY <1>1, <2>2
    <3>2. k - 1 \notin Bad
      BY <2>1, <3>1
    <3>3. h[1..(k - 1)] = SubSeq(kept, 1, w[(k - 1) + 1][2])
      BY <3>1, <3>2
    <3>q. QED BY <3>1, <3>3
  <2>4. h[1..k] = JoinOne(h[1..(k - 1)], later[k], overlap) /\ later[k] = SubSeq(kept, w[k + 1][1] + 1, w[k + 1][2])
    BY <1>9, <2>2 DEF later, Joins
  <2>5. k \in 1..Len(w) /\ k + 1 \in 1..Len(w)
    BY <1>1, <2>2
  <2> DEFINE e == w[k][2]
             last == w[k + 1][2]
  <2>6. e \in Nat /\ last \in Nat /\ overlap <= e /\ e < last /\ last <= length /\ w[k + 1][1] = e - overlap
    <3>1. /\ w[k + 1][1] = w[k][1] + (size - overlap) /\ w[k][1] + size < length
          /\ w[k][1] \in Nat /\ e = Least(w[k][1] + size, length)
          /\ last = Least(w[k + 1][1] + size, length)
      <4>1. k \in 1..(Len(w) - 1)
        BY <1>1, <2>2
      <4>2. w[k + 1][1] = w[k][1] + (size - overlap) /\ w[k][1] + size < length
        BY <4>1 DEF Marches
      <4>3. /\ w[k][1] \in 0..length /\ w[k][2] = Least(w[k][1] + size, length)
            /\ w[k + 1][1] \in 0..length /\ w[k + 1][2] = Least(w[k + 1][1] + size, length)
        BY <1>2, <2>5
      <4>4. w[k][1] \in Nat
        BY <4>3
      <4>q. QED BY <4>2, <4>3, <4>4, Zenon
    <3> HIDE DEF e, last, length
    <3> DEFINE b == w[k][1]
               c == w[k + 1][1]
    <3> HIDE DEF b, c
    <3>2. /\ c = b + (size - overlap) /\ b + size < length /\ b \in Nat /\ e = Least(b + size, length)
          /\ last = Least(c + size, length) /\ length \in Nat
      BY <1>1, <3>1 DEF b, c
    <3>3. e = b + size /\ e \in Nat /\ overlap <= e /\ c = e - overlap
      BY <3>2 DEF Least
    <3>4. last \in Nat /\ e < last /\ last <= length
      BY <3>2, <3>3 DEF Least
    <3>q. QED BY <3>2, <3>3, <3>4 DEF c
  <2> HIDE DEF e, last
  <2>7. JoinOne(SubSeq(kept, 1, e), SubSeq(kept, e - overlap + 1, last), overlap) = SubSeq(kept, 1, last)
    BY <2>6, JoinNext
  <2>8. h[1..k] = SubSeq(kept, 1, w[k + 1][2])
    BY <2>3, <2>4, <2>6, <2>7 DEF e, last
  <2>q. QED BY <2>1, <2>8
<1>12. h[1..n] = SubSeq(kept, 1, length)
  <2>1. n \in 0..n /\ n + 1 = Len(w) /\ w[Len(w)][2] = length
    BY <1>1 DEF Marches
  <2>2. h[1..n] = SubSeq(kept, 1, w[n + 1][2])
    BY <1>11, <2>1
  <2> HIDE DEF n
  <2>q. QED BY <2>1, <2>2
<1>13. SubSeq(kept, 1, length) = kept
  <2> DEFINE all == SubSeq(kept, 1, length)
  <2>1. all \in Seq(C) /\ Len(all) = Len(kept) /\ \A i \in 1..Len(all) : all[i] = kept[i]
    OBVIOUS
  <2> HIDE DEF all
  <2>2. all = kept
    BY <2>1, SeqEqual, Zenon
  <2>q. QED BY <2>2 DEF all
<1>q. QED BY <1>10, <1>12, <1>13

(* The first and the last of some places.                                   *)
LEMMA FirstAndLast ==
  ASSUME NEW n \in Nat, NEW S \in SUBSET (1..n), S # {}
  PROVE  /\ Min(S) \in S /\ Max(S) \in S /\ Min(S) \in 1..n /\ Max(S) \in 1..n /\ Min(S) <= Max(S)
         /\ \A y \in S : Min(S) <= y /\ y <= Max(S)
<1>1. S \in SUBSET Nat
  OBVIOUS
<1>2. \E x \in S : \A y \in S : x <= y
  BY <1>1, LeastNumber
<1>3. Min(S) \in S /\ \A y \in S : Min(S) <= y
  BY <1>2, Zenon DEF Min
<1>4. Max(S) \in S /\ \A y \in S : y <= Max(S)
  BY GreatestNumber
<1>q. QED BY <1>3, <1>4

(* strings.TrimSpace leaves a part of the text.                             *)
LEMMA TrimIsText ==
  ASSUME NEW C, NEW text \in Seq(C), NEW blank
  PROVE  Trim(text, blank) \in Seq(C)
<1> DEFINE solid == {i \in DOMAIN text : text[i] # blank}
<1>1. DOMAIN text = 1..Len(text) /\ Len(text) \in Nat
  OBVIOUS
<1>2. CASE solid = {}
  BY <1>2 DEF Trim
<1>3. CASE solid # {}
  <2>1. solid \in SUBSET (1..Len(text))
    BY <1>1
  <2>2. Trim(text, blank) = SubSeq(text, Min(solid), Max(solid))
    BY <1>3 DEF Trim
  <2> HIDE DEF solid
  <2>3. Min(solid) \in 1..Len(text) /\ Max(solid) \in 1..Len(text)
    BY <1>1, <1>3, <2>1, FirstAndLast
  <2>4. SubSeq(text, Min(solid), Max(solid)) \in Seq(C)
    BY <2>3
  <2>q. QED BY <2>2, <2>4
<1>q. QED BY <1>2, <1>3

(* A text that chunkRunes cuts can be joined again, and each chunk adds to  *)
(* what the one before it had.                                              *)
LEMMA TextRejoins ==
  ASSUME NEW C, "inconsistent" \notin C, NEW text \in Seq(C),
         NEW size \in Nat \ {0}, NEW overlap \in Nat, overlap < size
  PROVE  IF Trim(text, "_") = <<>> THEN ChunkText(text, size, overlap) = <<>>
         ELSE /\ Join(ChunkText(text, size, overlap), overlap) = Trim(text, "_")
              /\ EachAdds(Windows(Len(Trim(text, "_")), size, size - overlap), size)
<1> DEFINE kept == Trim(text, "_")
           w == Windows(Len(kept), size, size - overlap)
<1>1. kept \in Seq(C)
  BY TrimIsText
<1>2. CASE kept = <<>>
  BY <1>2 DEF ChunkText
<1>3. CASE kept # <<>>
  <2>1. ChunkText(text, size, overlap) = Cut(kept, w)
    BY <1>3 DEF ChunkText
  <2> HIDE DEF kept
  <2>2. Len(kept) \in Nat /\ Len(kept) # 0
    BY <1>1, <1>3
  <2>3. size - overlap \in 1..size
    OBVIOUS
  <2>4. Marches(w, 0, Len(kept), size, size - overlap)
    BY <2>2, <2>3, WindowsMarch
  <2> HIDE DEF w
  <2>5. EachAdds(w, size)
    BY <2>2, <2>3, <2>4, WindowsAdd
  <2>6. Join(Cut(kept, w), overlap) = kept
    BY <1>1, <2>2, <2>4, ChunksJoin
  <2>q. QED BY <1>3, <2>1, <2>5, <2>6 DEF kept, w
<1>q. QED BY <1>2, <1>3

(* chunkRunes and joinOverlappingChunks, for any alphabet, any length of    *)
(* the text and any size and overlap that config.go accepts: a reader that  *)
(* joins the chunks of an approved manifest gets back the text that was     *)
(* approved, whatever repetitions the text has, and no chunk repeats its    *)
(* predecessor.  ("inconsistent" stands for the error of the join.)         *)
THEOREM TextRebuiltAlways ==
  ASSUME MaxLength \in Nat, "inconsistent" \notin Characters,
         \A s \in Sizings : s[1] \in Nat \ {0} /\ s[2] \in Nat /\ s[2] < s[1]
  PROVE  DecisionsSpec => []TextIsRebuilt
<1>1. DecisionsInit => TextIsRebuilt
  <2>1. DecisionsInit => asked.what # "text"
    BY DEF DecisionsInit, Idle
  <2>q. QED BY <2>1 DEF TextIsRebuilt
<1>2. TextIsRebuilt /\ [DecisionsNext]_<<asked, answer>> => TextIsRebuilt'
  <2> SUFFICES ASSUME TextIsRebuilt, [DecisionsNext]_<<asked, answer>> PROVE TextIsRebuilt'
    OBVIOUS
  <2>1. CASE CutText
    <3>1. PICK n \in 0..(MaxLength + 1) : \E text \in [1..n -> Characters], s \in Sizings :
            /\ asked' = [what |-> "text", text |-> text, size |-> s]
            /\ answer' = <<ChunkText(text, s[1], s[2])>>
      BY <2>1, Zenon DEF CutText, Ask
    <3>2. PICK text \in [1..n -> Characters], s \in Sizings :
            /\ asked' = [what |-> "text", text |-> text, size |-> s]
            /\ answer' = <<ChunkText(text, s[1], s[2])>>
      BY <3>1
    <3>3. text \in Seq(Characters)
      <4>1. n \in Nat
        OBVIOUS
      <4>q. QED BY <4>1
    <3>4. s[1] \in Nat \ {0} /\ s[2] \in Nat /\ s[2] < s[1]
      OBVIOUS
    <3>5. asked'.text = text /\ asked'.size = s /\ answer'[1] = ChunkText(text, s[1], s[2])
      BY <3>2
    <3>6. IF Trim(text, "_") = <<>> THEN ChunkText(text, s[1], s[2]) = <<>>
          ELSE /\ Join(ChunkText(text, s[1], s[2]), s[2]) = Trim(text, "_")
               /\ EachAdds(Windows(Len(Trim(text, "_")), s[1], s[1] - s[2]), s[1])
      BY <3>3, <3>4, TextRejoins
    <3>q. QED BY <3>5, <3>6 DEF TextIsRebuilt, Said
  <2>2. CASE \/ CutMarkdown \/ CutBlocks \/ JudgeAssets \/ PublishRules \/ AnswerSearch \/ AnswerContext \/ ListTargets
             \/ RankTargets \/ WaitAgain \/ ValidateAll \/ ReportUsage \/ ScoreAnswer \/ Done
    <3>1. asked'.what # "text"
      <4>1. JudgeAssets => asked'.what # "text"
        BY DEF JudgeAssets, Ask
      <4>2. CutMarkdown => asked'.what # "text"
        BY DEF CutMarkdown, Ask
      <4>3. CutBlocks => asked'.what # "text"
        BY DEF CutBlocks, Ask
      <4>4. AnswerSearch => asked'.what # "text"
        BY DEF AnswerSearch, Ask
      <4>5. AnswerContext => asked'.what # "text"
        BY DEF AnswerContext, Ask
      <4>6. ListTargets => asked'.what # "text"
        BY DEF ListTargets, Ask
      <4>7. RankTargets => asked'.what # "text"
        BY DEF RankTargets, Ask
      <4>8. WaitAgain => asked'.what # "text"
        BY DEF WaitAgain, Ask
      <4>9. ValidateAll => asked'.what # "text"
        BY DEF ValidateAll, Ask
      <4>10. ReportUsage => asked'.what # "text"
        BY DEF ReportUsage, Ask
      <4>11. ScoreAnswer => asked'.what # "text"
        BY DEF ScoreAnswer, Ask
      <4>12. Done => asked'.what # "text"
        BY DEF Done, Idle
      <4>13. PublishRules => asked'.what # "text"
        BY DEF PublishRules, Ask
      <4>q. QED BY <2>2, <4>1, <4>2, <4>3, <4>4, <4>5, <4>6, <4>7, <4>8, <4>9, <4>10, <4>11, <4>12, <4>13
    <3>q. QED BY <3>1 DEF TextIsRebuilt
  <2>3. CASE UNCHANGED <<asked, answer>>
    BY <2>3 DEF TextIsRebuilt, Said
  <2>q. QED BY <2>1, <2>2, <2>3 DEF DecisionsNext
<1>q. QED BY <1>1, <1>2, PTL DEF DecisionsSpec

-------------------------------------------------------------------------------
(* Blocks and their parts. *)

(* There is one way to list numbers in ascending order.                     *)
LEMMA OneAscent ==
  ASSUME NEW n \in Nat, NEW P \in SUBSET (1..n), NEW m \in Nat, NEW b \in [1..m -> P],
         \A i, j \in 1..m : i < j => b[i] < b[j], \A x \in P : \E i \in 1..m : b[i] = x
  PROVE  Cardinality(P) = m /\ \A i \in 1..m : Places(P)[i] = b[i]
<1> DEFINE c == Places(P)
<1>0. \A x \in P : x \in Int
  OBVIOUS
<1>n. \A i \in 1..m : b[i] \in P /\ b[i] \in Int
  BY <1>0
<1>1. Cardinality(P) = m
  <2>1. b \in Surjection(1..m, P)
    BY DEF Surjection
  <2>2. b \in Injection(1..m, P)
    <3>1. ASSUME NEW i \in 1..m, NEW j \in 1..m, i # j PROVE b[i] # b[j]
      <4>1. (i < j \/ j < i) /\ b[i] \in Int /\ b[j] \in Int
        BY <1>n, <3>1
      <4>q. QED BY <4>1
    <3>q. QED BY <3>1 DEF Injection, IsInjective
  <2>3. IsFiniteSet(1..m) /\ Cardinality(1..m) = m
    <3>1. 1 \in Int /\ m \in Int
      OBVIOUS
    <3>2. IsFiniteSet(1..m) /\ Cardinality(1..m) = IF 1 > m THEN 0 ELSE m - 1 + 1
      BY <3>1, FS_Interval
    <3>q. QED BY <3>2
  <2>q. QED BY <2>1, <2>2, <2>3, FS_Surjection
<1>2. /\ c \in [1..m -> P]
      /\ \A i, j \in 1..m : i < j => c[i] < c[j]
      /\ \A x \in P : \E k \in 1..m : c[k] = x
  BY <1>1, PlacesAscend
<1> HIDE DEF c
<1> DEFINE Bad == {i \in 1..m : c[i] # b[i]}
<1>3. Bad = {}
  <2> SUFFICES ASSUME Bad # {} PROVE FALSE
    OBVIOUS
  <2>1. PICK i \in Bad : \A y \in Bad : i <= y
    <3>1. Bad \in SUBSET Nat
      OBVIOUS
    <3> HIDE DEF Bad
    <3>q. QED BY <3>1, LeastNumber
  <2>2. i \in 1..m /\ c[i] \in P /\ b[i] \in P /\ c[i] # b[i] /\ c[i] \in Int /\ b[i] \in Int
    <3>1. i \in 1..m /\ c[i] # b[i]
      BY <2>1
    <3>2. c[i] \in P
      BY <1>2, <3>1
    <3>q. QED BY <1>0, <1>n, <3>1, <3>2
  <2>3. \A j \in 1..m : j < i => c[j] = b[j]
    BY <2>1
  <2>4. \A j \in 1..m : j < i \/ j = i \/ i < j
    OBVIOUS
  <2>5. PICK j \in 1..m : b[j] = c[i]
    BY <2>2
  <2>6. PICK k \in 1..m : c[k] = b[i]
    BY <1>2, <2>2
  <2>7. b[j] \in Int /\ c[j] \in Int /\ c[k] \in Int /\ b[k] \in Int
    <3>1. c[j] \in P /\ c[k] \in P
      BY <1>2
    <3>q. QED BY <1>0, <1>n, <3>1
  <2>8. CASE c[i] < b[i]
    <3>1. j < i
      <4>1. ASSUME i < j PROVE FALSE
        <5>1. b[i] < b[j]
          BY <2>2, <4>1
        <5>q. QED BY <2>2, <2>5, <2>7, <2>8, <5>1
      <4>q. QED BY <2>2, <2>4, <2>5, <4>1
    <3>2. c[j] < c[i]
      BY <1>2, <2>2, <3>1
    <3>q. QED BY <2>2, <2>3, <2>5, <3>1, <3>2
  <2>9. CASE b[i] < c[i]
    <3>1. k < i
      <4>1. ASSUME i < k PROVE FALSE
        <5>1. c[i] < c[k]
          BY <1>2, <2>2, <4>1
        <5>q. QED BY <2>2, <2>6, <2>7, <2>9, <5>1
      <4>q. QED BY <2>2, <2>4, <2>6, <4>1
    <3>2. b[k] < b[i]
      BY <2>2, <3>1
    <3>q. QED BY <2>2, <2>3, <2>6, <3>1, <3>2
  <2>q. QED BY <2>2, <2>8, <2>9
<1>q. QED BY <1>1, <1>3 DEF c

(* The places of an interval are its numbers.                               *)
LEMMA PlacesOfInterval ==
  ASSUME NEW a \in Nat, NEW m \in Nat
  PROVE  Cardinality((a + 1)..(a + m)) = m /\ \A i \in 1..m : Places((a + 1)..(a + m))[i] = a + i
<1> DEFINE P == (a + 1)..(a + m)
           b == [i \in 1..m |-> a + i]
<1>1. P \in SUBSET (1..(a + m)) /\ a + m \in Nat
  OBVIOUS
<1>2. b \in [1..m -> P] /\ \A i \in 1..m : b[i] = a + i
  OBVIOUS
<1>3. \A x \in P : \E i \in 1..m : b[i] = x
  <2>1. ASSUME NEW x \in P PROVE x - a \in 1..m /\ a + (x - a) = x
    OBVIOUS
  <2>q. QED BY <1>2, <2>1
<1> HIDE DEF P, b
<1>4. \A i, j \in 1..m : i < j => b[i] < b[j]
  BY <1>2
<1>5. Cardinality(P) = m /\ \A i \in 1..m : Places(P)[i] = b[i]
  BY <1>1, <1>2, <1>3, <1>4, OneAscent
<1>q. QED BY <1>2, <1>5 DEF P

\* h joins the sequences one after another.
Flattens(h, seqs, n) ==
  h[1] = seqs[1] /\ (\A i \in 2..n : h[i] = h[i - 1] \o seqs[i]) /\ FlattenSeq(seqs) = h[n]

(* Sequences are joined one after another.                                  *)
LEMMA FlattenGoesOn ==
  ASSUME NEW S, NEW n \in Nat \ {0}, NEW seqs \in [1..n -> Seq(S)]
  PROVE  \E h : Flattens(h, seqs, n)
<1> DEFINE T == Seq(S)
           f == [p \in T \X T |-> p[1] \o p[2]]
           Loop(h) == [i \in 1..Len(seqs) |-> IF i = 1 THEN seqs[i] ELSE h[i - 1] \o seqs[i]]
           flatten[i \in 1..Len(seqs)] == IF i = 1 THEN seqs[i] ELSE flatten[i - 1] \o seqs[i]
<1>1. Len(seqs) = n /\ n \in Nat
  <2>1. seqs \in Seq(T) /\ DOMAIN seqs = 1..n
    OBVIOUS
  <2>2. DOMAIN seqs = 1..Len(seqs) /\ Len(seqs) \in Nat
    BY <2>1
  <2>q. QED BY <2>1, <2>2
<1>2. FlattenSeq(seqs) = flatten[Len(seqs)]
  BY <1>1 DEF FlattenSeq
<1>3. f \in [T \X T -> T] /\ \A a, b \in T : f[<<a, b>>] = a \o b
  <2>1. \A a, b \in T : a \o b \in T
    OBVIOUS
  <2> HIDE DEF T
  <2>2. ASSUME NEW p \in T \X T PROVE p[1] \o p[2] \in T
    BY <2>1
  <2>q. QED BY <2>2
<1>4. PICK g \in [SUBSET (1..n) -> T] : Accumulates(g, 1..n, f, <<>>, seqs)
  <2>1. <<>> \in T /\ seqs \in [1..n -> T]
    OBVIOUS
  <2> HIDE DEF T, f
  <2>q. QED BY <1>1, <1>3, <2>1, LoopExists
<1>5. StepByStep(g, n, f, <<>>, seqs)
  <2> HIDE DEF f
  <2>q. QED BY <1>1, <1>4, LoopSteps
<1> HIDE DEF f
<1> DEFINE V == [i \in 1..n |-> g[1..i]]
<1>6. ASSUME NEW i \in 1..n PROVE g[1..i] = IF i = 1 THEN seqs[i] ELSE V[i - 1] \o seqs[i]
  <2>1. g[1..i] = f[<<g[1..(i - 1)], seqs[i]>>]
    BY <1>5 DEF StepByStep
  <2>2. 1..(i - 1) \in SUBSET (1..n) /\ seqs[i] \in T
    OBVIOUS
  <2>3. g[1..(i - 1)] \in T
    BY <2>2
  <2>4. g[1..i] = g[1..(i - 1)] \o seqs[i]
    <3> HIDE DEF T
    <3>q. QED BY <1>3, <2>1, <2>2, <2>3
  <2>5. CASE i = 1
    <3>1. g[1..(i - 1)] = <<>>
      <4>1. i - 1 = 0
        BY <2>5
      <4>q. QED BY <1>5, <4>1 DEF StepByStep
    <3>2. <<>> \o seqs[i] = seqs[i]
      BY <2>2
    <3>q. QED BY <2>4, <2>5, <3>1, <3>2
  <2>6. CASE i # 1
    <3>1. i - 1 \in 1..n
      BY <2>6
    <3>q. QED BY <2>4, <2>6, <3>1
  <2>q. QED BY <2>5, <2>6
<1>7. V = Loop(V)
  BY <1>1, <1>6
<1>8. flatten = Loop(flatten)
  <2> HIDE DEF V
  <2>q. QED BY <1>7, Zenon
<1> HIDE DEF flatten, V
<1>9. \A i \in 1..n : flatten[i] = IF i = 1 THEN seqs[i] ELSE flatten[i - 1] \o seqs[i]
  BY <1>1, <1>8
<1>10. flatten[1] = seqs[1] /\ \A i \in 2..n : flatten[i] = flatten[i - 1] \o seqs[i]
  <2>1. 1 \in 1..n /\ \A i \in 2..n : i \in 1..n /\ i # 1
    OBVIOUS
  <2>q. QED BY <1>9, <2>1
<1>11. Flattens(flatten, seqs, n)
  BY <1>1, <1>2, <1>10 DEF Flattens
<1>q. QED BY <1>11

Cells == [block : Nat, column : Nat, prefix : Nat, length : Nat]

PartKey(x) == <<x.block, x.column>>

\* Parts of the block of this number, no two of one column.
PartsOfBlock(parts, number) ==
  /\ parts \in Seq(Cells)
  /\ \A i \in 1..Len(parts) : parts[i].block = number
  /\ \A i, j \in 1..Len(parts) : i # j => parts[i].column # parts[j].column

(* ChunkConvertedDocument: what it cuts of a block.                         *)
LEMMA PartsFit ==
  ASSUME NEW b, BlockFits(b), NEW number \in Nat, NEW max
  PROVE  PartsOfBlock(Parts(b, number, max), number)
<1>1. ASSUME b.kind = "table_row", b.length > max PROVE PartsOfBlock(Parts(b, number, max), number)
  <2> DEFINE m == Len(b.cells)
             part(i) == Cell(number, i, b.names[i], b.cells[i])
             parts == [i \in 1..m |-> part(i)]
  <2>1. m \in Nat /\ DOMAIN b.cells = 1..m /\ \A i \in 1..m : b.cells[i] \in Nat /\ b.names[i] \in Nat
    BY <1>1 DEF BlockFits
  <2>2. Parts(b, number, max) = parts
    BY <1>1, <2>1 DEF Parts
  <2> HIDE DEF m
  <2>3. ASSUME NEW i \in 1..m PROVE part(i) \in Cells /\ part(i).block = number /\ part(i).column = i
    <3>1. i \in Nat /\ b.cells[i] \in Nat /\ b.names[i] \in Nat
      BY <2>1
    <3>q. QED BY <3>1 DEF Cell, Cells
  <2> HIDE DEF part
  <2>4. parts \in [1..m -> Cells]
    BY <2>3
  <2>5. parts \in Seq(Cells) /\ Len(parts) = m /\ \A i \in 1..m : parts[i] = part(i)
    BY <2>1, <2>4
  <2> HIDE DEF parts
  <2>q. QED BY <2>2, <2>3, <2>5 DEF PartsOfBlock
<1>2. ASSUME ~ (b.kind = "table_row" /\ b.length > max) PROVE PartsOfBlock(Parts(b, number, max), number)
  <2> DEFINE cell == Cell(number, 0, 0, b.length)
  <2>1. cell \in Cells /\ cell.block = number
    BY DEF BlockFits, Cell, Cells
  <2>2. Parts(b, number, max) = <<cell>>
    BY <1>2 DEF Parts
  <2> HIDE DEF cell
  <2>3. <<cell>> \in Seq(Cells) /\ Len(<<cell>>) = 1 /\ <<cell>>[1] = cell
    BY <2>1
  <2>4. \A i \in 1..1 : i = 1
    OBVIOUS
  <2>q. QED BY <2>1, <2>2, <2>3, <2>4 DEF PartsOfBlock
<1>q. QED BY <1>1, <1>2

\* parts has all parts of the first k blocks, each once.
AllPartsOf(parts, all, k) ==
  /\ parts \in Seq(Cells)
  /\ \A i \in 1..Len(parts) : parts[i].block \in 1..k
  /\ \A i, j \in 1..Len(parts) : i # j => PartKey(parts[i]) # PartKey(parts[j])
  /\ \A n \in 1..k : \A p \in 1..Len(all[n]) : \E i \in 1..Len(parts) : parts[i] = all[n][p]

(* ChunkConvertedDocument: the parts of another block.                      *)
LEMMA PartsOfAnother ==
  ASSUME NEW k \in Nat, NEW all, NEW parts, AllPartsOf(parts, all, k), PartsOfBlock(all[k + 1], k + 1)
  PROVE  AllPartsOf(parts \o all[k + 1], all, k + 1)
<1> DEFINE new == all[k + 1]
           both == parts \o new
           a == Len(parts)
           b == Len(new)
<1>1. parts \in Seq(Cells) /\ new \in Seq(Cells) /\ a \in Nat /\ b \in Nat
  BY DEF AllPartsOf, PartsOfBlock
<1>2. both \in Seq(Cells) /\ Len(both) = a + b /\ \A i \in 1..(a + b) : both[i] = IF i <= a THEN parts[i] ELSE new[i - a]
  BY <1>1, OneAfterAnother
<1>3. /\ \A i \in 1..a : parts[i].block \in 1..k
      /\ \A i, j \in 1..a : i # j => PartKey(parts[i]) # PartKey(parts[j])
      /\ \A n \in 1..k : \A p \in 1..Len(all[n]) : \E i \in 1..a : parts[i] = all[n][p]
      /\ \A i \in 1..b : new[i].block = k + 1
      /\ \A i, j \in 1..b : i # j => new[i].column # new[j].column
  BY DEF AllPartsOf, PartsOfBlock
<1> HIDE DEF new, both, a, b
<1>4. ASSUME NEW i \in 1..(a + b)
      PROVE  \/ i \in 1..a /\ both[i] = parts[i]
             \/ i - a \in 1..b /\ ~ (i <= a) /\ both[i] = new[i - a]
  BY <1>1, <1>2
<1>5. ASSUME NEW i \in 1..(a + b) PROVE both[i].block \in 1..(k + 1)
  <2>1. CASE i \in 1..a /\ both[i] = parts[i]
    <3>1. parts[i].block \in 1..k
      BY <1>3, <2>1
    <3>q. QED BY <2>1, <3>1
  <2>2. CASE i - a \in 1..b /\ both[i] = new[i - a]
    <3>1. new[i - a].block = k + 1
      BY <1>3, <2>2
    <3>q. QED BY <2>2, <3>1
  <2>q. QED BY <1>4, <2>1, <2>2
<1>6. ASSUME NEW i \in 1..(a + b), NEW j \in 1..(a + b), i # j PROVE PartKey(both[i]) # PartKey(both[j])
  <2>1. \A x, y : PartKey(x) = PartKey(y) => x.block = y.block /\ x.column = y.column
    BY DEF PartKey
  <2>2. ASSUME NEW x \in 1..a, NEW y \in 1..b PROVE parts[x].block # new[y].block
    <3>1. parts[x].block \in 1..k /\ new[y].block = k + 1
      BY <1>3
    <3>q. QED BY <3>1
  <2>3. CASE i \in 1..a /\ both[i] = parts[i] /\ j \in 1..a /\ both[j] = parts[j]
    BY <1>3, <1>6, <2>3
  <2>4. CASE i \in 1..a /\ both[i] = parts[i] /\ j - a \in 1..b /\ both[j] = new[j - a]
    <3>1. parts[i].block # new[j - a].block
      BY <2>2, <2>4
    <3>q. QED BY <2>1, <2>4, <3>1
  <2>5. CASE i - a \in 1..b /\ both[i] = new[i - a] /\ j \in 1..a /\ both[j] = parts[j]
    <3>1. parts[j].block # new[i - a].block
      BY <2>2, <2>5
    <3>q. QED BY <2>1, <2>5, <3>1
  <2>6. CASE i - a \in 1..b /\ both[i] = new[i - a] /\ j - a \in 1..b /\ both[j] = new[j - a]
    <3> DEFINE x == i - a
               y == j - a
    <3>1. x # y /\ x \in 1..b /\ y \in 1..b
      BY <1>1, <1>6, <2>6
    <3> HIDE DEF x, y
    <3>2. new[x].column # new[y].column
      BY <1>3, <3>1
    <3>3. both[i] = new[x] /\ both[j] = new[y]
      BY <2>6 DEF x, y
    <3>q. QED BY <2>1, <3>2, <3>3
  <2>q. QED BY <1>4, <2>3, <2>4, <2>5, <2>6
<1>7. ASSUME NEW n \in 1..(k + 1), NEW p \in 1..Len(all[n]) PROVE \E i \in 1..(a + b) : both[i] = all[n][p]
  <2>1. CASE n \in 1..k
    <3>1. PICK i \in 1..a : parts[i] = all[n][p]
      BY <1>3, <2>1
    <3>2. i \in 1..(a + b) /\ i <= a
      BY <1>1
    <3>q. QED BY <1>2, <3>1, <3>2
  <2>2. CASE n = k + 1
    <3>1. all[n] = new /\ p \in 1..b
      BY <2>2 DEF new, b
    <3> DEFINE i == a + p
    <3>2. i \in 1..(a + b) /\ ~ (i <= a) /\ i - a = p
      BY <1>1, <3>1
    <3> HIDE DEF i
    <3>3. both[i] = new[i - a]
      BY <1>2, <3>2
    <3>q. QED BY <3>1, <3>2, <3>3
  <2>3. n \in 1..k \/ n = k + 1
    OBVIOUS
  <2>q. QED BY <2>1, <2>2, <2>3
<1>8. Len(both) = a + b /\ both \in Seq(Cells)
  BY <1>2
<1>9. AllPartsOf(both, all, k + 1)
  BY <1>5, <1>6, <1>7, <1>8 DEF AllPartsOf
<1>q. QED BY <1>9 DEF both, new

(* ChunkConvertedDocument: the parts of all blocks.                         *)
LEMMA PartsOfAll ==
  ASSUME NEW n \in Nat, NEW blocks, DOMAIN blocks = 1..n, \A k \in 1..n : BlockFits(blocks[k]), NEW max
  PROVE  AllPartsOf(FlattenSeq([k \in DOMAIN blocks |-> Parts(blocks[k], k, max)]),
                    [k \in DOMAIN blocks |-> Parts(blocks[k], k, max)], n)
<1> DEFINE all == [k \in DOMAIN blocks |-> Parts(blocks[k], k, max)]
<1>1. ASSUME NEW k \in 1..n PROVE PartsOfBlock(all[k], k)
  <2>1. all[k] = Parts(blocks[k], k, max) /\ k \in Nat
    OBVIOUS
  <2>2. PartsOfBlock(Parts(blocks[k], k, max), k)
    BY <2>1, PartsFit
  <2> HIDE DEF all
  <2>q. QED BY <2>1, <2>2
<1>2. DOMAIN all = 1..n /\ all = [k \in 1..n |-> all[k]]
  OBVIOUS
<1> HIDE DEF all
<1>3. all \in [1..n -> Seq(Cells)]
  <2>1. \A k \in 1..n : all[k] \in Seq(Cells)
    BY <1>1 DEF PartsOfBlock
  <2>q. QED BY <1>2, <2>1
<1>4. CASE n = 0
  <2>1. 1..n = {}
    BY <1>4
  <2>2. all = <<>>
    BY <1>2, <2>1
  <2>3. FlattenSeq(all) = <<>>
    BY <2>2 DEF FlattenSeq
  <2>4. <<>> \in Seq(Cells) /\ Len(<<>>) = 0 /\ 1..0 = {}
    OBVIOUS
  <2>5. AllPartsOf(<<>>, all, n)
    BY <2>1, <2>4 DEF AllPartsOf
  <2>q. QED BY <2>3, <2>5 DEF all
<1>5. CASE n # 0
  <2>1. n \in Nat \ {0}
    BY <1>5
  <2>2. PICK h : Flattens(h, all, n)
    BY <1>3, <2>1, FlattenGoesOn
  <2> DEFINE Bad == {k \in 1..n : ~AllPartsOf(h[k], all, k)}
  <2>3. AllPartsOf(h[1], all, 1)
    <3>1. 1 \in 1..n
      BY <2>1
    <3>2. h[1] = all[1] /\ PartsOfBlock(all[1], 1)
      BY <1>1, <2>2, <3>1 DEF Flattens
    <3>3. \A i, j \in 1..Len(h[1]) : i # j => PartKey(h[1][i]) # PartKey(h[1][j])
      BY <3>2 DEF PartsOfBlock, PartKey
    <3>4. \A k \in 1..1 : k = 1
      OBVIOUS
    <3>q. QED BY <3>2, <3>3, <3>4 DEF AllPartsOf, PartsOfBlock
  <2>4. Bad = {}
    <3> SUFFICES ASSUME Bad # {} PROVE FALSE
      OBVIOUS
    <3>1. PICK k \in Bad : \A y \in Bad : k <= y
      <4>1. Bad \in SUBSET Nat
        OBVIOUS
      <4> HIDE DEF Bad
      <4>q. QED BY <4>1, LeastNumber
    <3>2. k # 1
      BY <2>3, <3>1
    <3> DEFINE j == k - 1
    <3>3. j \in 1..n /\ ~ (k <= j) /\ j \in Nat /\ j + 1 = k /\ k \in 2..n
      BY <3>2
    <3> HIDE DEF j
    <3>4. AllPartsOf(h[j], all, j)
      BY <3>1, <3>3
    <3>5. PartsOfBlock(all[j + 1], j + 1)
      BY <1>1, <3>3
    <3>6. AllPartsOf(h[j] \o all[j + 1], all, j + 1)
      BY <3>3, <3>4, <3>5, PartsOfAnother
    <3>7. h[k] = h[j] \o all[k]
      BY <2>2, <3>3 DEF Flattens, j
    <3>q. QED BY <3>1, <3>3, <3>6, <3>7
  <2>5. n \in 1..n
    BY <2>1
  <2>6. AllPartsOf(FlattenSeq(all), all, n)
    BY <2>2, <2>4, <2>5 DEF Flattens
  <2>q. QED BY <2>6 DEF all
<1>q. QED BY <1>4, <1>5

CutPieces == [block : Nat, column : Nat, from : Nat, to : Nat, length : Int]

Outcomes == Seq(CutPieces) \union {NoChunks}

PieceOf(part, w) ==
  [block |-> part.block, column |-> part.column, from |-> w[1], to |-> w[2], length |-> part.prefix + w[2] - w[1]]

StepOf(part, max, overlap) == Capacity(part, max) - OverlapFor(Capacity(part, max), overlap)

WindowsOf(part, max, overlap) == Windows(part.length, Capacity(part, max), StepOf(part, max, overlap))

PiecesOfPart(part, max, overlap) ==
  [i \in DOMAIN WindowsOf(part, max, overlap) |-> PieceOf(part, WindowsOf(part, max, overlap)[i])]

Chunkable(part, max, overlap) ==
  Marches(WindowsOf(part, max, overlap), 0, part.length, Capacity(part, max), StepOf(part, max, overlap))

(* addText: the windows of a part that fits a chunk.                        *)
LEMMA PartIsCut ==
  ASSUME NEW part \in Cells, NEW max \in Nat, NEW overlap \in Nat, Capacity(part, max) >= 1
  PROVE  /\ Capacity(part, max) \in Nat \ {0} /\ StepOf(part, max, overlap) \in 1..Capacity(part, max)
         /\ Chunkable(part, max, overlap)
         /\ PiecesOfPart(part, max, overlap) \in Seq(CutPieces)
         /\ Len(PiecesOfPart(part, max, overlap)) = Len(WindowsOf(part, max, overlap))
         /\ \A i \in 1..Len(WindowsOf(part, max, overlap)) :
              PiecesOfPart(part, max, overlap)[i] = PieceOf(part, WindowsOf(part, max, overlap)[i])
<1> DEFINE capacity == Capacity(part, max)
           step == StepOf(part, max, overlap)
           w == WindowsOf(part, max, overlap)
           pieces == PiecesOfPart(part, max, overlap)
           m == Len(w)
<1>1. part.block \in Nat /\ part.column \in Nat /\ part.prefix \in Nat /\ part.length \in Nat
  BY DEF Cells
<1>2. capacity \in Nat \ {0}
  BY <1>1 DEF Capacity
<1>3. step \in 1..capacity
  <2> HIDE DEF capacity
  <2>1. step = capacity - OverlapFor(capacity, overlap)
    BY DEF StepOf, capacity
  <2>2. capacity \div 2 \in 0..(capacity - 1)
    BY <1>2
  <2>q. QED BY <1>2, <2>1, <2>2 DEF OverlapFor
<1> HIDE DEF capacity, step, m
<1>4. Marches(w, 0, part.length, capacity, step)
  <2>1. Marches(Windows(part.length, capacity, step), 0, part.length, capacity, step)
    BY <1>1, <1>2, <1>3, WindowsMarch
  <2>q. QED BY <2>1 DEF WindowsOf, capacity, step
<1>5. pieces = [i \in DOMAIN w |-> PieceOf(part, w[i])]
  BY DEF PiecesOfPart
<1> HIDE DEF w, pieces
<1>6. w \in Seq((0..part.length) \X (0..part.length)) /\ m \in Nat /\ DOMAIN w = 1..m
  <2>1. w \in Seq((0..part.length) \X (0..part.length))
    BY <1>4 DEF Marches
  <2>q. QED BY <2>1 DEF m
<1>7. ASSUME NEW i \in 1..m PROVE PieceOf(part, w[i]) \in CutPieces
  <2>1. w[i] \in (0..part.length) \X (0..part.length)
    BY <1>6 DEF m
  <2>2. w[i][1] \in Nat /\ w[i][2] \in Nat
    BY <1>1, <2>1
  <2>q. QED BY <1>1, <2>2 DEF PieceOf, CutPieces
<1>8. pieces \in [1..m -> CutPieces] /\ \A i \in 1..m : pieces[i] = PieceOf(part, w[i])
  BY <1>5, <1>6, <1>7
<1>9. pieces \in Seq(CutPieces) /\ Len(pieces) = m
  BY <1>6, <1>8
<1>10. Chunkable(part, max, overlap)
  BY <1>4 DEF Chunkable, w, capacity, step
<1>q. QED BY <1>2, <1>3, <1>8, <1>9, <1>10 DEF capacity, step, w, pieces, m

(* addText: what it does to the chunks.                                     *)
LEMMA PartAdded ==
  ASSUME NEW chunks \in Outcomes, NEW part \in Cells, NEW max \in Nat, NEW overlap \in Nat, NEW limit
  PROVE  /\ AddPart(chunks, part, max, overlap, limit) \in Outcomes
         /\ AddPart(chunks, part, max, overlap, limit) # NoChunks =>
              /\ chunks # NoChunks /\ chunks \in Seq(CutPieces) /\ Capacity(part, max) >= 1
              /\ AddPart(chunks, part, max, overlap, limit) = chunks \o PiecesOfPart(part, max, overlap)
<1> DEFINE pieces == PiecesOfPart(part, max, overlap)
           new == AddPart(chunks, part, max, overlap, limit)
           many == Len(chunks) + Len(WindowsOf(part, max, overlap)) > limit
           none == chunks = NoChunks \/ Capacity(part, max) < 1
<1>1. new = IF none THEN NoChunks ELSE IF many THEN NoChunks ELSE chunks \o pieces
  BY DEF AddPart, PiecesOfPart, PieceOf, WindowsOf, StepOf
<1> HIDE DEF new, many, pieces
<1>2. new # NoChunks => ~none /\ new = chunks \o pieces
  BY <1>1
<1>3. ASSUME ~none PROVE chunks \in Seq(CutPieces) /\ Capacity(part, max) >= 1 /\ pieces \in Seq(CutPieces)
  <2>1. chunks \in Seq(CutPieces)
    BY <1>3 DEF Outcomes
  <2>2. Capacity(part, max) \in Int
    BY DEF Capacity, Cells
  <2>3. Capacity(part, max) >= 1
    BY <1>3, <2>2
  <2>4. pieces \in Seq(CutPieces)
    BY <2>3, PartIsCut DEF pieces
  <2>q. QED BY <2>1, <2>3, <2>4
<1>4. new \in Outcomes
  <2>1. CASE new = NoChunks
    BY <2>1 DEF Outcomes
  <2>2. CASE new # NoChunks
    <3>1. chunks \in Seq(CutPieces) /\ pieces \in Seq(CutPieces) /\ new = chunks \o pieces
      BY <1>2, <1>3, <2>2
    <3> HIDE DEF none
    <3>2. chunks \o pieces \in Seq(CutPieces)
      BY <3>1
    <3>q. QED BY <3>1, <3>2 DEF Outcomes
  <2>q. QED BY <2>1, <2>2
<1>5. new # NoChunks => chunks # NoChunks /\ chunks \in Seq(CutPieces) /\ Capacity(part, max) >= 1 /\ new = chunks \o pieces
  BY <1>2, <1>3
<1>q. QED BY <1>4, <1>5 DEF new, pieces

\* The pieces of a part lie after the first a chunks, and nowhere else.
Lies(chunks, part, a, w) ==
  /\ a + Len(w) <= Len(chunks)
  /\ \A i \in 1..Len(w) : chunks[a + i] = PieceOf(part, w[i])
  /\ \A i \in 1..Len(chunks) : PartKey(chunks[i]) = PartKey(part) <=> i \in (a + 1)..(a + Len(w))

\* What chunks of the first k parts are.
HasParts(chunks, parts, k, max, overlap) ==
  /\ chunks \in Seq(CutPieces)
  /\ \A i \in 1..Len(chunks) : chunks[i].length <= max /\ \E j \in 1..k : PartKey(chunks[i]) = PartKey(parts[j])
  /\ \A j \in 1..k : /\ Capacity(parts[j], max) >= 1
                     /\ \E a \in Nat : Lies(chunks, parts[j], a, WindowsOf(parts[j], max, overlap))

(* addText: the chunks of a part come after the others.                     *)
LEMMA PartsLie ==
  ASSUME NEW max \in Nat, NEW overlap \in Nat, NEW parts, NEW m \in Nat, parts \in [1..m -> Cells],
         \A i, j \in 1..m : i # j => PartKey(parts[i]) # PartKey(parts[j]),
         NEW k \in 1..m, NEW chunks, HasParts(chunks, parts, k - 1, max, overlap), Capacity(parts[k], max) >= 1
  PROVE  HasParts(chunks \o PiecesOfPart(parts[k], max, overlap), parts, k, max, overlap)
<1> DEFINE part == parts[k]
           pieces == PiecesOfPart(part, max, overlap)
           both == chunks \o pieces
           w == WindowsOf(part, max, overlap)
           a == Len(chunks)
           b == Len(w)
<1>0. part \in Cells
  OBVIOUS
<1>1. /\ Capacity(part, max) \in Nat \ {0} /\ Chunkable(part, max, overlap)
      /\ pieces \in Seq(CutPieces) /\ Len(pieces) = b
      /\ \A i \in 1..b : pieces[i] = PieceOf(part, w[i])
  BY <1>0, PartIsCut
<1>2. chunks \in Seq(CutPieces) /\ a \in Nat
  BY DEF HasParts
<1>3. b \in Nat /\ \A i \in 1..b : w[i][1] \in Int /\ w[i][2] \in Int /\ w[i][2] - w[i][1] <= Capacity(part, max)
  <2>1. part.length \in Nat
    BY <1>0 DEF Cells
  <2>2. b \in Nat /\ \A i \in 1..b : w[i][1] \in 0..part.length /\ w[i][2] = Least(w[i][1] + Capacity(part, max), part.length)
    BY <1>1 DEF Chunkable, Marches
  <2> HIDE DEF b, w, part
  <2>q. QED BY <1>1, <2>1, <2>2 DEF Least
<1> HIDE DEF pieces, w, a, b
<1>4. both \in Seq(CutPieces) /\ Len(both) = a + b /\ \A i \in 1..(a + b) : both[i] = IF i <= a THEN chunks[i] ELSE pieces[i - a]
  <2>1. both \in Seq(CutPieces) /\ Len(both) = Len(chunks) + Len(pieces)
        /\ \A i \in 1..(Len(chunks) + Len(pieces)) : both[i] = IF i <= Len(chunks) THEN chunks[i] ELSE pieces[i - Len(chunks)]
    BY <1>1, <1>2, OneAfterAnother
  <2> HIDE DEF both
  <2>2. Len(chunks) = a /\ Len(pieces) = b
    BY <1>1 DEF a
  <2>q. QED BY <2>1, <2>2
<1> HIDE DEF both
<1>5. /\ \A i \in 1..a : chunks[i].length <= max /\ \E j \in 1..(k - 1) : PartKey(chunks[i]) = PartKey(parts[j])
      /\ \A j \in 1..(k - 1) : /\ Capacity(parts[j], max) >= 1
                               /\ \E o \in Nat : Lies(chunks, parts[j], o, WindowsOf(parts[j], max, overlap))
  BY DEF HasParts, a
<1>6. \A i \in 1..a : both[i] = chunks[i]
  BY <1>2, <1>3, <1>4
<1>7. ASSUME NEW i \in 1..b PROVE a + i \in 1..(a + b) /\ both[a + i] = PieceOf(part, w[i])
  <2> DEFINE x == a + i
  <2>1. x \in 1..(a + b) /\ ~ (x <= a) /\ x - a = i
    BY <1>2, <1>3
  <2> HIDE DEF x
  <2>2. both[x] = pieces[x - a]
    BY <1>4, <2>1
  <2>q. QED BY <1>1, <2>1, <2>2 DEF x
<1>8. \A i \in 1..(a + b) : i \in 1..a \/ (i - a \in 1..b /\ a + (i - a) = i /\ ~ (i \in 1..a))
  BY <1>2, <1>3
<1>9. \A x : PartKey(PieceOf(part, x)) = PartKey(part)
  BY DEF PieceOf, PartKey
<1>10. \A j \in 1..(k - 1) : j \in 1..m /\ PartKey(parts[j]) # PartKey(part)
  <2>1. \A j \in 1..(k - 1) : j \in 1..m /\ j # k
    OBVIOUS
  <2>q. QED BY <2>1
<1>11. 1..k = 1..(k - 1) \union {k}
  OBVIOUS
<1>12. ASSUME NEW i \in 1..(a + b)
       PROVE  both[i].length <= max /\ \E j \in 1..k : PartKey(both[i]) = PartKey(parts[j])
  <2>1. CASE i \in 1..a
    BY <1>5, <1>6, <1>11, <2>1
  <2>2. CASE i - a \in 1..b /\ a + (i - a) = i
    <3> DEFINE x == i - a
    <3>1. x \in 1..b /\ a + x = i
      BY <2>2
    <3> HIDE DEF x
    <3>2. both[i] = PieceOf(part, w[x])
      BY <1>7, <3>1
    <3>3. both[i].length = part.prefix + w[x][2] - w[x][1]
      BY <3>2 DEF PieceOf
    <3>4. part.prefix \in Nat /\ Capacity(part, max) = max - part.prefix
      BY <1>0 DEF Cells, Capacity
    <3>5. both[i].length <= max
      <4> HIDE DEF part
      <4>1. w[x][1] \in Int /\ w[x][2] \in Int /\ w[x][2] - w[x][1] <= Capacity(part, max)
        BY <1>3, <3>1
      <4>q. QED BY <3>3, <3>4, <4>1
    <3>6. PartKey(both[i]) = PartKey(part)
      BY <1>9, <3>2
    <3>q. QED BY <1>11, <3>5, <3>6
  <2>q. QED BY <1>8, <2>1, <2>2
<1>13. ASSUME NEW j \in 1..(k - 1)
       PROVE  \E o \in Nat : Lies(both, parts[j], o, WindowsOf(parts[j], max, overlap))
  <2> DEFINE v == WindowsOf(parts[j], max, overlap)
             c == Len(v)
  <2>1. PICK o \in Nat : Lies(chunks, parts[j], o, v)
    BY <1>5
  <2>2. c \in Nat
    <3>1. parts[j] \in Cells /\ Capacity(parts[j], max) >= 1
      BY <1>5, <1>10
    <3>2. Chunkable(parts[j], max, overlap)
      BY <3>1, PartIsCut
    <3>q. QED BY <3>2 DEF Chunkable, Marches
  <2> HIDE DEF v
  <2>3. /\ o + c <= a
        /\ \A i \in 1..c : chunks[o + i] = PieceOf(parts[j], v[i])
        /\ \A i \in 1..a : PartKey(chunks[i]) = PartKey(parts[j]) <=> i \in (o + 1)..(o + c)
    BY <2>1 DEF Lies, a
  <2> HIDE DEF c
  <2>4. o + c <= a + b
    BY <1>2, <1>3, <2>2, <2>3
  <2>5. \A i \in 1..c : both[o + i] = PieceOf(parts[j], v[i])
    <3>1. \A i \in 1..c : o + i \in 1..a
      BY <1>2, <2>2, <2>3
    <3>q. QED BY <1>6, <2>3, <3>1
  <2>6. ASSUME NEW i \in 1..(a + b) PROVE PartKey(both[i]) = PartKey(parts[j]) <=> i \in (o + 1)..(o + c)
    <3>1. CASE i \in 1..a
      BY <1>6, <2>3, <3>1
    <3>2. CASE i - a \in 1..b /\ a + (i - a) = i /\ ~ (i \in 1..a)
      <4> DEFINE x == i - a
      <4>1. x \in 1..b /\ a + x = i
        BY <3>2
      <4> HIDE DEF x
      <4>2. PartKey(both[i]) = PartKey(part)
        BY <1>7, <1>9, <4>1
      <4>3. PartKey(both[i]) # PartKey(parts[j])
        BY <1>10, <4>2
      <4>4. i \notin (o + 1)..(o + c)
        BY <1>2, <2>2, <2>3, <3>2
      <4>q. QED BY <4>3, <4>4
    <3>q. QED BY <1>8, <3>1, <3>2
  <2>7. Lies(both, parts[j], o, v)
    BY <1>4, <2>4, <2>5, <2>6 DEF Lies, c
  <2>q. QED BY <2>7 DEF v
<1>14. Lies(both, part, a, w)
  <2>1. ASSUME NEW i \in 1..(a + b) PROVE PartKey(both[i]) = PartKey(part) <=> i \in (a + 1)..(a + b)
    <3>1. CASE i \in 1..a
      <4>1. PICK j \in 1..(k - 1) : PartKey(chunks[i]) = PartKey(parts[j])
        BY <1>5, <3>1
      <4>2. PartKey(both[i]) # PartKey(part)
        BY <1>6, <1>10, <3>1, <4>1
      <4>3. i \notin (a + 1)..(a + b)
        BY <1>2, <3>1
      <4>q. QED BY <4>2, <4>3
    <3>2. CASE i - a \in 1..b /\ a + (i - a) = i
      <4> DEFINE x == i - a
      <4>1. x \in 1..b /\ a + x = i
        BY <3>2
      <4> HIDE DEF x
      <4>2. PartKey(both[i]) = PartKey(part)
        BY <1>7, <1>9, <4>1
      <4>3. i \in (a + 1)..(a + b)
        BY <1>2, <1>3, <4>1
      <4>q. QED BY <4>2, <4>3
    <3>q. QED BY <1>8, <3>1, <3>2
  <2>2. a + b <= Len(both)
    BY <1>2, <1>3, <1>4
  <2>q. QED BY <1>4, <1>7, <2>1, <2>2 DEF Lies, b
<1>15. ASSUME NEW j \in 1..k
       PROVE  /\ Capacity(parts[j], max) >= 1
              /\ \E o \in Nat : Lies(both, parts[j], o, WindowsOf(parts[j], max, overlap))
  <2>1. CASE j = k
    BY <1>2, <1>14, <2>1 DEF w
  <2>2. CASE j # k
    <3>1. j \in 1..(k - 1)
      BY <2>2
    <3>q. QED BY <1>5, <1>13, <3>1
  <2>q. QED BY <2>1, <2>2
<1>16. HasParts(both, parts, k, max, overlap)
  BY <1>4, <1>12, <1>15 DEF HasParts
<1>q. QED BY <1>16 DEF both, pieces

AllChunks(parts, max, overlap, limit) ==
  FoldLeft(LAMBDA chunks, part : AddPart(chunks, part, max, overlap, limit), <<>>, parts)

PartSteps(h, parts, max, overlap, limit, n) ==
  /\ AllChunks(parts, max, overlap, limit) = h[1..n]
  /\ h[1..0] = <<>>
  /\ \A k \in 1..n : h[1..(k - 1)] \in Outcomes /\ h[1..k] = AddPart(h[1..(k - 1)], parts[k], max, overlap, limit)

(* The parts are cut one by one.                                            *)
LEMMA PartsGoOn ==
  ASSUME NEW max \in Nat, NEW overlap \in Nat, NEW limit, NEW n \in Nat, NEW t, t \in [1..n -> Cells]
  PROVE  \E h : PartSteps(h, t, max, overlap, limit, n)
<1> DEFINE D == DOMAIN t
           V == Outcomes
           Add(c, p) == AddPart(c, p, max, overlap, limit)
           f == [p \in V \X Cells |-> Add(p[1], p[2])]
           Loop(h) == [s \in SUBSET D |-> IF s = {} THEN <<>> ELSE LET x == Max(s) IN AddPart(h[s \ {x}], t[x], max, overlap, limit)]
           iter[s \in SUBSET D] == IF s = {} THEN <<>> ELSE LET x == Max(s) IN AddPart(iter[s \ {x}], t[x], max, overlap, limit)
<1>1. AllChunks(t, max, overlap, limit) = iter[D]
  BY DEF AllChunks, FoldLeft, MapThenFoldSet
<1>2. D = 1..n
  OBVIOUS
<1>0. ASSUME NEW r \in V, NEW e \in Cells PROVE Add(r, e) \in V
  BY PartAdded
<1>3. f \in [V \X Cells -> V] /\ \A a \in V, b \in Cells : f[<<a, b>>] = Add(a, b)
  <2> HIDE DEF V, Add
  <2>1. ASSUME NEW p \in V \X Cells PROVE Add(p[1], p[2]) \in V
    <3>1. p[1] \in V /\ p[2] \in Cells
      OBVIOUS
    <3>q. QED BY <1>0, <3>1
  <2>q. QED BY <2>1
<1> HIDE DEF f
<1>4. PICK h \in [SUBSET (1..n) -> V] : Accumulates(h, 1..n, f, <<>>, t)
  <2>1. <<>> \in V
    BY DEF Outcomes
  <2> HIDE DEF V
  <2>q. QED BY <1>3, <2>1, LoopExists
<1>5. ASSUME NEW u \in SUBSET (1..n)
      PROVE  h[u] = IF u = {} THEN <<>> ELSE Add(h[u \ {Max(u)}], t[Max(u)])
  <2>1. CASE u = {}
    BY <1>4, <2>1 DEF Accumulates
  <2>2. CASE u # {}
    <3>1. Max(u) \in u
      BY <2>2, GreatestNumber
    <3> HIDE DEF V
    <3>2. h[u \ {Max(u)}] \in V /\ t[Max(u)] \in Cells
      BY <1>4, <3>1
    <3>3. h[u] = f[<<h[u \ {Max(u)}], t[Max(u)]>>]
      BY <1>4, <2>2 DEF Accumulates
    <3> HIDE DEF Add
    <3>q. QED BY <1>3, <2>2, <3>2, <3>3
  <2>q. QED BY <2>1, <2>2
<1>6. h = Loop(h)
  <2>1. h = [u \in SUBSET D |-> h[u]]
    BY <1>2
  <2>2. \A u \in SUBSET D : h[u] = IF u = {} THEN <<>> ELSE LET x == Max(u) IN AddPart(h[u \ {x}], t[x], max, overlap, limit)
    BY <1>2, <1>5
  <2> HIDE DEF D
  <2>q. QED BY <2>1, <2>2
<1>7. iter = Loop(iter)
  BY <1>6, Zenon
<1> HIDE DEF iter
<1>8. iter[1..0] = <<>>
  <2>1. 1..0 = {}
    OBVIOUS
  <2>2. iter[{}] = <<>>
    BY <1>7
  <2>q. QED BY <2>1, <2>2
<1>9. ASSUME NEW k \in 1..n PROVE iter[1..k] = AddPart(iter[1..(k - 1)], t[k], max, overlap, limit)
  <2> DEFINE I == 1..k
  <2> HIDE DEF I
  <2>1. I \in SUBSET D /\ I # {} /\ Max(I) = k /\ I \ {k} = 1..(k - 1)
    BY <1>2, UpTo DEF I
  <2>2. iter[I] = AddPart(iter[I \ {Max(I)}], t[Max(I)], max, overlap, limit)
    <3> HIDE DEF D
    <3>q. QED BY <1>7, <2>1
  <2>q. QED BY <2>1, <2>2 DEF I
<1>10. iter[D] = iter[1..n]
  <2> HIDE DEF D
  <2>q. QED BY <1>2
<1> DEFINE Bad == {k \in 0..n : iter[1..k] \notin Outcomes}
<1>11. Bad = {}
  <2> SUFFICES ASSUME Bad # {} PROVE FALSE
    OBVIOUS
  <2>1. PICK k \in Bad : \A y \in Bad : k <= y
    <3>1. Bad \in SUBSET Nat
      OBVIOUS
    <3> HIDE DEF Bad
    <3>q. QED BY <3>1, LeastNumber
  <2>2. k # 0
    <3>1. <<>> \in Outcomes
      BY DEF Outcomes
    <3>q. QED BY <1>8, <2>1, <3>1
  <2>3. k \in 1..n /\ k - 1 \in 0..n /\ ~ (k <= k - 1)
    BY <2>2
  <2>4. iter[1..(k - 1)] \in Outcomes /\ t[k] \in Cells
    BY <2>1, <2>3
  <2>5. AddPart(iter[1..(k - 1)], t[k], max, overlap, limit) \in Outcomes
    <3> DEFINE c == iter[1..(k - 1)]
               p == t[k]
    <3> HIDE DEF c, p
    <3>1. c \in Outcomes /\ p \in Cells
      BY <2>4 DEF c, p
    <3>2. AddPart(c, p, max, overlap, limit) \in Outcomes
      BY <3>1, PartAdded
    <3>q. QED BY <3>2 DEF c, p
  <2>q. QED BY <1>9, <2>1, <2>3, <2>5
<1>12. \A k \in 1..n : iter[1..(k - 1)] \in Outcomes
  <2>1. \A k \in 1..n : k - 1 \in 0..n
    OBVIOUS
  <2>q. QED BY <1>11, <2>1
<1>13. PartSteps(iter, t, max, overlap, limit, n)
  BY <1>1, <1>8, <1>9, <1>10, <1>12 DEF PartSteps
<1>q. QED BY <1>13

(* ChunkConvertedDocument: all parts are cut, or the document is refused.   *)
LEMMA AllPartsCut ==
  ASSUME NEW max \in Nat, NEW overlap \in Nat, NEW limit, NEW n \in Nat, NEW parts, parts \in [1..n -> Cells],
         \A i, j \in 1..n : i # j => PartKey(parts[i]) # PartKey(parts[j])
  PROVE  \/ AllChunks(parts, max, overlap, limit) = NoChunks
         \/ HasParts(AllChunks(parts, max, overlap, limit), parts, n, max, overlap)
<1>1. PICK h : PartSteps(h, parts, max, overlap, limit, n)
  BY PartsGoOn
<1> DEFINE Right(k) == h[1..k] = NoChunks \/ HasParts(h[1..k], parts, k, max, overlap)
           Bad == {k \in 0..n : ~Right(k)}
<1>2. Right(0)
  <2>1. h[1..0] = <<>>
    BY <1>1 DEF PartSteps
  <2>2. <<>> \in Seq(CutPieces) /\ Len(<<>>) = 0 /\ 1..0 = {}
    OBVIOUS
  <2>3. HasParts(<<>>, parts, 0, max, overlap)
    BY <2>2 DEF HasParts
  <2>q. QED BY <2>1, <2>3
<1>3. ASSUME NEW k \in 1..n, Right(k - 1) PROVE Right(k)
  <2> DEFINE c == h[1..(k - 1)]
             p == parts[k]
             new == AddPart(c, p, max, overlap, limit)
  <2>1. h[1..k] = new /\ c \in Outcomes
    BY <1>1 DEF PartSteps
  <2>2. p \in Cells
    OBVIOUS
  <2>3. c = NoChunks \/ HasParts(c, parts, k - 1, max, overlap)
    BY <1>3
  <2> HIDE DEF c, p, new
  <2>4. CASE new = NoChunks
    BY <2>1, <2>4
  <2>5. CASE new # NoChunks
    <3>1. c # NoChunks /\ Capacity(p, max) >= 1 /\ new = c \o PiecesOfPart(p, max, overlap)
      BY <2>1, <2>2, <2>5, PartAdded DEF new
    <3>2. HasParts(c, parts, k - 1, max, overlap)
      BY <2>3, <3>1
    <3>3. HasParts(c \o PiecesOfPart(parts[k], max, overlap), parts, k, max, overlap)
      BY <3>1, <3>2, PartsLie DEF p
    <3>q. QED BY <2>1, <3>1, <3>3 DEF p
  <2>q. QED BY <2>4, <2>5
<1> HIDE DEF Right
<1>4. Bad = {}
  <2> SUFFICES ASSUME Bad # {} PROVE FALSE
    OBVIOUS
  <2>1. PICK k \in Bad : \A y \in Bad : k <= y
    <3>1. Bad \in SUBSET Nat
      OBVIOUS
    <3> HIDE DEF Bad
    <3>q. QED BY <3>1, LeastNumber
  <2>2. k # 0
    BY <1>2, <2>1
  <2>3. k \in 1..n /\ k - 1 \in 0..n /\ ~ (k <= k - 1)
    BY <2>2
  <2>4. Right(k - 1)
    BY <2>1, <2>3
  <2>q. QED BY <1>3, <2>1, <2>3, <2>4
<1>5. n \in 0..n
  OBVIOUS
<1>6. Right(n)
  BY <1>4, <1>5
<1>q. QED BY <1>1, <1>6 DEF PartSteps, Right

\* The chunks of a column of a block, in order, and what they are of a part.
MineAt(chunks, block, column) ==
  AtPlaces(chunks, {i \in DOMAIN chunks : chunks[i].block = block /\ chunks[i].column = column})

Covered(mine, part, max) ==
  /\ mine # <<>> /\ mine[1].from = 0 /\ Last(mine).to = part.length
  /\ EachAdds([i \in DOMAIN mine |-> <<mine[i].from, mine[i].to>>], max)

(* The chunks of a part, read in order.                                     *)
LEMMA PartIsCovered ==
  ASSUME NEW max \in Nat, NEW overlap \in Nat, NEW part \in Cells, Capacity(part, max) >= 1,
         NEW chunks \in Seq(CutPieces), NEW a \in Nat, Lies(chunks, part, a, WindowsOf(part, max, overlap))
  PROVE  Covered(MineAt(chunks, part.block, part.column), part, max)
<1> DEFINE P == {i \in DOMAIN chunks : chunks[i].block = part.block /\ chunks[i].column = part.column}
           mine == MineAt(chunks, part.block, part.column)
           w == WindowsOf(part, max, overlap)
           m == Len(w)
           size == Capacity(part, max)
           step == StepOf(part, max, overlap)
<1>1. size \in Nat \ {0} /\ step \in 1..size /\ Marches(w, 0, part.length, size, step)
  BY PartIsCut DEF Chunkable
<1>2. part.length \in Nat /\ part.prefix \in Nat /\ size <= max
  BY DEF Cells, Capacity
<1> HIDE DEF w, m, size, step
<1>3. /\ m \in Nat \ {0} /\ w[1][1] = 0 /\ w[m][2] = part.length
      /\ w \in Seq((0..part.length) \X (0..part.length))
  BY <1>1 DEF Marches, m
<1>4. EachAdds(w, size)
  BY <1>1, <1>2, WindowsAdd
<1>5. /\ a + m <= Len(chunks)
      /\ \A i \in 1..m : chunks[a + i] = PieceOf(part, w[i])
      /\ \A i \in 1..Len(chunks) : PartKey(chunks[i]) = PartKey(part) <=> i \in (a + 1)..(a + m)
  BY DEF Lies, w, m
<1>6. DOMAIN chunks = 1..Len(chunks) /\ Len(chunks) \in Nat
  OBVIOUS
<1>7. P = (a + 1)..(a + m)
  <2>1. \A i \in 1..Len(chunks) : PartKey(chunks[i]) = PartKey(part) <=> chunks[i].block = part.block /\ chunks[i].column = part.column
    BY DEF PartKey
  <2>2. \A i \in (a + 1)..(a + m) : i \in 1..Len(chunks)
    BY <1>3, <1>5, <1>6
  <2>q. QED BY <1>5, <1>6, <2>1, <2>2
<1>70. mine = AtPlaces(chunks, P)
  BY DEF MineAt
<1> HIDE DEF P, mine
<1>8. P \in SUBSET (1..Len(chunks))
  <2>1. \A i \in (a + 1)..(a + m) : i \in 1..Len(chunks)
    BY <1>3, <1>5, <1>6
  <2>q. QED BY <1>7, <2>1
<1>9. Cardinality(P) = m /\ \A i \in 1..m : Places(P)[i] = a + i
  BY <1>3, <1>7, PlacesOfInterval
<1>10. mine \in Seq(CutPieces) /\ Len(mine) = m /\ \A i \in 1..m : mine[i] = chunks[a + i]
  <2>1. mine \in Seq(CutPieces) /\ Len(mine) = Cardinality(P) /\ \A i \in 1..Cardinality(P) : mine[i] = chunks[Places(P)[i]]
    BY <1>8, <1>70, PlacesTaken
  <2>q. QED BY <1>9, <2>1
<1>11. \A i \in 1..m : mine[i].from = w[i][1] /\ mine[i].to = w[i][2]
  <2>1. \A i \in 1..m : mine[i] = PieceOf(part, w[i])
    BY <1>5, <1>10
  <2>2. \A v : PieceOf(part, v).from = v[1] /\ PieceOf(part, v).to = v[2]
    BY DEF PieceOf
  <2>q. QED BY <2>1, <2>2
<1>12. DOMAIN mine = 1..m /\ DOMAIN w = 1..m
  BY <1>3, <1>10 DEF m
<1> DEFINE spans == [i \in DOMAIN mine |-> <<mine[i].from, mine[i].to>>]
<1>13. spans = w
  <2>1. ASSUME NEW i \in 1..m PROVE w[i] = <<mine[i].from, mine[i].to>>
    <3>1. w[i] \in (0..part.length) \X (0..part.length)
      BY <1>3, <1>12
    <3>2. w[i] = <<w[i][1], w[i][2]>>
      BY <3>1
    <3>q. QED BY <1>11, <3>2
  <2>2. w = [i \in 1..m |-> w[i]]
    BY <1>3, <1>12
  <2>q. QED BY <1>12, <2>1, <2>2
<1>14. EachAdds(w, max)
  <2>1. \A i \in DOMAIN w : w[i][2] - w[i][1] <= max
    <3>1. ASSUME NEW i \in 1..m PROVE w[i][2] - w[i][1] <= max
      <4>1. w[i] \in (0..part.length) \X (0..part.length)
        BY <1>3, <1>12
      <4>2. w[i][2] \in Int /\ w[i][1] \in Int
        BY <4>1
      <4>3. w[i][2] - w[i][1] <= size
        BY <1>4, <1>12 DEF EachAdds
      <4>q. QED BY <1>1, <1>2, <4>2, <4>3
    <3>q. QED BY <1>12, <3>1
  <2>q. QED BY <1>4, <2>1 DEF EachAdds
<1>15. mine # <<>> /\ Last(mine) = mine[m]
  BY <1>3, <1>10 DEF Last
<1>16. mine[1].from = 0 /\ mine[m].to = part.length
  <2>1. 1 \in 1..m /\ m \in 1..m
    BY <1>3
  <2>q. QED BY <1>3, <1>11, <2>1
<1> HIDE DEF spans
<1>17. EachAdds(spans, max)
  BY <1>13, <1>14
<1>18. Covered(mine, part, max)
  BY <1>15, <1>16, <1>17 DEF Covered, spans
<1>q. QED BY <1>18 DEF mine

(* ChunkConvertedDocument: the chunks of paragraphs and of oversized table  *)
(* rows cover every character within the limit of a chunk, or the document  *)
(* is refused, for blocks of any number and length.                         *)
THEOREM BlocksAreCovered ==
  ASSUME NEW n \in Nat, NEW blocks, DOMAIN blocks = 1..n, \A k \in 1..n : BlockFits(blocks[k]),
         NEW max \in Nat, NEW overlap \in Nat, NEW limit
  PROVE  \/ ChunkBlocks(blocks, max, overlap, limit) = NoChunks
         \/ CoversBlocks(blocks, ChunkBlocks(blocks, max, overlap, limit), max)
<1> DEFINE all == [k \in DOMAIN blocks |-> Parts(blocks[k], k, max)]
           parts == FlattenSeq(all)
           m == Len(parts)
           chunks == ChunkBlocks(blocks, max, overlap, limit)
<1>1. AllPartsOf(parts, all, n)
  BY PartsOfAll
<1>2. chunks = AllChunks(parts, max, overlap, limit)
  BY DEF ChunkBlocks, AllChunks
<1>3. \A k \in 1..n : all[k] = Parts(blocks[k], k, max)
  OBVIOUS
<1> HIDE DEF all, parts, m, chunks
<1>4. /\ parts \in Seq(Cells) /\ m \in Nat
      /\ \A i, j \in 1..m : i # j => PartKey(parts[i]) # PartKey(parts[j])
      /\ \A k \in 1..n : \A p \in 1..Len(all[k]) : \E i \in 1..m : parts[i] = all[k][p]
  BY <1>1 DEF AllPartsOf, m
<1>5. parts \in [1..m -> Cells]
  BY <1>4 DEF m
<1>6. chunks = NoChunks \/ HasParts(chunks, parts, m, max, overlap)
  BY <1>2, <1>4, <1>5, AllPartsCut
<1>7. ASSUME HasParts(chunks, parts, m, max, overlap) PROVE CoversBlocks(blocks, chunks, max)
  <2>1. /\ chunks \in Seq(CutPieces)
        /\ \A i \in 1..Len(chunks) : chunks[i].length <= max
        /\ \A j \in 1..m : /\ Capacity(parts[j], max) >= 1
                           /\ \E a \in Nat : Lies(chunks, parts[j], a, WindowsOf(parts[j], max, overlap))
    BY <1>7 DEF HasParts
  <2>2. \A i \in DOMAIN chunks : chunks[i].length <= max
    BY <2>1
  <2>3. ASSUME NEW k \in 1..n, NEW p \in DOMAIN Parts(blocks[k], k, max)
        PROVE  Covered(MineAt(chunks, k, Parts(blocks[k], k, max)[p].column), Parts(blocks[k], k, max)[p], max)
    <3> DEFINE part == Parts(blocks[k], k, max)[p]
    <3>1. k \in Nat /\ BlockFits(blocks[k])
      OBVIOUS
    <3>2. PartsOfBlock(Parts(blocks[k], k, max), k)
      BY <3>1, PartsFit
    <3>3. p \in 1..Len(Parts(blocks[k], k, max))
      BY <3>2 DEF PartsOfBlock
    <3>4. part \in Cells /\ part.block = k
      BY <3>2, <3>3 DEF PartsOfBlock
    <3>5. PICK j \in 1..m : parts[j] = part
      BY <1>3, <1>4, <3>3
    <3>6. Capacity(part, max) >= 1 /\ \E a \in Nat : Lies(chunks, part, a, WindowsOf(part, max, overlap))
      BY <2>1, <3>5
    <3>7. PICK a \in Nat : Lies(chunks, part, a, WindowsOf(part, max, overlap))
      BY <3>6
    <3> HIDE DEF part
    <3>8. Covered(MineAt(chunks, part.block, part.column), part, max)
      BY <2>1, <3>4, <3>6, <3>7, PartIsCovered
    <3>q. QED BY <3>4, <3>8 DEF part
  <2>4. DOMAIN blocks = 1..n
    OBVIOUS
  <2>q. QED BY <2>2, <2>3, <2>4 DEF CoversBlocks, Covered, MineAt
<1>q. QED BY <1>6, <1>7 DEF chunks

-------------------------------------------------------------------------------
(* Sections of a document. *)

(* A sequence after another: its beginning, its end, and its elements.      *)
LEMMA JoinedEnds ==
  ASSUME NEW S, NEW p \in Seq(S), NEW s \in Seq(S)
  PROVE  /\ p \o s \in Seq(S) /\ IsPrefix(p, p \o s) /\ IsSuffix(s, p \o s)
         /\ \A x \in ToSet(p) : x \in ToSet(p \o s)
         /\ \A x \in ToSet(s) : x \in ToSet(p \o s)
<1> DEFINE both == p \o s
           a == Len(p)
           b == Len(s)
<1>1. a \in Nat /\ b \in Nat /\ DOMAIN p = 1..a /\ DOMAIN s = 1..b
  OBVIOUS
<1>2. both \in Seq(S) /\ Len(both) = a + b /\ \A i \in 1..(a + b) : both[i] = IF i <= a THEN p[i] ELSE s[i - a]
  BY OneAfterAnother
<1> HIDE DEF both, a, b
<1>3. DOMAIN both = 1..(a + b)
  BY <1>2
<1>4. \A i \in 1..a : i \in 1..(a + b) /\ both[i] = p[i]
  BY <1>1, <1>2
<1>5. ASSUME NEW i \in 1..b PROVE a + i \in 1..(a + b) /\ both[a + i] = s[i]
  <2> DEFINE x == a + i
  <2>1. x \in 1..(a + b) /\ ~(x <= a) /\ x - a = i
    BY <1>1
  <2> HIDE DEF x
  <2>2. both[x] = s[x - a]
    BY <1>2, <2>1
  <2>q. QED BY <2>1, <2>2 DEF x
<1>6. IsPrefix(p, both)
  BY <1>1, <1>2, <1>4, PrefixAgrees DEF a
<1>7. IsSuffix(s, both)
  <2> DEFINE u == SubSeq(both, a + 1, a + b)
  <2>1. \A i \in (a + 1)..(a + b) : both[i] \in S
    BY <1>1, <1>2
  <2>2. u \in Seq(S) /\ Len(u) = b /\ \A i \in 1..b : u[i] = both[a + i]
    <3> DEFINE low == a + 1
               high == a + b
    <3>1. low \in Int /\ high \in Int /\ \A i \in low..high : both[i] \in S
      BY <1>1, <2>1
    <3>2. (IF low <= high THEN high - low + 1 ELSE 0) = b /\ high - low + 1 = b /\ \A i \in 1..b : low + i - 1 = a + i
      BY <1>1
    <3> HIDE DEF low, high
    <3>3. /\ SubSeq(both, low, high) \in Seq(S) /\ Len(SubSeq(both, low, high)) = IF low <= high THEN high - low + 1 ELSE 0
          /\ \A i \in 1..(high - low + 1) : SubSeq(both, low, high)[i] = both[low + i - 1]
      BY <3>1, SubSeqProperties
    <3>4. u = SubSeq(both, low, high)
      BY DEF low, high
    <3> HIDE DEF u
    <3>q. QED BY <3>2, <3>3, <3>4
  <2> HIDE DEF u
  <2>3. \A i \in 1..b : u[i] = s[i]
    BY <1>5, <2>2
  <2>4. u = s
    BY <1>1, <2>2, <2>3, SeqEqual DEF b
  <2>5. b <= a + b /\ a + b - b + 1 = a + 1
    BY <1>1
  <2>6. SubSeq(both, Len(both) - Len(s) + 1, Len(both)) = s
    <3>1. Len(both) = a + b /\ Len(s) = b
      BY <1>2 DEF b
    <3>2. Len(both) - Len(s) + 1 = a + 1
      BY <1>1, <2>5, <3>1
    <3>q. QED BY <2>4, <3>1, <3>2 DEF u
  <2>q. QED BY <1>2, <2>5, <2>6, SuffixAgrees DEF b
<1>8. \A x \in ToSet(p) : x \in ToSet(both)
  BY <1>1, <1>3, <1>4 DEF ToSet
<1>9. \A x \in ToSet(s) : x \in ToSet(both)
  BY <1>1, <1>3, <1>5 DEF ToSet
<1>q. QED BY <1>2, <1>6, <1>7, <1>8, <1>9 DEF both

(* A beginning of a beginning.                                              *)
LEMMA Begins ==
  ASSUME NEW S, NEW r \in Seq(S), NEW s \in Seq(S), NEW t \in Seq(S), IsPrefix(r, s), IsPrefix(s, t)
  PROVE  IsPrefix(r, t)
<1>1. Len(r) <= Len(s) /\ \A i \in 1..Len(r) : r[i] = s[i]
  BY PrefixAgrees
<1>2. Len(s) <= Len(t) /\ \A i \in 1..Len(s) : s[i] = t[i]
  BY PrefixAgrees
<1>3. Len(r) \in Nat /\ Len(s) \in Nat /\ Len(t) \in Nat
  OBVIOUS
<1>4. Len(r) <= Len(t) /\ \A i \in 1..Len(r) : r[i] = t[i]
  BY <1>1, <1>2, <1>3
<1>q. QED BY <1>4, PrefixAgrees

(* A sequence begins and ends with itself.                                  *)
LEMMA Itself ==
  ASSUME NEW S, NEW s \in Seq(S)
  PROVE  IsPrefix(s, s) /\ IsSuffix(s, s) /\ IsPrefix(<<>>, s)
<1>1. IsPrefix(s, s)
  BY PrefixAgrees
<1>2. IsPrefix(<<>>, s)
  <2> DEFINE e == <<>>
  <2>1. e \in Seq(S) /\ Len(e) <= Len(s) /\ \A i \in 1..Len(e) : e[i] = s[i]
    OBVIOUS
  <2> HIDE DEF e
  <2>2. IsPrefix(e, s)
    BY <2>1, PrefixAgrees
  <2>q. QED BY <2>2 DEF e
<1>3. IsSuffix(s, s)
  <2>1. <<>> \in Seq(S) /\ <<>> \o s = s
    OBVIOUS
  <2>2. IsSuffix(s, <<>> \o s)
    BY <2>1, JoinedEnds
  <2>q. QED BY <2>1, <2>2
<1>q. QED BY <1>1, <1>2, <1>3

(* What occurs in a part of a line occurs in the line.                      *)
LEMMA OccursWithin ==
  ASSUME NEW C, NEW p \in Seq(C), NEW q \in Seq(C), NEW r \in Seq(C), Occurs(p, q), Occurs(q, r)
  PROVE  Occurs(p, r)
<1>0. Len(p) \in Nat /\ Len(q) \in Nat /\ Len(r) \in Nat
  OBVIOUS
<1>1. PICK k \in 0..(Len(q) - Len(p)) : \A i \in 1..Len(p) : q[k + i] = p[i]
  BY DEF Occurs
<1>2. PICK m \in 0..(Len(r) - Len(q)) : \A i \in 1..Len(q) : r[m + i] = q[i]
  BY DEF Occurs
<1>3. m + k \in 0..(Len(r) - Len(p))
  BY <1>0
<1>4. ASSUME NEW i \in 1..Len(p) PROVE r[(m + k) + i] = p[i]
  <2>1. k + i \in 1..Len(q) /\ (m + k) + i = m + (k + i)
    BY <1>0
  <2>q. QED BY <1>1, <1>2, <2>1
<1>q. QED BY <1>3, <1>4 DEF Occurs

(* A line occurs in every line that begins with it.                         *)
LEMMA PrefixOccurs ==
  ASSUME NEW C, NEW p \in Seq(C), NEW q \in Seq(C), IsPrefix(p, q)
  PROVE  Occurs(p, q)
<1>1. Len(p) <= Len(q) /\ \A i \in 1..Len(p) : p[i] = q[i]
  BY PrefixAgrees
<1>2. 0 \in 0..(Len(q) - Len(p)) /\ \A i \in 1..Len(p) : q[0 + i] = p[i]
  BY <1>1
<1>q. QED BY <1>2 DEF Occurs

(* strings.TrimSpace of a line that is not blank: what is left of it occurs *)
(* in it, and in what is left when only its end is trimmed.                 *)
LEMMA TrimmedOccurs ==
  ASSUME NEW C, NEW t \in Seq(C), Solid(t) # {}
  PROVE  /\ TrimLine(t) \in Seq(C) /\ TrimLeft(t) \in Seq(C) /\ TrimRight(t) \in Seq(C)
         /\ Occurs(TrimLine(t), t) /\ Occurs(TrimLine(t), TrimRight(t))
<1> DEFINE low == Min(Solid(t))
           high == Max(Solid(t))
           n == Len(t)
<1>0. n \in Nat /\ DOMAIN t = 1..n /\ \A i \in 1..n : t[i] \in C
  OBVIOUS
<1>1. low \in 1..n /\ high \in 1..n /\ low <= high
  <2>1. Solid(t) \in SUBSET (1..n)
    BY <1>0 DEF Solid
  <2>q. QED BY <1>0, <2>1, FirstAndLast
<1>2. TrimLine(t) = SubSeq(t, low, high) /\ TrimLeft(t) = SubSeq(t, low, n) /\ TrimRight(t) = SubSeq(t, 1, high)
  BY DEF TrimLine, Trim, TrimLeft, TrimRight, Solid
<1> HIDE DEF low, high, n
<1>3. SubSeq(t, low, n) \in Seq(C)
  BY <1>0, <1>1 DEF n
<1>4. /\ SubSeq(t, 1, high) \in Seq(C) /\ Len(SubSeq(t, 1, high)) = high
      /\ \A i \in 1..high : SubSeq(t, 1, high)[i] = t[i]
  BY <1>0, <1>1 DEF n
<1>5. /\ SubSeq(t, low, high) \in Seq(C) /\ Len(SubSeq(t, low, high)) = high - low + 1
      /\ \A i \in 1..(high - low + 1) : SubSeq(t, low, high)[i] = t[(low - 1) + i]
  <2>1. low \in Int /\ high \in Int /\ \A i \in low..high : t[i] \in C
    BY <1>0, <1>1
  <2>2. \A i \in 1..(high - low + 1) : low + i - 1 = (low - 1) + i
    BY <1>1
  <2>q. QED BY <1>1, <2>1, <2>2, SubSeqProperties
<1> DEFINE middle == SubSeq(t, low, high)
           right == SubSeq(t, 1, high)
<1>6. middle \in Seq(C) /\ Len(middle) = high - low + 1 /\ \A i \in 1..(high - low + 1) : middle[i] = t[(low - 1) + i]
  BY <1>5
<1>7. right \in Seq(C) /\ Len(right) = high /\ \A i \in 1..high : right[i] = t[i]
  BY <1>4
<1>8. TrimLine(t) = middle /\ TrimRight(t) = right
  BY <1>2
<1> HIDE DEF middle, right
<1>9. low - 1 \in 0..(n - Len(middle)) /\ low - 1 \in 0..(Len(right) - Len(middle))
  BY <1>0, <1>1, <1>6, <1>7
<1>10. Occurs(middle, t)
  BY <1>6, <1>9 DEF Occurs, n
<1>11. \A i \in 1..Len(middle) : (low - 1) + i \in 1..high /\ right[(low - 1) + i] = middle[i]
  BY <1>0, <1>1, <1>6, <1>7
<1>12. Occurs(middle, right)
  BY <1>9, <1>11 DEF Occurs
<1>q. QED BY <1>2, <1>3, <1>6, <1>7, <1>8, <1>10, <1>12

(* strings.TrimSpace of a text is a text.                                   *)
LEMMA TrimmedText ==
  ASSUME NEW C, NEW t \in Seq(Seq(C))
  PROVE  TrimText(t) \in Seq(Seq(C))
<1> DEFINE n == Len(t)
           solid == {i \in DOMAIN t : Solid(t[i]) # {}}
           low == Min(solid)
           high == Max(solid)
           At(i) == IF i = low THEN IF i = high THEN TrimLine(t[i]) ELSE TrimLeft(t[i])
                    ELSE IF i = high THEN TrimRight(t[i]) ELSE t[i]
<1>1. n \in Nat /\ DOMAIN t = 1..n /\ \A i \in 1..n : t[i] \in Seq(C)
  OBVIOUS
<1>2. TrimText(t) = IF solid = {} THEN <<>> ELSE [k \in 1..(high - low + 1) |-> At(low + k - 1)]
  BY DEF TrimText
<1>3. solid \in SUBSET (1..n) /\ \A i \in solid : Solid(t[i]) # {}
  BY <1>1
<1>4. CASE solid # {}
  <2> HIDE DEF solid
  <2>1. low \in solid /\ high \in solid /\ low \in 1..n /\ high \in 1..n /\ low <= high
    BY <1>1, <1>3, <1>4, FirstAndLast
  <2> HIDE DEF low, high, n
  <2>2. ASSUME NEW i \in low..high PROVE At(i) \in Seq(C)
    <3>1. i \in 1..n /\ t[i] \in Seq(C)
      BY <1>1, <2>1
    <3>2. i \in {low, high} => TrimLine(t[i]) \in Seq(C) /\ TrimLeft(t[i]) \in Seq(C) /\ TrimRight(t[i]) \in Seq(C)
      BY <1>3, <2>1, <3>1, TrimmedOccurs
    <3>q. QED BY <3>1, <3>2
  <2>3. \A k \in 1..(high - low + 1) : low + k - 1 \in low..high
    BY <1>1, <2>1
  <2>4. high - low + 1 \in Nat
    BY <1>1, <2>1
  <2> HIDE DEF At
  <2>5. \A k \in 1..(high - low + 1) : At(low + k - 1) \in Seq(C)
    BY <2>2, <2>3
  <2>6. [k \in 1..(high - low + 1) |-> At(low + k - 1)] \in Seq(Seq(C))
    BY <2>4, <2>5
  <2>q. QED BY <1>2, <1>4, <2>6
<1>5. CASE solid = {}
  BY <1>2, <1>5
<1>q. QED BY <1>4, <1>5

(* strings.HasPrefix of texts: a text begins with itself and with the empty *)
(* one; a beginning of a beginning is one; and what is within a beginning   *)
(* is within the text.                                                      *)
LEMMA TextBeginsWithItself ==
  ASSUME NEW C, NEW t \in Seq(Seq(C))
  PROVE  StartsWith(t, t) /\ StartsWith(t, <<>>)
<1>1. Len(t) \in Nat /\ Len(<<>>) = 0
  OBVIOUS
<1>2. StartsWith(t, <<>>)
  BY <1>1 DEF StartsWith
<1>3. t # <<>> => t[Len(t)] \in Seq(C)
  OBVIOUS
<1>4. t # <<>> => IsPrefix(t[Len(t)], t[Len(t)])
  BY <1>3, Itself
<1>5. StartsWith(t, t)
  BY <1>1, <1>4 DEF StartsWith
<1>q. QED BY <1>2, <1>5

LEMMA TextBeginsWithFirst ==
  ASSUME NEW C, NEW t \in Seq(Seq(C)), NEW u \in Seq(Seq(C))
  PROVE  StartsWith(t \o u, t)
<1> DEFINE both == t \o u
           m == Len(t)
<1>1. m \in Nat /\ Len(u) \in Nat
  OBVIOUS
<1>2. both \in Seq(Seq(C)) /\ Len(both) = m + Len(u) /\ \A i \in 1..m : both[i] = t[i]
  <2> DEFINE E == Seq(C)
  <2>1. t \in Seq(E) /\ u \in Seq(E)
    OBVIOUS
  <2> HIDE DEF E
  <2>2. /\ both \in Seq(E) /\ Len(both) = m + Len(u)
        /\ \A i \in 1..(m + Len(u)) : both[i] = IF i <= m THEN t[i] ELSE u[i - m]
    BY <2>1, OneAfterAnother
  <2>3. \A i \in 1..m : i \in 1..(m + Len(u)) /\ i <= m
    BY <1>1
  <2> HIDE DEF both, m
  <2>4. \A i \in 1..m : both[i] = t[i]
    BY <2>2, <2>3
  <2>q. QED BY <2>2, <2>4 DEF E
<1>3. t # <<>> => m \in 1..m /\ t[m] \in Seq(C)
  OBVIOUS
<1> HIDE DEF both, m
<1>4. t # <<>> => IsPrefix(t[m], both[m])
  BY <1>2, <1>3, Itself
<1>5. Len(t) <= Len(both) /\ \A i \in 1..Len(t) - 1 : both[i] = t[i]
  <2>1. m <= Len(both) /\ \A i \in 1..m - 1 : i \in 1..m
    BY <1>1, <1>2
  <2>2. \A i \in 1..m - 1 : both[i] = t[i]
    BY <1>2, <2>1
  <2>q. QED BY <2>1, <2>2 DEF m
<1>6. StartsWith(both, t)
  BY <1>4, <1>5 DEF StartsWith, m
<1>q. QED BY <1>6 DEF both

LEMMA TextBeginsWithBeginning ==
  ASSUME NEW C, NEW r \in Seq(Seq(C)), NEW s \in Seq(Seq(C)), NEW t \in Seq(Seq(C)), StartsWith(s, r), StartsWith(t, s)
  PROVE  StartsWith(t, r)
<1> DEFINE m == Len(r)
<1>0. m \in Nat /\ Len(s) \in Nat /\ Len(t) \in Nat
  OBVIOUS
<1>1. /\ m <= Len(s) /\ \A i \in 1..m - 1 : s[i] = r[i]
      /\ r # <<>> => IsPrefix(r[m], s[m])
  BY DEF StartsWith
<1>2. /\ Len(s) <= Len(t) /\ \A i \in 1..Len(s) - 1 : t[i] = s[i]
      /\ s # <<>> => IsPrefix(s[Len(s)], t[Len(s)])
  BY DEF StartsWith
<1>3. r # <<>> => m \in 1..Len(s) /\ m \in 1..Len(t) /\ r[m] \in Seq(C) /\ s[m] \in Seq(C) /\ t[m] \in Seq(C)
  BY <1>0, <1>1, <1>2
<1>4. m <= Len(t) /\ \A i \in 1..m - 1 : i \in 1..Len(s) - 1
  BY <1>0, <1>1, <1>2
<1> HIDE DEF m
<1>5. \A i \in 1..m - 1 : t[i] = r[i]
  BY <1>1, <1>2, <1>4
<1>6. ASSUME r # <<>> PROVE IsPrefix(r[m], t[m])
  <2>1. s # <<>>
    BY <1>0, <1>3, <1>6
  <2>2. CASE m = Len(s)
    <3>1. IsPrefix(r[m], s[m]) /\ IsPrefix(s[m], t[m])
      BY <1>1, <1>2, <1>6, <2>1, <2>2
    <3>q. QED BY <1>3, <1>6, <3>1, Begins
  <2>3. CASE m # Len(s)
    <3>1. m \in 1..Len(s) - 1
      BY <1>0, <1>3, <1>6, <2>3
    <3>2. t[m] = s[m]
      BY <1>2, <3>1
    <3>q. QED BY <1>1, <1>6, <3>2
  <2>q. QED BY <2>2, <2>3
<1>q. QED BY <1>4, <1>5, <1>6 DEF StartsWith, m

LEMMA WithinBeginning ==
  ASSUME NEW C, NEW s \in Seq(Seq(C)), NEW t \in Seq(Seq(C)), StartsWith(t, s),
         NEW x \in Seq(C), HasInside(s, x)
  PROVE  HasInside(t, x)
<1>0. Len(s) \in Nat /\ Len(t) \in Nat /\ DOMAIN s = 1..Len(s) /\ DOMAIN t = 1..Len(t)
  OBVIOUS
<1>1. PICK i \in DOMAIN s : Occurs(x, s[i])
  BY DEF HasInside
<1>2. /\ Len(s) <= Len(t) /\ \A j \in 1..Len(s) - 1 : t[j] = s[j]
      /\ s # <<>> => IsPrefix(s[Len(s)], t[Len(s)])
  BY DEF StartsWith
<1>3. i \in 1..Len(s) /\ i \in 1..Len(t) /\ s # <<>> /\ s[i] \in Seq(C) /\ t[i] \in Seq(C)
  BY <1>0, <1>2
<1>4. IsPrefix(s[i], t[i])
  <2>1. CASE i = Len(s)
    BY <1>2, <1>3, <2>1
  <2>2. CASE i # Len(s)
    <3>1. i \in 1..Len(s) - 1
      BY <1>0, <1>3, <2>2
    <3>2. t[i] = s[i]
      BY <1>2, <3>1
    <3>q. QED BY <1>3, <3>2, Itself
  <2>q. QED BY <2>1, <2>2
<1>5. Occurs(s[i], t[i])
  BY <1>3, <1>4, PrefixOccurs
<1>6. Occurs(x, t[i])
  BY <1>1, <1>3, <1>5, OccursWithin
<1>q. QED BY <1>0, <1>3, <1>6 DEF HasInside

(* What is within one of two texts is within both together.                 *)
LEMMA WithinBoth ==
  ASSUME NEW C, NEW s \in Seq(Seq(C)), NEW t \in Seq(Seq(C)), NEW x, HasInside(t, x)
  PROVE  HasInside(s \o t, x)
<1>1. PICK i \in DOMAIN t : Occurs(x, t[i])
  BY DEF HasInside
<1>2. t[i] \in ToSet(t)
  BY DEF ToSet
<1>3. t[i] \in ToSet(s \o t)
  <2> DEFINE E == Seq(C)
  <2>1. s \in Seq(E) /\ t \in Seq(E)
    OBVIOUS
  <2> HIDE DEF E
  <2>q. QED BY <1>2, <2>1, JoinedEnds
<1>4. PICK j \in DOMAIN (s \o t) : (s \o t)[j] = t[i]
  BY <1>3 DEF ToSet
<1>q. QED BY <1>1, <1>4 DEF HasInside

(* chunkMarkdown: where the front matter ends.                              *)
LEMMA FrontMatter ==
  ASSUME NEW C, NEW lines \in Seq(Seq(C))
  PROVE  PrefixEnd(lines) \in 0..Len(lines) /\ Metadata(lines) \in Seq(Seq(C))
<1> DEFINE ends == {i \in 2..Len(lines) : TrimLine(lines[i]) = Fence}
           e == CHOOSE i \in ends : \A j \in ends : i <= j
<1>1. Len(lines) \in Nat
  OBVIOUS
<1>2. PrefixEnd(lines) \in 0..Len(lines)
  <2>1. CASE lines = <<>> \/ TrimLine(lines[1]) # Fence \/ ends = {}
    BY <1>1, <2>1 DEF PrefixEnd
  <2>2. CASE ~(lines = <<>> \/ TrimLine(lines[1]) # Fence \/ ends = {})
    <3>1. ends \in SUBSET Nat
      BY <1>1
    <3>2. \E x \in ends : \A y \in ends : x <= y
      <4> HIDE DEF ends
      <4>q. QED BY <2>2, <3>1, LeastNumber
    <3>3. e \in ends
      <4> HIDE DEF ends
      <4>q. QED BY <3>2
    <3>4. PrefixEnd(lines) = e
      BY <2>2 DEF PrefixEnd
    <3>5. e \in 2..Len(lines)
      BY <3>3
    <3> HIDE DEF e
    <3>q. QED BY <1>1, <3>4, <3>5
  <2>q. QED BY <2>1, <2>2
<1>3. SubSeq(lines, 1, PrefixEnd(lines)) \in Seq(Seq(C))
  BY <1>2, Beginning
<1>4. Metadata(lines) \in Seq(Seq(C))
  BY <1>3, TrimmedText DEF Metadata
<1>q. QED BY <1>2, <1>4

(* chunkMarkdown: the title is a line that is not blank.                    *)
LEMMA TitleIsLine ==
  ASSUME NEW C, NEW lines \in Seq(Seq(C)), Titles(lines) # {}
  PROVE  Title(lines) \in Seq(C) /\ Solid(Title(lines)) # {}
<1>1. Titles(lines) \in SUBSET Nat /\ \A i \in Titles(lines) : i \in DOMAIN lines /\ IsTitle(lines[i])
  BY DEF Titles
<1>2. \E i \in Titles(lines) : \A j \in Titles(lines) : i <= j
  BY <1>1, LeastNumber
<1>3. PICK i \in Titles(lines) : Title(lines) = lines[i]
  BY <1>2, Zenon DEF Title
<1>4. lines[i] \in Seq(C) /\ IsTitle(lines[i])
  BY <1>1
<1>5. Solid(lines[i]) # {}
  <2> SUFFICES ASSUME Solid(lines[i]) = {} PROVE FALSE
    OBVIOUS
  <2>1. TrimLine(lines[i]) = <<>>
    BY DEF TrimLine, Trim, Solid
  <2>2. IsPrefix(<<"#", "_">>, <<>>)
    BY <1>4, <2>1 DEF IsTitle
  <2>3. Len(<<"#", "_">>) = 2 /\ Len(<<>>) = 0
    OBVIOUS
  <2>4. Len(<<"#", "_">>) <= Len(<<>>)
    BY <2>2, Zenon DEF IsPrefix
  <2>q. QED BY <2>3, <2>4
<1>q. QED BY <1>3, <1>4, <1>5

(* One element more is a sequence of one element behind.                    *)
LEMMA OneMore ==
  ASSUME NEW S, NEW s \in Seq(S), NEW e \in S
  PROVE  Append(s, e) = s \o <<e>>
OBVIOUS

(* chunkMarkdown: the prefix is the front matter, with the title in it or   *)
(* behind it.                                                               *)
LEMMA PrefixKeeps ==
  ASSUME NEW C, NEW lines \in Seq(Seq(C))
  PROVE  /\ Prefix(lines) \in Seq(Seq(C)) /\ StartsWith(Prefix(lines), Metadata(lines))
         /\ Titles(lines) # {} => HasInside(Prefix(lines), TrimLine(Title(lines)))
<1> DEFINE title == Title(lines)
           meta == Metadata(lines)
           bare == TrimLine(title)
           end == TrimRight(title)
<1>1. meta \in Seq(Seq(C))
  BY FrontMatter
<1>2. Titles(lines) # {} => /\ title \in Seq(C) /\ bare \in Seq(C) /\ end \in Seq(C)
                            /\ Occurs(bare, title) /\ Occurs(bare, end)
  BY TitleIsLine, TrimmedOccurs
<1>3. Prefix(lines) = IF Titles(lines) = {} \/ HasInside(meta, title) THEN meta
                      ELSE IF meta = <<>> THEN <<bare>> ELSE Append(meta, end)
  BY DEF Prefix
<1> HIDE DEF title, meta, bare, end
<1>4. CASE Titles(lines) = {} \/ HasInside(meta, title)
  <2>1. Prefix(lines) = meta /\ StartsWith(meta, meta)
    BY <1>1, <1>3, <1>4, TextBeginsWithItself
  <2>2. ASSUME Titles(lines) # {} PROVE HasInside(meta, bare)
    <3>1. PICK i \in DOMAIN meta : Occurs(title, meta[i])
      BY <1>4, <2>2 DEF HasInside
    <3>2. meta[i] \in Seq(C)
      BY <1>1
    <3>3. Occurs(bare, meta[i])
      BY <1>2, <2>2, <3>1, <3>2, OccursWithin
    <3>q. QED BY <3>3 DEF HasInside
  <2>q. QED BY <1>1, <2>1, <2>2 DEF meta, bare, title
<1>5. CASE ~(Titles(lines) = {} \/ HasInside(meta, title)) /\ meta = <<>>
  <2> DEFINE one == <<bare>>
  <2>1. Prefix(lines) = one
    BY <1>3, <1>5
  <2>2. one \in Seq(Seq(C)) /\ 1 \in DOMAIN one /\ one[1] = bare
    BY <1>2, <1>5
  <2> HIDE DEF one
  <2>3. Occurs(bare, bare)
    BY <1>2, <1>5, Itself, PrefixOccurs
  <2>4. HasInside(one, bare)
    BY <2>2, <2>3 DEF HasInside
  <2>5. StartsWith(one, meta)
    BY <1>5, <2>2, TextBeginsWithItself
  <2>q. QED BY <2>1, <2>2, <2>4, <2>5 DEF meta, bare, title
<1>6. CASE ~(Titles(lines) = {} \/ HasInside(meta, title)) /\ meta # <<>>
  <2> DEFINE one == <<end>>
             both == meta \o one
  <2>1. Prefix(lines) = Append(meta, end)
    BY <1>3, <1>6
  <2>2. one \in Seq(Seq(C)) /\ 1 \in DOMAIN one /\ one[1] = end
    BY <1>2, <1>6
  <2>3. Append(meta, end) = both
    BY <1>1, <1>2, <1>6, OneMore
  <2> HIDE DEF one
  <2>4. HasInside(one, bare)
    BY <1>2, <1>6, <2>2 DEF HasInside
  <2>5. HasInside(both, bare)
    BY <1>1, <2>2, <2>4, WithinBoth
  <2>6. StartsWith(both, meta)
    BY <1>1, <2>2, TextBeginsWithFirst
  <2>7. both \in Seq(Seq(C))
    BY <1>1, <2>2
  <2> HIDE DEF both
  <2>q. QED BY <2>1, <2>3, <2>5, <2>6, <2>7 DEF meta, bare, title
<1>q. QED BY <1>4, <1>5, <1>6

\* What a chunk says of a section.
Keeps(body, lines, section) ==
  /\ IsSuffix(section, body)
  /\ StartsWith(body, Metadata(lines))
  /\ Titles(lines) # {} => HasInside(body, TrimLine(Title(lines)))

(* chunkMarkdown: every section comes behind the front matter, and with the *)
(* title of the document.                                                   *)
LEMMA BodyKeeps ==
  ASSUME NEW C, NEW lines \in Seq(Seq(C)), NEW section \in Seq(Seq(C))
  PROVE  Keeps(Body(lines, section), lines, section)
<1> DEFINE title == Title(lines)
           meta == Metadata(lines)
           prefix == Prefix(lines)
           body == Body(lines, section)
           bare == TrimLine(title)
           E == Seq(C)
<1>1. meta \in Seq(E)
  BY FrontMatter
<1>2. /\ prefix \in Seq(E) /\ StartsWith(prefix, meta)
      /\ Titles(lines) # {} => HasInside(prefix, bare)
  BY PrefixKeeps
<1>3. Titles(lines) # {} => title \in Seq(C) /\ bare \in Seq(C) /\ Occurs(bare, title)
  BY TitleIsLine, TrimmedOccurs
<1>4. body = IF Titles(lines) # {} /\ StartsWith(section, <<title>>) /\ meta # <<>> THEN meta \o section
             ELSE IF ~StartsWith(section, prefix) THEN prefix \o <<Blank>> \o section ELSE section
  BY DEF Body
<1>5. section \in Seq(E)
  OBVIOUS
<1> DEFINE First == Titles(lines) # {} /\ StartsWith(section, <<title>>) /\ meta # <<>>
<1> HIDE DEF title, meta, prefix, body, bare
<1>6. CASE First
  <2>1. body = meta \o section
    BY <1>4, <1>6
  <2>2. IsSuffix(section, body)
    <3> HIDE DEF E
    <3>q. QED BY <1>1, <1>5, <2>1, JoinedEnds
  <2>3. StartsWith(body, meta)
    BY <1>1, <2>1, TextBeginsWithFirst
  <2>4. HasInside(section, bare)
    <3> DEFINE one == <<title>>
    <3>1. one \in Seq(Seq(C)) /\ 1 \in DOMAIN one /\ one[1] = title
      BY <1>3, <1>6
    <3>2. StartsWith(section, one)
      BY <1>6
    <3> HIDE DEF one
    <3>3. HasInside(one, bare)
      BY <1>3, <1>6, <3>1 DEF HasInside
    <3>q. QED BY <1>3, <1>6, <3>1, <3>2, <3>3, WithinBeginning
  <2>5. HasInside(body, bare)
    BY <1>1, <2>1, <2>4, WithinBoth
  <2>q. QED BY <2>2, <2>3, <2>5 DEF Keeps, title, meta, body, bare
<1>7. CASE ~First /\ ~StartsWith(section, prefix)
  <2> DEFINE u == <<Blank>>
             p == prefix \o u
  <2>1. body = p \o section
    BY <1>4, <1>7
  <2>2. u \in Seq(E)
    BY EmptySeq DEF Blank
  <2> HIDE DEF u
  <2>3. p \in Seq(E) /\ StartsWith(p, prefix)
    BY <1>2, <2>2, TextBeginsWithFirst
  <2> HIDE DEF p
  <2>4. body \in Seq(E) /\ IsSuffix(section, body)
    <3> HIDE DEF E
    <3>q. QED BY <1>5, <2>1, <2>3, JoinedEnds
  <2>5. StartsWith(body, p)
    BY <1>5, <2>1, <2>3, TextBeginsWithFirst
  <2>6. StartsWith(body, prefix)
    BY <1>2, <2>3, <2>4, <2>5, TextBeginsWithBeginning
  <2>7. StartsWith(body, meta)
    BY <1>1, <1>2, <2>4, <2>6, TextBeginsWithBeginning
  <2>8. Titles(lines) # {} => HasInside(body, bare)
    BY <1>2, <1>3, <2>4, <2>6, WithinBeginning
  <2>q. QED BY <2>4, <2>7, <2>8 DEF Keeps, title, meta, body, bare
<1>8. CASE ~First /\ StartsWith(section, prefix)
  <2>1. body = section
    BY <1>4, <1>8
  <2>2. StartsWith(body, meta)
    BY <1>1, <1>2, <1>5, <1>8, <2>1, TextBeginsWithBeginning
  <2>3. Titles(lines) # {} => HasInside(body, bare)
    BY <1>2, <1>3, <1>5, <1>8, <2>1, WithinBeginning
  <2>4. IsSuffix(section, body)
    <3> HIDE DEF E
    <3>q. QED BY <1>5, <2>1, Itself
  <2>q. QED BY <2>2, <2>3, <2>4 DEF Keeps, title, meta, body, bare
<1>q. QED BY <1>6, <1>7, <1>8

StartsOf(rest, k) == {i \in 1..k : i = 1 \/ IsHeading(rest[i])}

EndOf(b, m, i, k) == IF i = m THEN k ELSE b[i + 1] - 1

\* The first k lines are cut before each start.
CutAt(sections, L, rest, k, m, b) ==
  /\ b \in [1..m -> StartsOf(rest, k)]
  /\ \A i, j \in 1..m : i < j => b[i] < b[j]
  /\ \A x \in StartsOf(rest, k) : \E i \in 1..m : b[i] = x
  /\ sections \in Seq(Seq(L)) /\ Len(sections) = m
  /\ \A i \in 1..m : sections[i] = SubSeq(rest, b[i], EndOf(b, m, i, k))

IsCut(sections, L, rest, k) == \E m \in Nat : \E b : CutAt(sections, L, rest, k, m, b)

(* splitMarkdownSections: what is read after a section lengthens it.        *)
LEMMA Lengthened ==
  ASSUME NEW L, NEW rest \in Seq(L), NEW k \in 1..Len(rest), NEW a \in 1..k
  PROVE  SubSeq(rest, a, k) = IF a = k THEN <<rest[k]>> ELSE Append(SubSeq(rest, a, k - 1), rest[k])
<1>1. Len(rest) \in Nat /\ a \in 1..Len(rest) /\ k \in a..Len(rest) /\ rest[k] \in L
  OBVIOUS
<1>2. SubSeq(rest, a, k) = SubSeq(rest, a, k - 1) \o <<rest[k]>>
  BY <1>1, SubSeqRecursiveSecond
<1>3. SubSeq(rest, a, k - 1) \in Seq(L)
  <2> DEFINE e == k - 1
  <2>1. e \in Int /\ a \in Int /\ \A i \in a..e : rest[i] \in L
    BY <1>1
  <2> HIDE DEF e
  <2>2. SubSeq(rest, a, e) \in Seq(L)
    BY <2>1, SubSeqProperties
  <2>q. QED BY <2>2 DEF e
<1> DEFINE s == SubSeq(rest, a, k - 1)
           x == rest[k]
<1>4. CASE a = k
  <2>1. s = <<>>
    <3>1. a \in Int /\ k - 1 \in Int /\ k - 1 < a
      BY <1>1, <1>4
    <3>q. QED BY <3>1, SubSeqEmpty
  <2> HIDE DEF s
  <2>2. s \o <<x>> = <<x>>
    BY <2>1
  <2>q. QED BY <1>2, <1>4, <2>2 DEF s
<1>5. CASE a # k
  <2>1. s \in Seq(L) /\ x \in L
    BY <1>1, <1>3
  <2> HIDE DEF s, x
  <2>2. s \o <<x>> = Append(s, x)
    BY <2>1
  <2>q. QED BY <1>2, <1>5, <2>2 DEF s, x
<1>q. QED BY <1>4, <1>5

(* splitMarkdownSections: what a line does to the sections before it.       *)
LEMMA LineGathered ==
  ASSUME NEW L, NEW rest \in Seq(L), NEW k \in 1..Len(rest), NEW sections, IsCut(sections, L, rest, k - 1)
  PROVE  IsCut(Gather(sections, rest[k]), L, rest, k)
<1> DEFINE line == rest[k]
           old == StartsOf(rest, k - 1)
           all == StartsOf(rest, k)
           new == Gather(sections, line)
<1>1. PICK m \in Nat : \E b : CutAt(sections, L, rest, k - 1, m, b)
  BY DEF IsCut
<1>2. PICK b : CutAt(sections, L, rest, k - 1, m, b)
  BY <1>1
<1>3. /\ b \in [1..m -> old]
      /\ \A i, j \in 1..m : i < j => b[i] < b[j]
      /\ \A x \in old : \E i \in 1..m : b[i] = x
      /\ sections \in Seq(Seq(L)) /\ Len(sections) = m
      /\ \A i \in 1..m : sections[i] = SubSeq(rest, b[i], EndOf(b, m, i, k - 1))
  BY <1>2 DEF CutAt
<1>4. k \in Nat /\ k >= 1 /\ k \in 1..k /\ line \in L /\ Len(rest) \in Nat
  OBVIOUS
<1>5. /\ \A x \in old : x \in 1..(k - 1) /\ x \in Int /\ x < k /\ x >= 1
      /\ \A x \in all : x \in old \/ x = k
      /\ \A x \in old : x \in all
      /\ k \in all <=> k = 1 \/ IsHeading(line)
  BY <1>4 DEF StartsOf
<1>6. sections = <<>> <=> k = 1
  <2>1. CASE k = 1
    <3>1. old = {}
      BY <1>5, <2>1
    <3>2. m = 0
      BY <1>3, <3>1
    <3>q. QED BY <1>3, <2>1, <3>2
  <2>2. CASE k # 1
    <3>1. 1 \in old
      BY <1>4, <2>2 DEF StartsOf
    <3>2. m # 0
      BY <1>3, <3>1
    <3>q. QED BY <1>3, <2>2, <3>2
  <2>q. QED BY <2>1, <2>2
<1>7. \A i \in 1..m : b[i] \in old /\ b[i] \in Int /\ b[i] < k /\ b[i] >= 1
  BY <1>3, <1>5
<1> HIDE DEF old, all, line, new
<1>8. ASSUME k = 1 \/ IsHeading(line) PROVE IsCut(new, L, rest, k)
  <2> DEFINE c == [i \in 1..(m + 1) |-> IF i <= m THEN b[i] ELSE k]
             one == <<line>>
  <2>1. new = Append(sections, one)
    BY <1>6, <1>8 DEF Gather, new
  <2>2. one \in Seq(L)
    BY <1>4
  <2> HIDE DEF one
  <2>3. new \in Seq(Seq(L)) /\ Len(new) = m + 1 /\ \A i \in 1..(m + 1) : new[i] = IF i <= m THEN sections[i] ELSE one
    <3> DEFINE E == Seq(L)
    <3>1. sections \in Seq(E) /\ one \in E
      BY <1>3, <2>2
    <3> HIDE DEF E
    <3>2. Append(sections, one) \in Seq(E) /\ Len(Append(sections, one)) = m + 1
          /\ \A i \in 1..(m + 1) : Append(sections, one)[i] = IF i <= m THEN sections[i] ELSE one
      <4>1. /\ Append(sections, one) \in Seq(E) /\ Len(Append(sections, one)) = Len(sections) + 1
            /\ \A i \in 1..Len(sections) : Append(sections, one)[i] = sections[i]
            /\ Append(sections, one)[Len(sections) + 1] = one
        BY <3>1, AppendProperties
      <4>2. \A i \in 1..(m + 1) : i \in 1..m \/ (i = m + 1 /\ ~(i <= m))
        OBVIOUS
      <4>q. QED BY <1>3, <4>1, <4>2
    <3>q. QED BY <2>1, <3>2 DEF E
  <2>4. \A i \in 1..(m + 1) : c[i] = IF i <= m THEN b[i] ELSE k
    OBVIOUS
  <2>5. \A i \in 1..(m + 1) : i \in 1..m \/ (i = m + 1 /\ ~(i <= m))
    OBVIOUS
  <2>6. \A i \in 1..m : i \in 1..(m + 1) /\ c[i] = b[i]
    BY <2>4
  <2>7. m + 1 \in 1..(m + 1) /\ c[m + 1] = k
    BY <2>4
  <2>8. c \in [1..(m + 1) -> all]
    <3>1. ASSUME NEW i \in 1..(m + 1) PROVE c[i] \in all
      <4>1. CASE i \in 1..m
        BY <1>5, <1>7, <2>6, <4>1
      <4>2. CASE i = m + 1
        BY <1>5, <1>8, <2>7, <4>2
      <4>q. QED BY <2>5, <4>1, <4>2
    <3>q. QED BY <3>1
  <2> HIDE DEF c
  <2>9. ASSUME NEW i \in 1..(m + 1), NEW j \in 1..(m + 1), i < j PROVE c[i] < c[j]
    <3>1. CASE j \in 1..m
      <4>1. i \in 1..m
        BY <2>9, <3>1
      <4>q. QED BY <1>3, <2>6, <2>9, <3>1, <4>1
    <3>2. CASE j = m + 1
      <4>1. i \in 1..m
        BY <2>9, <3>2
      <4>q. QED BY <1>7, <2>6, <2>7, <3>2, <4>1
    <3>q. QED BY <2>5, <3>1, <3>2
  <2>10. ASSUME NEW x \in all PROVE \E i \in 1..(m + 1) : c[i] = x
    <3>1. CASE x \in old
      <4>1. PICK i \in 1..m : b[i] = x
        BY <1>3, <3>1
      <4>q. QED BY <2>6, <4>1
    <3>2. CASE x = k
      BY <2>7, <3>2
    <3>q. QED BY <1>5, <3>1, <3>2
  <2>11. ASSUME NEW i \in 1..(m + 1) PROVE new[i] = SubSeq(rest, c[i], EndOf(c, m + 1, i, k))
    <3>1. CASE i \in 1..m
      <4>1. EndOf(c, m + 1, i, k) = EndOf(b, m, i, k - 1)
        <5>1. CASE i = m
          <6>1. EndOf(c, m + 1, i, k) = c[m + 1] - 1 /\ EndOf(b, m, i, k - 1) = k - 1
            BY <5>1 DEF EndOf
          <6>q. QED BY <2>7, <6>1
        <5>2. CASE i # m
          <6>1. i + 1 \in 1..m /\ i # m + 1
            BY <3>1, <5>2
          <6>2. c[i + 1] = b[i + 1]
            BY <2>6, <6>1
          <6>q. QED BY <5>2, <6>1, <6>2 DEF EndOf
        <5>q. QED BY <5>1, <5>2
      <4>2. new[i] = sections[i]
        BY <2>3, <3>1
      <4>q. QED BY <1>3, <2>6, <3>1, <4>1, <4>2
    <3>2. CASE i = m + 1 /\ ~(i <= m)
      <4>1. new[i] = one
        BY <2>3, <3>2
      <4>2. EndOf(c, m + 1, i, k) = k
        BY <3>2 DEF EndOf
      <4>3. SubSeq(rest, k, k) = one
        BY <1>4, Lengthened DEF one, line
      <4>q. QED BY <2>7, <3>2, <4>1, <4>2, <4>3
    <3>q. QED BY <2>5, <3>1, <3>2
  <2>12. CutAt(new, L, rest, k, m + 1, c)
    BY <2>3, <2>8, <2>9, <2>10, <2>11 DEF CutAt, all
  <2>13. m + 1 \in Nat
    OBVIOUS
  <2>q. QED BY <2>12, <2>13 DEF IsCut
<1>9. ASSUME ~(k = 1 \/ IsHeading(line)) PROVE IsCut(new, L, rest, k)
  <2> DEFINE last == Append(sections[m], line)
  <2>1. m \in 1..m
    BY <1>3, <1>6, <1>9
  <2>2. new = [sections EXCEPT ![m] = last]
    BY <1>3, <1>6, <1>9 DEF Gather, new
  <2>3. last \in Seq(L)
    BY <1>3, <1>4, <2>1
  <2> HIDE DEF last
  <2>4. new \in Seq(Seq(L)) /\ Len(new) = m /\ \A i \in 1..m : new[i] = IF i = m THEN last ELSE sections[i]
    <3> DEFINE E == Seq(L)
    <3>1. sections \in [1..m -> E] /\ last \in E
      BY <1>3, <2>3
    <3> HIDE DEF E
    <3>2. new \in [1..m -> E] /\ \A i \in 1..m : new[i] = IF i = m THEN last ELSE sections[i]
      BY <2>2, <3>1
    <3>3. new \in Seq(E) /\ Len(new) = m
      BY <3>2
    <3>q. QED BY <3>2, <3>3 DEF E
  <2>5. old = all
    BY <1>5, <1>9
  <2>6. ASSUME NEW i \in 1..m PROVE new[i] = SubSeq(rest, b[i], EndOf(b, m, i, k))
    <3>1. CASE i # m
      BY <1>3, <2>4, <3>1 DEF EndOf
    <3>2. CASE i = m
      <4>1. sections[m] = SubSeq(rest, b[m], k - 1)
        BY <1>3, <2>1 DEF EndOf
      <4>2. b[m] \in 1..k /\ b[m] # k
        BY <1>4, <1>7, <2>1
      <4>3. SubSeq(rest, b[m], k) = Append(SubSeq(rest, b[m], k - 1), rest[k])
        BY <4>2, Lengthened
      <4>4. new[m] = last
        BY <2>1, <2>4
      <4>q. QED BY <3>2, <4>1, <4>3, <4>4 DEF EndOf, last, line
    <3>q. QED BY <3>1, <3>2
  <2>7. CutAt(new, L, rest, k, m, b)
    BY <1>3, <2>4, <2>5, <2>6 DEF CutAt, all
  <2>q. QED BY <2>7 DEF IsCut
<1>q. QED BY <1>8, <1>9 DEF new, line

AllSections(rest) == FoldLeft(LAMBDA sections, line : Gather(sections, line), <<>>, rest)

SectionSteps(h, L, rest, n) ==
  /\ AllSections(rest) = h[1..n]
  /\ h[1..0] = <<>>
  /\ \A k \in 1..n : h[1..(k - 1)] \in Seq(Seq(L)) /\ h[1..k] = Gather(h[1..(k - 1)], rest[k])

(* splitMarkdownSections: sections are lists of lines.                      *)
LEMMA GatherTyped ==
  ASSUME NEW L, NEW sections \in Seq(Seq(L)), NEW line \in L
  PROVE  Gather(sections, line) \in Seq(Seq(L))
<1> DEFINE E == Seq(L)
           one == <<line>>
           m == Len(sections)
           last == Append(sections[m], line)
<1>1. one \in E /\ sections \in Seq(E)
  OBVIOUS
<1>2. Gather(sections, line) = IF sections = <<>> \/ IsHeading(line) THEN Append(sections, one) ELSE [sections EXCEPT ![m] = last]
  BY DEF Gather
<1>3. sections # <<>> => last \in E /\ m \in 1..m
  OBVIOUS
<1> HIDE DEF E, one, last
<1>4. CASE sections = <<>> \/ IsHeading(line)
  <2>1. Append(sections, one) \in Seq(E)
    BY <1>1
  <2>q. QED BY <1>2, <1>4, <2>1 DEF E
<1>5. CASE ~(sections = <<>> \/ IsHeading(line))
  <2>1. [sections EXCEPT ![m] = last] \in Seq(E)
    BY <1>1, <1>3, <1>5
  <2>q. QED BY <1>2, <1>5, <2>1 DEF E
<1>q. QED BY <1>4, <1>5

(* splitMarkdownSections: the lines are gathered one by one.                *)
LEMMA SectionsGoOn ==
  ASSUME NEW L, NEW n \in Nat, NEW t, t \in [1..n -> L]
  PROVE  \E h : SectionSteps(h, L, t, n)
<1> DEFINE D == DOMAIN t
           V == Seq(Seq(L))
           Add(c, p) == Gather(c, p)
           f == [p \in V \X L |-> Add(p[1], p[2])]
           Loop(h) == [s \in SUBSET D |-> IF s = {} THEN <<>> ELSE LET x == Max(s) IN Gather(h[s \ {x}], t[x])]
           iter[s \in SUBSET D] == IF s = {} THEN <<>> ELSE LET x == Max(s) IN Gather(iter[s \ {x}], t[x])
<1>1. AllSections(t) = iter[D]
  BY DEF AllSections, FoldLeft, MapThenFoldSet
<1>2. D = 1..n
  OBVIOUS
<1>0. ASSUME NEW r \in V, NEW e \in L PROVE Add(r, e) \in V
  BY GatherTyped
<1>3. f \in [V \X L -> V] /\ \A a \in V, b \in L : f[<<a, b>>] = Add(a, b)
  <2> HIDE DEF V, Add
  <2>1. ASSUME NEW p \in V \X L PROVE Add(p[1], p[2]) \in V
    <3>1. p[1] \in V /\ p[2] \in L
      OBVIOUS
    <3>q. QED BY <1>0, <3>1
  <2>q. QED BY <2>1
<1> HIDE DEF f
<1>4. PICK h \in [SUBSET (1..n) -> V] : Accumulates(h, 1..n, f, <<>>, t)
  <2>1. <<>> \in V
    OBVIOUS
  <2> HIDE DEF V
  <2>q. QED BY <1>3, <2>1, LoopExists
<1>5. ASSUME NEW u \in SUBSET (1..n)
      PROVE  h[u] = IF u = {} THEN <<>> ELSE Add(h[u \ {Max(u)}], t[Max(u)])
  <2>1. CASE u = {}
    BY <1>4, <2>1 DEF Accumulates
  <2>2. CASE u # {}
    <3>1. Max(u) \in u
      BY <2>2, GreatestNumber
    <3> HIDE DEF V
    <3>2. h[u \ {Max(u)}] \in V /\ t[Max(u)] \in L
      BY <1>4, <3>1
    <3>3. h[u] = f[<<h[u \ {Max(u)}], t[Max(u)]>>]
      BY <1>4, <2>2 DEF Accumulates
    <3> HIDE DEF Add
    <3>q. QED BY <1>3, <2>2, <3>2, <3>3
  <2>q. QED BY <2>1, <2>2
<1>6. h = Loop(h)
  <2>1. h = [u \in SUBSET D |-> h[u]]
    BY <1>2
  <2>2. \A u \in SUBSET D : h[u] = IF u = {} THEN <<>> ELSE LET x == Max(u) IN Gather(h[u \ {x}], t[x])
    BY <1>2, <1>5
  <2> HIDE DEF D
  <2>q. QED BY <2>1, <2>2
<1>7. iter = Loop(iter)
  BY <1>6, Zenon
<1> HIDE DEF iter
<1>8. iter[1..0] = <<>>
  <2>1. 1..0 = {}
    OBVIOUS
  <2>2. iter[{}] = <<>>
    BY <1>7
  <2>q. QED BY <2>1, <2>2
<1>9. ASSUME NEW k \in 1..n PROVE iter[1..k] = Gather(iter[1..(k - 1)], t[k])
  <2> DEFINE I == 1..k
  <2> HIDE DEF I
  <2>1. I \in SUBSET D /\ I # {} /\ Max(I) = k /\ I \ {k} = 1..(k - 1)
    BY <1>2, UpTo DEF I
  <2>2. iter[I] = Gather(iter[I \ {Max(I)}], t[Max(I)])
    <3> HIDE DEF D
    <3>q. QED BY <1>7, <2>1
  <2>q. QED BY <2>1, <2>2 DEF I
<1>10. iter[D] = iter[1..n]
  <2> HIDE DEF D
  <2>q. QED BY <1>2
<1> DEFINE Bad == {k \in 0..n : iter[1..k] \notin Seq(Seq(L))}
<1>11. Bad = {}
  <2> SUFFICES ASSUME Bad # {} PROVE FALSE
    OBVIOUS
  <2>1. PICK k \in Bad : \A y \in Bad : k <= y
    <3>1. Bad \in SUBSET Nat
      OBVIOUS
    <3> HIDE DEF Bad
    <3>q. QED BY <3>1, LeastNumber
  <2>2. k # 0
    <3>1. <<>> \in Seq(Seq(L))
      OBVIOUS
    <3>q. QED BY <1>8, <2>1, <3>1
  <2>3. k \in 1..n /\ k - 1 \in 0..n /\ ~ (k <= k - 1)
    BY <2>2
  <2>4. iter[1..(k - 1)] \in Seq(Seq(L)) /\ t[k] \in L
    BY <2>1, <2>3
  <2>5. Gather(iter[1..(k - 1)], t[k]) \in Seq(Seq(L))
    <3> DEFINE c == iter[1..(k - 1)]
               p == t[k]
    <3> HIDE DEF c, p
    <3>1. c \in Seq(Seq(L)) /\ p \in L
      BY <2>4 DEF c, p
    <3>2. Gather(c, p) \in Seq(Seq(L))
      BY <3>1, GatherTyped
    <3>q. QED BY <3>2 DEF c, p
  <2>q. QED BY <1>9, <2>1, <2>3, <2>5
<1>12. \A k \in 1..n : iter[1..(k - 1)] \in Seq(Seq(L))
  <2>1. \A k \in 1..n : k - 1 \in 0..n
    OBVIOUS
  <2>q. QED BY <1>11, <2>1
<1>13. SectionSteps(iter, L, t, n)
  BY <1>1, <1>8, <1>9, <1>10, <1>12 DEF SectionSteps
<1>q. QED BY <1>13

(* splitMarkdownSections cuts all lines before each start of a section.     *)
LEMMA AllSectionsCut ==
  ASSUME NEW L, NEW rest \in Seq(L)
  PROVE  IsCut(AllSections(rest), L, rest, Len(rest))
<1> DEFINE n == Len(rest)
<1>0. n \in Nat /\ rest \in [1..n -> L]
  OBVIOUS
<1> HIDE DEF n
<1>1. PICK h : SectionSteps(h, L, rest, n)
  BY <1>0, SectionsGoOn
<1> DEFINE Right(k) == IsCut(h[1..k], L, rest, k)
           Bad == {k \in 0..n : ~Right(k)}
<1>2. Right(0)
  <2> DEFINE none == <<>>
             b == [i \in 1..0 |-> 0]
  <2>1. h[1..0] = none
    BY <1>1 DEF SectionSteps
  <2>2. 1..0 = {}
    OBVIOUS
  <2>3. StartsOf(rest, 0) = {}
    BY <2>2 DEF StartsOf
  <2>4. none \in Seq(Seq(L)) /\ Len(none) = 0
    OBVIOUS
  <2>5. b \in [1..0 -> StartsOf(rest, 0)]
    <3> DEFINE S == StartsOf(rest, 0)
    <3> HIDE DEF S
    <3>1. \A i \in 1..0 : 0 \in S
      OBVIOUS
    <3>2. b \in [1..0 -> S]
      BY <3>1
    <3>q. QED BY <3>2 DEF S
  <2> HIDE DEF none, b
  <2>6. CutAt(none, L, rest, 0, 0, b)
    BY <2>2, <2>3, <2>4, <2>5 DEF CutAt
  <2>7. IsCut(none, L, rest, 0)
    BY <2>6 DEF IsCut
  <2>q. QED BY <2>1, <2>7
<1>3. ASSUME NEW k \in 1..n, Right(k - 1) PROVE Right(k)
  <2> DEFINE before == h[1..(k - 1)]
             e == k - 1
  <2>1. h[1..k] = Gather(before, rest[k]) /\ IsCut(before, L, rest, k - 1) /\ k \in 1..Len(rest)
    BY <1>1, <1>3 DEF SectionSteps, n
  <2> HIDE DEF before
  <2>2. IsCut(Gather(before, rest[k]), L, rest, k)
    BY <2>1, LineGathered
  <2>q. QED BY <2>1, <2>2
<1> HIDE DEF Right
<1>4. Bad = {}
  <2> SUFFICES ASSUME Bad # {} PROVE FALSE
    OBVIOUS
  <2>1. PICK k \in Bad : \A y \in Bad : k <= y
    <3>1. Bad \in SUBSET Nat
      OBVIOUS
    <3> HIDE DEF Bad
    <3>q. QED BY <3>1, LeastNumber
  <2>2. k # 0
    BY <1>2, <2>1
  <2>3. k \in 1..n /\ k - 1 \in 0..n /\ ~ (k <= k - 1)
    BY <1>0, <2>2
  <2>4. Right(k - 1)
    BY <2>1, <2>3
  <2>q. QED BY <1>3, <2>1, <2>3, <2>4
<1>5. n \in 0..n
  BY <1>0
<1>6. Right(n)
  BY <1>4, <1>5
<1>q. QED BY <1>1, <1>6 DEF SectionSteps, Right, n

(* chunkMarkdown: every section of the document comes out, whole and in     *)
(* order, behind the front matter and with the title, for documents of any  *)
(* number of lines of any characters.                                       *)
THEOREM SectionsAreKept ==
  ASSUME NEW C, NEW lines \in Seq(Seq(C))
  PROVE  KeepsSections(lines, Bodies(lines))
<1> DEFINE L == Seq(C)
           low == PrefixEnd(lines) + 1
           rest == SubSeq(lines, low, Len(lines))
           n == Len(rest)
           starts == {i \in DOMAIN rest : i = 1 \/ IsHeading(rest[i])}
           start == Places(starts)
           end(i) == IF i = Cardinality(starts) THEN n ELSE start[i + 1] - 1
           sections == Sections(lines)
           bodies == Bodies(lines)
<1>1. rest \in Seq(L) /\ n \in Nat
  <2>0. PrefixEnd(lines) \in 0..Len(lines)
    BY FrontMatter, Zenon
  <2>s. Len(lines) \in Nat
    OBVIOUS
  <2>1. low \in Int /\ Len(lines) \in Int /\ \A i \in low..Len(lines) : lines[i] \in L
    <3>1. low \in Int /\ Len(lines) \in Int /\ \A i \in low..Len(lines) : i \in 1..Len(lines)
      BY <2>0, <2>s
    <3>2. \A i \in 1..Len(lines) : lines[i] \in L
      OBVIOUS
    <3>q. QED BY <3>1, <3>2
  <2> HIDE DEF low, L
  <2>2. rest \in Seq(L)
    BY <2>1, SubSeqProperties
  <2>q. QED BY <2>2
<1>2. sections = AllSections(rest)
  BY DEF Sections, AllSections
<1>3. bodies = [i \in DOMAIN sections |-> Body(lines, TrimText(sections[i]))]
  BY DEF Bodies
<1> HIDE DEF low, rest, sections, bodies, L
<1>4. starts = StartsOf(rest, n)
  BY <1>1 DEF StartsOf
<1>5. IsCut(sections, L, rest, n)
  BY <1>1, <1>2, AllSectionsCut
<1>6. PICK m \in Nat : \E b : CutAt(sections, L, rest, n, m, b)
  BY <1>5 DEF IsCut
<1>7. PICK b : CutAt(sections, L, rest, n, m, b)
  BY <1>6
<1>8. /\ b \in [1..m -> starts]
      /\ \A i, j \in 1..m : i < j => b[i] < b[j]
      /\ \A x \in starts : \E i \in 1..m : b[i] = x
      /\ sections \in Seq(Seq(L)) /\ Len(sections) = m
      /\ \A i \in 1..m : sections[i] = SubSeq(rest, b[i], EndOf(b, m, i, n))
  BY <1>4, <1>7 DEF CutAt
<1>9. starts \in SUBSET (1..n)
  BY <1>1
<1> HIDE DEF starts, n
<1>10. Cardinality(starts) = m /\ \A i \in 1..m : start[i] = b[i]
  <2>1. /\ b \in [1..m -> starts]
        /\ \A i, j \in 1..m : i < j => b[i] < b[j]
        /\ \A x \in starts : \E i \in 1..m : b[i] = x
    BY <1>8
  <2>2. n \in Nat /\ m \in Nat
    BY <1>1 DEF n
  <2>q. QED BY <1>9, <2>1, <2>2, OneAscent
<1> HIDE DEF start
<1>11. ASSUME NEW i \in 1..m PROVE EndOf(b, m, i, n) = end(i)
  <2>1. i # m => i + 1 \in 1..m
    OBVIOUS
  <2>q. QED BY <1>10, <2>1 DEF EndOf
<1> HIDE DEF end
<1>12. DOMAIN sections = 1..m /\ DOMAIN bodies = 1..m /\ Len(bodies) = m
  BY <1>3, <1>8
<1>13. ASSUME NEW i \in 1..m
       PROVE  Keeps(bodies[i], lines, TrimText(SubSeq(rest, start[i], end(i))))
  <2> DEFINE section == sections[i]
  <2>1. section \in Seq(L) /\ section = SubSeq(rest, start[i], end(i))
    BY <1>8, <1>10, <1>11
  <2>2. bodies[i] = Body(lines, TrimText(section))
    BY <1>3, <1>12
  <2> HIDE DEF section
  <2>3. TrimText(section) \in Seq(Seq(C))
    BY <2>1, TrimmedText DEF L
  <2>4. Keeps(Body(lines, TrimText(section)), lines, TrimText(section))
    BY <2>3, BodyKeeps
  <2>q. QED BY <2>1, <2>2, <2>4
<1>14. /\ Len(bodies) = Cardinality(starts)
       /\ \A i \in DOMAIN bodies :
            /\ IsSuffix(TrimText(SubSeq(rest, start[i], end(i))), bodies[i])
            /\ StartsWith(bodies[i], Metadata(lines))
            /\ Titles(lines) # {} => HasInside(bodies[i], TrimLine(Title(lines)))
  BY <1>10, <1>12, <1>13 DEF Keeps
<1>q. QED BY <1>14 DEF KeepsSections, starts, start, end, rest, low, n, bodies, Places

(* Chunks of any program of this server, for any alphabet, any lines and    *)
(* any blocks, any sizes that config.go accepts and any limit: a text comes *)
(* back from its chunks as it was, no section of a markdown document is     *)
(* lost, cut out of order or stripped of its title and front matter, and    *)
(* every character of a paragraph or a table is in a chunk, none of which   *)
(* is too long (or the document is refused).                                *)
THEOREM ChunksKeptAlways ==
  ASSUME MaxLength \in Nat, "inconsistent" \notin Characters, NEW C, Lines \subseteq Seq(C),
         \A s \in Sizings : s[1] \in Nat \ {0} /\ s[2] \in Nat /\ s[2] < s[1],
         \A b \in Blocks : BlockFits(b)
  PROVE  DecisionsSpec => []ChunksKept
<1> DEFINE Kept == SectionsKept /\ BlocksCovered
<1>1. DecisionsInit => Kept
  <2>1. DecisionsInit => asked.what # "markdown" /\ asked.what # "blocks"
    BY DEF DecisionsInit, Idle
  <2>q. QED BY <2>1 DEF SectionsKept, BlocksCovered
<1>2. Kept /\ [DecisionsNext]_<<asked, answer>> => Kept'
  <2> SUFFICES ASSUME Kept, [DecisionsNext]_<<asked, answer>> PROVE SectionsKept' /\ BlocksCovered'
    OBVIOUS
  <2>1. CASE CutMarkdown
    <3>1. PICK n \in 0..MaxLength : \E lines \in [1..n -> Lines] :
            asked' = [what |-> "markdown", lines |-> lines] /\ answer' = <<Bodies(lines)>>
      BY <2>1, Zenon DEF CutMarkdown, Ask
    <3>2. PICK lines \in [1..n -> Lines] :
            asked' = [what |-> "markdown", lines |-> lines] /\ answer' = <<Bodies(lines)>>
      BY <3>1
    <3>3. lines \in Seq(Seq(C))
      <4>1. n \in Nat /\ lines \in [1..n -> Seq(C)]
        OBVIOUS
      <4>q. QED BY <4>1
    <3>4. asked'.what = "markdown" /\ asked'.lines = lines /\ answer'[1] = Bodies(lines)
      BY <3>2
    <3>5. KeepsSections(lines, Bodies(lines))
      BY <3>3, SectionsAreKept
    <3>6. SectionsKept'
      BY <3>4, <3>5 DEF SectionsKept, Said
    <3>7. BlocksCovered'
      BY <3>4 DEF BlocksCovered
    <3>q. QED BY <3>6, <3>7
  <2>2. CASE CutBlocks
    <3>1. PICK n \in 0..2 : \E blocks \in [1..n -> Blocks], s \in Sizings, limit \in ChunkLimits :
            /\ asked' = [what |-> "blocks", blocks |-> blocks, size |-> s]
            /\ answer' = <<ChunkBlocks(blocks, s[1], s[2], limit)>>
      BY <2>2, Zenon DEF CutBlocks, Ask
    <3>2. PICK blocks \in [1..n -> Blocks], s \in Sizings, limit \in ChunkLimits :
            /\ asked' = [what |-> "blocks", blocks |-> blocks, size |-> s]
            /\ answer' = <<ChunkBlocks(blocks, s[1], s[2], limit)>>
      BY <3>1
    <3>3. n \in Nat /\ DOMAIN blocks = 1..n /\ \A k \in 1..n : BlockFits(blocks[k])
      OBVIOUS
    <3>4. s[1] \in Nat /\ s[2] \in Nat
      OBVIOUS
    <3>5. /\ asked'.what = "blocks" /\ asked'.blocks = blocks /\ asked'.size = s
          /\ answer'[1] = ChunkBlocks(blocks, s[1], s[2], limit)
      BY <3>2
    <3>6. \/ ChunkBlocks(blocks, s[1], s[2], limit) = NoChunks
          \/ CoversBlocks(blocks, ChunkBlocks(blocks, s[1], s[2], limit), s[1])
      BY <3>3, <3>4, BlocksAreCovered
    <3>7. BlocksCovered'
      BY <3>5, <3>6 DEF BlocksCovered, Said
    <3>8. SectionsKept'
      BY <3>5 DEF SectionsKept
    <3>q. QED BY <3>7, <3>8
  <2>3. CASE \/ CutText \/ JudgeAssets \/ PublishRules \/ AnswerSearch \/ AnswerContext \/ ListTargets
             \/ RankTargets \/ WaitAgain \/ ValidateAll \/ ReportUsage \/ ScoreAnswer \/ Done
    <3>1. asked'.what # "markdown" /\ asked'.what # "blocks"
      <4>1. CutText => asked'.what # "markdown" /\ asked'.what # "blocks"
        BY DEF CutText, Ask
      <4>2. JudgeAssets => asked'.what # "markdown" /\ asked'.what # "blocks"
        BY DEF JudgeAssets, Ask
      <4>3. PublishRules => asked'.what # "markdown" /\ asked'.what # "blocks"
        BY DEF PublishRules, Ask
      <4>4. AnswerSearch => asked'.what # "markdown" /\ asked'.what # "blocks"
        BY DEF AnswerSearch, Ask
      <4>5. AnswerContext => asked'.what # "markdown" /\ asked'.what # "blocks"
        BY DEF AnswerContext, Ask
      <4>6. ListTargets => asked'.what # "markdown" /\ asked'.what # "blocks"
        BY DEF ListTargets, Ask
      <4>7. RankTargets => asked'.what # "markdown" /\ asked'.what # "blocks"
        BY DEF RankTargets, Ask
      <4>8. WaitAgain => asked'.what # "markdown" /\ asked'.what # "blocks"
        BY DEF WaitAgain, Ask
      <4>9. ValidateAll => asked'.what # "markdown" /\ asked'.what # "blocks"
        BY DEF ValidateAll, Ask
      <4>10. ReportUsage => asked'.what # "markdown" /\ asked'.what # "blocks"
        BY DEF ReportUsage, Ask
      <4>11. ScoreAnswer => asked'.what # "markdown" /\ asked'.what # "blocks"
        BY DEF ScoreAnswer, Ask
      <4>12. Done => asked'.what # "markdown" /\ asked'.what # "blocks"
        BY DEF Done, Idle
      <4>q. QED BY <2>3, <4>1, <4>2, <4>3, <4>4, <4>5, <4>6, <4>7, <4>8, <4>9, <4>10, <4>11, <4>12
    <3>q. QED BY <3>1 DEF SectionsKept, BlocksCovered
  <2>4. CASE UNCHANGED <<asked, answer>>
    BY <2>4 DEF SectionsKept, BlocksCovered, Said
  <2>q. QED BY <2>1, <2>2, <2>3, <2>4 DEF DecisionsNext
<1>3. DecisionsSpec => []TextIsRebuilt
  BY TextRebuiltAlways
<1>4. Kept /\ TextIsRebuilt => ChunksKept
  BY DEF ChunksKept
<1>q. QED BY <1>1, <1>2, <1>3, <1>4, PTL DEF DecisionsSpec

-------------------------------------------------------------------------------
(* Pages of the catalog. *)

(* The sum over targets, one after the other.                               *)
Sums(h, targets, n) ==
  /\ Size(targets) = h[1..n]
  /\ h[1..0] = 0
  /\ \A k \in 1..n : h[1..k] = h[1..(k - 1)] + targets[k].bytes

(* The size of any targets is summed in this way.                           *)
LEMMA SizeGoesOn ==
  ASSUME NEW E, \A e \in E : e.bytes \in Int, NEW n \in Nat, NEW t, t \in [1..n -> E]
  PROVE  \E h : Sums(h, t, n)
<1> DEFINE D == DOMAIN t
           f == [p \in Int \X E |-> p[1] + p[2].bytes]
           Loop(h) == [s \in SUBSET D |-> IF s = {} THEN 0 ELSE LET x == Max(s) IN h[s \ {x}] + t[x].bytes]
           iter[s \in SUBSET D] == IF s = {} THEN 0 ELSE LET x == Max(s) IN iter[s \ {x}] + t[x].bytes
<1>1. Size(t) = iter[D]
  BY DEF Size, FoldLeft, MapThenFoldSet
<1>2. D = 1..n
  OBVIOUS
<1>3. f \in [Int \X E -> Int]
  OBVIOUS
<1>4. PICK h \in [SUBSET (1..n) -> Int] : Accumulates(h, 1..n, f, 0, t)
  <2> HIDE DEF f
  <2>1. 0 \in Int
    OBVIOUS
  <2>q. QED BY <1>3, <2>1, LoopExists
<1>5. ASSUME NEW u \in SUBSET (1..n)
      PROVE  h[u] = IF u = {} THEN 0 ELSE h[u \ {Max(u)}] + t[Max(u)].bytes
  <2>1. CASE u = {}
    BY <1>4, <2>1 DEF Accumulates
  <2>2. CASE u # {}
    <3>1. Max(u) \in u
      BY <2>2, GreatestNumber
    <3>2. h[u \ {Max(u)}] \in Int /\ t[Max(u)] \in E
      BY <1>4, <3>1
    <3>3. h[u] = f[<<h[u \ {Max(u)}], t[Max(u)]>>]
      BY <1>4, <2>2 DEF Accumulates
    <3> DEFINE a == h[u \ {Max(u)}]
               b == t[Max(u)]
    <3> HIDE DEF a, b
    <3>4. a \in Int /\ b \in E /\ h[u] = f[<<a, b>>]
      BY <3>2, <3>3 DEF a, b
    <3>5. f[<<a, b>>] = a + b.bytes
      BY <3>4
    <3>q. QED BY <2>2, <3>4, <3>5 DEF a, b
  <2>q. QED BY <2>1, <2>2
<1>6. h = Loop(h)
  <2>1. h = [u \in SUBSET D |-> h[u]]
    BY <1>2
  <2>2. \A u \in SUBSET D : h[u] = IF u = {} THEN 0 ELSE LET x == Max(u) IN h[u \ {x}] + t[x].bytes
    BY <1>2, <1>5
  <2> HIDE DEF D
  <2>q. QED BY <2>1, <2>2
<1>7. iter = Loop(iter)
  BY <1>6, Zenon
<1> HIDE DEF iter
<1>8. iter[1..0] = 0
  <2>1. 1..0 = {}
    OBVIOUS
  <2>2. iter[{}] = 0
    BY <1>7
  <2>q. QED BY <2>1, <2>2
<1>9. ASSUME NEW k \in 1..n PROVE iter[1..k] = iter[1..(k - 1)] + t[k].bytes
  <2>1. 1..k \in SUBSET (1..n) /\ 1..k # {}
    <3>1. 1 \in 1..k
      OBVIOUS
    <3>2. \A i \in 1..k : i \in 1..n
      OBVIOUS
    <3>q. QED BY <3>1, <3>2
  <2>2. Max(1..k) = k
    <3> DEFINE I == 1..k
    <3>1. I \in SUBSET (1..n) /\ I # {} /\ k \in I
      BY <1>2, <2>1
    <3>2. Max(I) \in I /\ k <= Max(I)
      BY <3>1, GreatestNumber
    <3>q. QED BY <3>2
  <2>3. (1..k) \ {k} = 1..(k - 1)
    OBVIOUS
  <2> DEFINE I == 1..k
  <2> HIDE DEF I
  <2>4. iter[I] = iter[I \ {Max(I)}] + t[Max(I)].bytes
    <3> HIDE DEF D
    <3>1. I \in SUBSET D /\ I # {}
      BY <1>2, <2>1 DEF I
    <3>q. QED BY <1>7, <3>1
  <2>q. QED BY <2>2, <2>3, <2>4 DEF I
<1>10. iter[D] = iter[1..n]
  <2> HIDE DEF D
  <2>q. QED BY <1>2
<1>11. Sums(iter, t, n)
  BY <1>1, <1>8, <1>9, <1>10 DEF Sums
<1>q. QED BY <1>11

(* A beginning of what fits is kept, and of targets that fit alone never    *)
(* none.                                                                    *)
LEMMA FittingBegins ==
  ASSUME NEW E, \A e \in E : e.bytes \in Int /\ e.bytes <= MostReply, NEW s \in Seq(E)
  PROVE  \E m \in 0..Len(s) : Fitting(s) = SubSeq(s, 1, m) /\ (Len(s) # 0 => m # 0)
<1> DEFINE fits == {n \in 0..Len(s) : Size(SubSeq(s, 1, n)) <= MostReply}
           some == fits \ {0}
           L == Len(s)
<1>1. Fitting(s) = SubSeq(s, 1, Max(fits))
  BY DEF Fitting
<1>2. L \in Nat /\ fits \subseteq 0..L
  OBVIOUS
<1>3. CASE L = 0
  <2>1. Size(SubSeq(s, 1, 0)) = 0
    <3> DEFINE t == SubSeq(s, 1, 0)
    <3>1. t \in [1..0 -> E]
      OBVIOUS
    <3> HIDE DEF t
    <3>2. PICK h : Sums(h, t, 0)
      <4>1. 0 \in Nat
        OBVIOUS
      <4>q. QED BY <3>1, <4>1, SizeGoesOn
    <3>q. QED BY <3>2 DEF Sums, t
  <2>2. 0 \in fits
    <3>1. MostReply \in Nat
      BY CatalogAssumption
    <3>q. QED BY <1>2, <2>1, <3>1
  <2>3. fits = {0}
    BY <1>2, <1>3, <2>2
  <2>4. Max(fits) = 0
    <3> HIDE DEF fits
    <3>q. QED BY <2>3 DEF Max
  <2> HIDE DEF fits
  <2>5. 0 \in 0..Len(s) /\ Fitting(s) = SubSeq(s, 1, 0)
    BY <1>1, <1>3, <2>4
  <2>q. QED BY <1>3, <2>5
<1>4. CASE L # 0
  <2>1. Size(SubSeq(s, 1, 1)) <= MostReply
    <3> DEFINE t == SubSeq(s, 1, 1)
    <3>1. 1 <= L
      BY <1>2, <1>4
    <3>2. t \in Seq(E) /\ Len(t) = 1
      BY <3>1
    <3> HIDE DEF t
    <3>3. t \in [1..1 -> E] /\ t[1] \in E
      BY <3>2
    <3>4. PICK h : Sums(h, t, 1)
      <4>1. 1 \in Nat
        OBVIOUS
      <4>q. QED BY <3>3, <4>1, SizeGoesOn
    <3>5. Size(t) = t[1].bytes
      <4>1. 1 \in 1..1 /\ 1 - 1 = 0
        OBVIOUS
      <4>2. h[1..1] = h[1..(1 - 1)] + t[1].bytes /\ h[1..0] = 0 /\ Size(t) = h[1..1]
        BY <3>4, <4>1 DEF Sums
      <4>3. t[1].bytes \in Int
        BY <3>3
      <4>q. QED BY <4>1, <4>2, <4>3
    <3>q. QED BY <3>3, <3>5 DEF t
  <2>2. 1 \in some /\ some \in SUBSET (1..L) /\ some # {}
    BY <1>2, <1>4, <2>1
  <2> HIDE DEF L
  <2>3. Max(some) \in some /\ \A y \in some : y <= Max(some)
    <3> HIDE DEF some
    <3>q. QED BY <1>2, <2>2, GreatestNumber
  <2>4. \E x \in fits : \A y \in fits : x >= y
    <3>1. Max(some) \in fits /\ Max(some) \in Nat
      BY <1>2, <2>2, <2>3
    <3>2. \A y \in fits : y \in some \/ y = 0
      OBVIOUS
    <3> HIDE DEF fits, some
    <3>3. \A y \in fits : Max(some) >= y
      BY <1>2, <2>3, <3>1, <3>2
    <3>q. QED BY <3>1, <3>3
  <2>5. 1 \in fits
    BY <2>2
  <2> HIDE DEF fits, some
  <2>6. Max(fits) \in fits /\ \A y \in fits : Max(fits) >= y
    BY <2>4, Zenon DEF Max
  <2>7. Max(fits) \in 0..L /\ Max(fits) # 0
    <3>1. Max(fits) \in 0..L /\ Max(fits) >= 1
      BY <1>2, <2>5, <2>6
    <3>q. QED BY <1>2, <3>1
  <2>q. QED BY <1>1, <2>7 DEF L
<1>q. QED BY <1>3, <1>4

(* A page goes on from its offset without a gap, by at least one target,    *)
(* and says where the next begins, or that it was the last.                 *)
LEMMA PageGoesOn ==
  ASSUME NEW E, \A e \in E : e.bytes \in Int /\ e.bytes <= MostReply, NEW ranked \in Seq(E),
         NEW limit \in Nat \ {0}, NEW o \in 0..Len(ranked), o < Len(ranked) \/ o = 0
  PROVE  \E m \in 0..(Len(ranked) - o) :
            /\ SubSeq(ranked, 1, o) \o Page(ranked, o, limit).targets = SubSeq(ranked, 1, o + m)
            /\ Page(ranked, o, limit).next = IF o + m = Len(ranked) THEN -1 ELSE o + m
            /\ o < Len(ranked) => m # 0
<1> DEFINE L == Len(ranked)
           end == IF o >= L THEN L ELSE IF limit < L - o THEN o + limit ELSE L
           sub == SubSeq(ranked, o + 1, end)
<1>1. L \in Nat /\ end \in o..L /\ (o < L => o < end)
  OBVIOUS
<1>2. PageBounds(L, o, limit) = <<o, end>>
  BY DEF PageBounds
<1> HIDE DEF end
<1>3. /\ Page(ranked, o, limit).targets = Fitting(sub)
      /\ Page(ranked, o, limit).next = NextOffset(o, end, L, Len(Fitting(sub)))
  <2> DEFINE bounds == PageBounds(L, o, limit)
             kept == Fitting(SubSeq(ranked, bounds[1] + 1, bounds[2]))
  <2>1. Page(ranked, o, limit) = [targets |-> kept, next |-> NextOffset(bounds[1], bounds[2], L, Len(kept))]
    BY DEF Page
  <2>2. bounds[1] = o /\ bounds[2] = end
    BY <1>2
  <2>3. kept = Fitting(sub)
    BY <2>2
  <2> HIDE DEF kept, bounds
  <2>q. QED BY <2>1, <2>2, <2>3
<1>4. sub \in Seq(E) /\ Len(sub) = end - o /\ \A i \in 1..(end - o) : sub[i] = ranked[o + i]
  BY <1>1
<1> HIDE DEF sub
<1>5. PICK m \in 0..Len(sub) : Fitting(sub) = SubSeq(sub, 1, m) /\ (Len(sub) # 0 => m # 0)
  BY <1>4, FittingBegins
<1> DEFINE kept == SubSeq(sub, 1, m)
           seen == SubSeq(ranked, 1, o)
           more == SubSeq(ranked, 1, o + m)
<1>6. m \in 0..(L - o) /\ (o < L => m # 0) /\ o + m <= end
  BY <1>1, <1>4, <1>5
<1>7. kept \in Seq(E) /\ Len(kept) = m /\ \A i \in 1..m : kept[i] = sub[i]
  BY <1>4, <1>5
<1>8. seen \in Seq(E) /\ Len(seen) = o /\ \A i \in 1..o : seen[i] = ranked[i]
  BY <1>1
<1>9. more \in Seq(E) /\ Len(more) = o + m /\ \A i \in 1..(o + m) : more[i] = ranked[i]
  BY <1>1, <1>6
<1> HIDE DEF kept, seen, more
<1>10. seen \o kept = more
  <2> DEFINE all == seen \o kept
  <2>1. /\ all \in Seq(E) /\ Len(all) = Len(seen) + Len(kept)
        /\ \A i \in 1..(Len(seen) + Len(kept)) : all[i] = IF i <= Len(seen) THEN seen[i] ELSE kept[i - Len(seen)]
    BY <1>7, <1>8, OneAfterAnother, Zenon
  <2> HIDE DEF all
  <2>2. ASSUME NEW i \in 1..(o + m) PROVE all[i] = more[i]
    <3>1. all[i] = IF i <= o THEN seen[i] ELSE kept[i - o]
      BY <1>7, <1>8, <2>1
    <3>2. CASE i <= o
      <4>1. i \in 1..o
        BY <3>2
      <4>q. QED BY <1>8, <1>9, <3>1, <3>2, <4>1
    <3>3. CASE ~ (i <= o)
      <4>1. i - o \in 1..m /\ i - o \in 1..(end - o) /\ o + (i - o) = i
        BY <1>1, <1>6, <3>3
      <4>2. kept[i - o] = sub[i - o] /\ sub[i - o] = ranked[o + (i - o)]
        BY <1>4, <1>7, <4>1
      <4>q. QED BY <1>9, <3>1, <3>3, <4>1, <4>2
    <3>q. QED BY <3>2, <3>3
  <2>3. Len(all) = Len(more) /\ \A i \in 1..Len(all) : all[i] = more[i]
    BY <1>7, <1>8, <1>9, <2>1, <2>2
  <2>4. all = more
    BY <1>9, <2>1, <2>3, SeqEqual, Zenon
  <2>q. QED BY <2>4 DEF all
<1>11. NextOffset(o, end, L, m) = IF o + m = L THEN -1 ELSE o + m
  BY <1>1, <1>6 DEF NextOffset
<1>12. Fitting(sub) = kept
  BY <1>5 DEF kept
<1>q. QED BY <1>3, <1>6, <1>7, <1>10, <1>11, <1>12 DEF seen, more

(* What a client has after the next page.                                   *)
Follow(before, ranked, limit) ==
  LET page == Page(ranked, before.next, limit)
  IN  IF before.next = -1 THEN before ELSE [seen |-> before.seen \o page.targets, next |-> page.next]

WalkStart == [seen |-> <<>>, next |-> 0]

(* A walk: what a client has after each page.                               *)
Walks(f, ranked, limit, pages) ==
  f = [n \in 0..pages |-> IF n = 0 THEN WalkStart ELSE Follow(f[n - 1], ranked, limit)]

(* There is a walk of any number of pages.                                  *)
LEMMA WalkExists ==
  ASSUME NEW ranked, NEW limit, NEW pages \in Nat
  PROVE  \E f : Walks(f, ranked, limit, pages)
<1> DEFINE Step(f, n) == IF n = 0 THEN WalkStart ELSE Follow(f[n - 1], ranked, limit)
           Fills(f, k) == f = [n \in 0..k |-> Step(f, n)]
           Bad == {k \in Nat : ~ \E f : Fills(f, k)}
<1>1. Bad = {}
  <2> SUFFICES ASSUME Bad # {} PROVE FALSE
    OBVIOUS
  <2>1. PICK k \in Bad : \A y \in Bad : k <= y
    <3>1. Bad \in SUBSET Nat
      OBVIOUS
    <3> HIDE DEF Bad
    <3>q. QED BY <3>1, LeastNumber
  <2>2. PICK f : k = 0 \/ Fills(f, k - 1)
    <3>1. CASE k = 0
      BY <3>1
    <3>2. CASE k # 0
      <4>1. k - 1 \in Nat /\ ~ (k <= k - 1)
        BY <3>2
      <4>2. \E f : Fills(f, k - 1)
        BY <2>1, <4>1
      <4>q. QED BY <4>2
    <3>q. QED BY <3>1, <3>2
  <2> DEFINE g == [n \in 0..k |-> IF n = k THEN Step(f, k) ELSE f[n]]
  <2>3. ASSUME NEW n \in 0..k PROVE g[n] = Step(f, n)
    <3>1. CASE n = k
      BY <3>1
    <3>2. CASE n # k
      <4>1. k # 0 /\ n \in 0..(k - 1)
        BY <3>2
      <4>2. f[n] = Step(f, n)
        <5>1. Fills(f, k - 1)
          BY <2>2, <4>1
        <5> DEFINE high == k - 1
        <5>2. f = [i \in 0..high |-> Step(f, i)] /\ n \in 0..high
          BY <4>1, <5>1
        <5> HIDE DEF high, Step
        <5>q. QED BY <5>2, Zenon
      <4>3. g[n] = f[n]
        BY <3>2
      <4> HIDE DEF g, Step
      <4>q. QED BY <4>2, <4>3
    <3>q. QED BY <3>1, <3>2
  <2>4. ASSUME NEW n \in 0..k PROVE Step(f, n) = Step(g, n)
    <3>1. CASE n = 0
      BY <3>1
    <3>2. CASE n # 0
      <4>1. n - 1 \in 0..k /\ n - 1 # k
        BY <3>2
      <4>2. g[n - 1] = f[n - 1]
        BY <4>1
      <4> HIDE DEF g
      <4>q. QED BY <4>2
    <3>q. QED BY <3>1, <3>2
  <2>5. g = [n \in 0..k |-> Step(g, n)]
    <3>1. g = [n \in 0..k |-> g[n]]
      OBVIOUS
    <3> HIDE DEF g, Step
    <3>2. \A n \in 0..k : g[n] = Step(g, n)
      BY <2>3, <2>4
    <3>q. QED BY <3>1, <3>2
  <2> HIDE DEF g
  <2>6. Fills(g, k)
    BY <2>5
  <2>q. QED BY <2>1, <2>6
<1>2. PICK f : Fills(f, pages)
  BY <1>1
<1>3. Walks(f, ranked, limit, pages)
  BY <1>2 DEF Walks
<1>q. QED BY <1>3

(* catalogPageBounds and fitCatalogResponse, for a ranking of any length    *)
(* and any limit: a client that follows next_offset sees every target once, *)
(* in the order of the ranking, and then is told that there is no more,     *)
(* though pages lose the targets that do not fit; that one target fits      *)
(* alone is all it takes.                                                   *)
THEOREM WalkCoversAll ==
  ASSUME NEW E, \A e \in E : e.bytes \in Int /\ e.bytes <= MostReply,
         NEW ranked \in Seq(E), NEW limit \in Nat \ {0}
  PROVE  Walk(ranked, limit, Len(ranked) + 1) = [seen |-> ranked, next |-> -1]
<1> DEFINE L == Len(ranked)
           pages == L + 1
           walk[n \in 0..pages] ==
             IF n = 0 THEN [seen |-> <<>>, next |-> 0]
             ELSE LET before == walk[n - 1] page == Page(ranked, before.next, limit)
                  IN  IF before.next = -1 THEN before ELSE [seen |-> before.seen \o page.targets, next |-> page.next]
           Finished(w) == w = [seen |-> ranked, next |-> -1]
           Reached(w, n) == \E o \in 0..L : /\ n <= o /\ (o < L \/ o = 0)
                                            /\ w = [seen |-> SubSeq(ranked, 1, o), next |-> o]
<1>1. Walk(ranked, limit, L + 1) = walk[pages]
  BY DEF Walk
<1>2. L \in Nat /\ pages \in Nat
  OBVIOUS
<1>3. walk = [n \in 0..pages |-> IF n = 0 THEN WalkStart ELSE Follow(walk[n - 1], ranked, limit)]
  <2> HIDE DEF pages
  <2>1. \E f : Walks(f, ranked, limit, pages)
    BY <1>2, WalkExists
  <2>2. \E f : f = [n \in 0..pages |->
                     IF n = 0 THEN [seen |-> <<>>, next |-> 0]
                     ELSE LET before == f[n - 1] page == Page(ranked, before.next, limit)
                          IN  IF before.next = -1 THEN before
                              ELSE [seen |-> before.seen \o page.targets, next |-> page.next]]
    BY <2>1, Zenon DEF Walks, WalkStart, Follow
  <2>3. walk = [n \in 0..pages |->
                  IF n = 0 THEN [seen |-> <<>>, next |-> 0]
                  ELSE LET before == walk[n - 1] page == Page(ranked, before.next, limit)
                       IN  IF before.next = -1 THEN before
                           ELSE [seen |-> before.seen \o page.targets, next |-> page.next]]
    BY <2>2, Zenon
  <2> HIDE DEF walk
  <2>q. QED BY <2>3, Zenon DEF WalkStart, Follow
<1> HIDE DEF walk
<1>4. SubSeq(ranked, 1, 0) = <<>>
  OBVIOUS
<1>5. SubSeq(ranked, 1, L) = ranked
  <2> DEFINE all == SubSeq(ranked, 1, L)
  <2>1. all \in Seq(E) /\ Len(all) = Len(ranked) /\ \A i \in 1..Len(all) : all[i] = ranked[i]
    OBVIOUS
  <2> HIDE DEF all
  <2>2. all = ranked
    BY <2>1, SeqEqual, Zenon
  <2>q. QED BY <2>2 DEF all
<1> DEFINE Bad == {n \in 0..pages : ~ (Finished(walk[n]) \/ Reached(walk[n], n))}
<1>6. Bad = {}
  <2> SUFFICES ASSUME Bad # {} PROVE FALSE
    OBVIOUS
  <2>1. PICK n \in Bad : \A y \in Bad : n <= y
    <3>1. Bad \in SUBSET Nat
      BY <1>2
    <3> HIDE DEF Bad
    <3>q. QED BY <3>1, LeastNumber
  <2>2. n \in 0..pages
    OBVIOUS
  <2>3. n # 0
    <3>1. walk[0] = [seen |-> <<>>, next |-> 0]
      <4>1. 0 \in 0..pages
        BY <1>2
      <4> HIDE DEF pages
      <4>q. QED BY <1>3, <4>1 DEF WalkStart
    <3>2. Reached(walk[0], 0)
      <4>1. 0 \in 0..L /\ 0 <= 0
        BY <1>2
      <4> HIDE DEF L
      <4>q. QED BY <1>4, <3>1, <4>1
    <3>3. 0 \notin Bad
      BY <3>2
    <3>q. QED BY <3>3
  <2>4. n - 1 \in 0..pages /\ n - 1 \notin Bad
    <3> HIDE DEF pages
    <3>1. n - 1 \in 0..pages /\ ~ (n <= n - 1)
      BY <1>2, <2>2, <2>3
    <3> HIDE DEF Bad
    <3>q. QED BY <2>1, <3>1
  <2> DEFINE before == walk[n - 1]
  <2>5. Finished(before) \/ Reached(before, n - 1)
    BY <2>4
  <2>6. walk[n] = Follow(before, ranked, limit)
    <3> HIDE DEF pages
    <3>q. QED BY <1>3, <2>2, <2>3
  <2> HIDE DEF before
  <2>7. CASE Finished(before)
    <3>1. walk[n] = before
      BY <2>6, <2>7 DEF Follow
    <3>2. Finished(walk[n])
      BY <2>7, <3>1
    <3>q. QED BY <3>2
  <2>8. CASE Reached(before, n - 1)
    <3>1. PICK o \in 0..L : /\ n - 1 <= o /\ (o < L \/ o = 0)
                            /\ before = [seen |-> SubSeq(ranked, 1, o), next |-> o]
      BY <2>8
    <3>2. PICK m \in 0..(L - o) :
            /\ SubSeq(ranked, 1, o) \o Page(ranked, o, limit).targets = SubSeq(ranked, 1, o + m)
            /\ Page(ranked, o, limit).next = IF o + m = L THEN -1 ELSE o + m
            /\ o < L => m # 0
      BY <3>1, PageGoesOn
    <3>3. before.next = o /\ before.seen = SubSeq(ranked, 1, o) /\ before.next # -1
      BY <3>1
    <3> DEFINE page == Page(ranked, o, limit)
    <3>4. walk[n] = [seen |-> before.seen \o page.targets, next |-> page.next]
      <4> HIDE DEF page
      <4>1. Follow(before, ranked, limit) = [seen |-> before.seen \o page.targets, next |-> page.next]
        BY <3>3 DEF Follow, page
      <4>q. QED BY <2>6, <4>1
    <3> HIDE DEF page
    <3>5. walk[n] = [seen |-> SubSeq(ranked, 1, o + m), next |-> IF o + m = L THEN -1 ELSE o + m]
      BY <3>2, <3>3, <3>4 DEF page
    <3>6. CASE o + m = L
      <4>1. SubSeq(ranked, 1, o + m) = ranked
        BY <1>5, <3>6
      <4>2. Finished(walk[n])
        BY <3>5, <3>6, <4>1
      <4>q. QED BY <4>2
    <3>7. CASE o + m # L
      <4> DEFINE p == o + m
      <4> HIDE DEF L, pages
      <4>1. p \in 0..L /\ n <= p /\ p < L
        <5>1. L \in Nat /\ n \in Nat /\ o \in Nat /\ m \in Nat /\ m <= L - o /\ n - 1 <= o /\ (o < L => m # 0)
          BY <1>2, <2>2, <3>1, <3>2
        <5>2. o <= L /\ (o < L \/ o = 0)
          BY <3>1
        <5>q. QED BY <3>7, <5>1, <5>2
      <4> HIDE DEF p
      <4>2. walk[n] = [seen |-> SubSeq(ranked, 1, p), next |-> p]
        BY <3>5, <3>7 DEF p
      <4>3. Reached(walk[n], n)
        BY <4>1, <4>2
      <4>q. QED BY <4>3
    <3>q. QED BY <3>6, <3>7
  <2>q. QED BY <2>5, <2>7, <2>8
<1>7. ~ Reached(walk[pages], pages)
  <2>1. \A o \in 0..L : ~ (pages <= o)
    BY <1>2
  <2> HIDE DEF pages, L
  <2>q. QED BY <2>1
<1>8. pages \in 0..pages
  BY <1>2
<1>9. Finished(walk[pages])
  <2> HIDE DEF pages
  <2>q. QED BY <1>6, <1>7, <1>8
<1>q. QED BY <1>1, <1>9
=================================================================================
