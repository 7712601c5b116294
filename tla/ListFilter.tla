------------------------------ MODULE ListFilter ------------------------------
(***************************************************************************)
(* Lists: one without some of its elements, as Python's comprehensions     *)
(* with a condition make it, and what it keeps of the first one; the sum   *)
(* of a list of numbers; and lists put together.                           *)
(***************************************************************************)
EXTENDS Integers, SequencesExt, WellFoundedInduction, TLAPS

(* The elements of s at the places in K, in their order.                   *)
Kept(s, K) ==
  LET kept[n \in 0..Len(s)] ==
        IF n = 0 THEN <<>> ELSE IF n \in K THEN Append(kept[n - 1], s[n]) ELSE kept[n - 1]
  IN  kept[Len(s)]

(* The sum of a list of numbers.                                           *)
SumOf(s) ==
  LET sum[n \in 0..Len(s)] == IF n = 0 THEN 0 ELSE sum[n - 1] + s[n]
  IN  sum[Len(s)]

-----------------------------------------------------------------------------
(* A set of numbers has a least element. *)
LEMMA LeastNumber ==
  ASSUME NEW S, S \subseteq Nat, S # {}
  PROVE  \E i \in S : \A j \in S : i <= j
<1>1. PICK i \in S : \A j \in S : <<j, i>> \notin OpToRel(<, Nat)
  BY WFMin, NatLessThanWellFounded, Zenon
<1>2. \A j \in S : ~(j < i)
  BY <1>1, Zenon DEF OpToRel
<1> QED
  BY <1>2

(* g computes Kept up to place m. *)
KeptBy(g, s, K, m) ==
  g = [n \in 0..m |-> IF n = 0 THEN <<>>
                      ELSE IF n \in K THEN Append(g[n - 1], s[n]) ELSE g[n - 1]]

(* There is a function that keeps elements one after the other.            *)
LEMMA KeptExists ==
  ASSUME NEW s, NEW K, NEW m \in Nat
  PROVE  \E g : KeptBy(g, s, K, m)
<1> DEFINE Bad == {k \in Nat : ~ \E g : KeptBy(g, s, K, k)}
<1> SUFFICES ASSUME Bad # {} PROVE FALSE
  OBVIOUS
<1>1. PICK k \in Bad : \A j \in Bad : k <= j
  <2>1. Bad \subseteq Nat
    OBVIOUS
  <2> HIDE DEF Bad
  <2> QED
    BY <2>1, LeastNumber
<1>2. CASE k = 0
  <2>1. KeptBy([n \in 0..0 |-> <<>>], s, K, 0)
    BY DEF KeptBy
  <2> QED
    BY <1>1, <1>2, <2>1
<1>3. CASE k # 0
  <2>1. k - 1 \in Nat /\ k - 1 \notin Bad
    BY <1>1, <1>3
  <2>2. PICK g : KeptBy(g, s, K, k - 1)
    BY <2>1
  <2> DEFINE h == [n \in 0..k |-> IF n < k THEN g[n]
                                  ELSE IF k \in K THEN Append(g[k - 1], s[k]) ELSE g[k - 1]]
  <2>3. KeptBy(h, s, K, k)
    <3>1. ASSUME NEW n \in 0..k
          PROVE  h[n] = IF n = 0 THEN <<>> ELSE IF n \in K THEN Append(h[n - 1], s[n]) ELSE h[n - 1]
      <4>1. CASE n < k
        <5>1. n \in 0..(k - 1) /\ (n # 0 => n - 1 \in 0..k /\ n - 1 < k)
          BY <2>1, <4>1
        <5>2. h[n] = g[n] /\ (n # 0 => h[n - 1] = g[n - 1])
          BY <4>1, <5>1
        <5>3. g[n] = IF n = 0 THEN <<>>
                     ELSE IF n \in K THEN Append(g[n - 1], s[n]) ELSE g[n - 1]
          BY <2>2, <5>1, Zenon DEF KeptBy
        <5> QED
          BY <5>2, <5>3
      <4>2. CASE n = k
        BY <1>3, <2>1, <4>2
      <4> QED
        BY <2>1, <4>1, <4>2
    <3> QED
      BY <3>1 DEF KeptBy
  <2> QED
    BY <1>1, <2>3
<1> QED
  BY <1>2, <1>3
(* One more element, and what a sequence then holds. *)
LEMMA OneMore ==
  ASSUME NEW S, NEW s \in Seq(S), NEW e \in S
  PROVE  /\ Append(s, e) \in Seq(S) /\ Len(Append(s, e)) = Len(s) + 1
         /\ ToSet(Append(s, e)) = ToSet(s) \cup {e}
         /\ IsInjective(s) /\ e \notin ToSet(s) => IsInjective(Append(s, e))
<1> DEFINE t == Append(s, e)
<1>1. /\ t \in Seq(S) /\ Len(t) = Len(s) + 1 /\ Len(s) \in Nat
      /\ DOMAIN s = 1..Len(s) /\ DOMAIN t = 1..(Len(s) + 1)
      /\ t[Len(s) + 1] = e /\ \A i \in 1..Len(s) : t[i] = s[i]
  OBVIOUS
<1> HIDE DEF t
<1>2. ToSet(t) = ToSet(s) \cup {e}
  <2>1. \A x \in ToSet(t) : x \in ToSet(s) \cup {e}
    BY <1>1 DEF ToSet
  <2>2. \A x \in ToSet(s) \cup {e} : x \in ToSet(t)
    <3>1. e \in ToSet(t)
      BY <1>1 DEF ToSet
    <3>2. \A i \in DOMAIN s : i \in DOMAIN t /\ t[i] = s[i]
      BY <1>1
    <3> QED
      BY <3>1, <3>2 DEF ToSet
  <2> QED
    BY <2>1, <2>2
<1>3. IsInjective(s) /\ e \notin ToSet(s) => IsInjective(t)
  BY <1>1 DEF IsInjective, ToSet
<1> QED
  BY <1>1, <1>2, <1>3 DEF t

(* Two elements at different places are a pair of R, whichever comes first. *)
PairsAre(R, s) == \A i, j \in DOMAIN s : i # j => <<s[i], s[j]>> \in R

(* The same of a sequence with one more element. *)
LEMMA PairsOneMore ==
  ASSUME NEW S, NEW s \in Seq(S), NEW e \in S, NEW R, PairsAre(R, s),
         \A i \in DOMAIN s : <<s[i], e>> \in R /\ <<e, s[i]>> \in R
  PROVE  PairsAre(R, Append(s, e))
<1> DEFINE t == Append(s, e)
<1>1. /\ Len(s) \in Nat /\ DOMAIN s = 1..Len(s) /\ DOMAIN t = 1..(Len(s) + 1)
      /\ t[Len(s) + 1] = e /\ \A i \in 1..Len(s) : t[i] = s[i]
  OBVIOUS
<1> HIDE DEF t
<1>2. \A i \in DOMAIN t : \/ i \in DOMAIN s /\ t[i] = s[i]
                          \/ i = Len(s) + 1 /\ t[i] = e
  BY <1>1
<1>3. PairsAre(R, t)
  <2> SUFFICES ASSUME NEW i \in DOMAIN t, NEW j \in DOMAIN t, i # j
               PROVE  <<t[i], t[j]>> \in R
    BY DEF PairsAre
  <2> QED
    BY <1>2, Zenon DEF PairsAre
<1> QED
  BY <1>3 DEF t

(* What Kept computes: the elements at the places, each once, and nothing  *)
(* new beside anything. *)
LEMMA KeptElements ==
  ASSUME NEW S, NEW s \in Seq(S), NEW K, NEW R
  PROVE  /\ Kept(s, K) \in Seq(S)
         /\ ToSet(Kept(s, K)) = {s[i] : i \in K \cap DOMAIN s}
         /\ IsInjective(s) => IsInjective(Kept(s, K))
         /\ PairsAre(R, s) => PairsAre(R, Kept(s, K))
<1> DEFINE m == Len(s)
<1>0. m \in Nat /\ DOMAIN s = 1..m
  OBVIOUS
<1>1. PICK g : KeptBy(g, s, K, m) /\ Kept(s, K) = g[m]
  <2>1. \E g : KeptBy(g, s, K, m)
    BY <1>0, KeptExists
  <2> QED
    BY <2>1 DEF Kept, KeptBy
<1>2. /\ g[0] = <<>>
      /\ \A n \in 1..m : g[n] = IF n \in K THEN Append(g[n - 1], s[n]) ELSE g[n - 1]
  <2>1. 0 \in 0..m /\ \A n \in 1..m : n \in 0..m /\ n # 0
    BY <1>0
  <2>2. \A n \in 0..m : g[n] = IF n = 0 THEN <<>>
                                ELSE IF n \in K THEN Append(g[n - 1], s[n]) ELSE g[n - 1]
    BY <1>1, Zenon DEF KeptBy
  <2> QED
    BY <2>1, <2>2
<1> HIDE DEF m
<1> DEFINE Good(n) == /\ g[n] \in Seq(S)
                      /\ ToSet(g[n]) = {s[i] : i \in K \cap (1..n)}
                      /\ IsInjective(s) => IsInjective(g[n])
                      /\ PairsAre(R, s) => PairsAre(R, g[n])
           Bad == {n \in 0..m : ~Good(n)}
<1>3. Good(0)
  <2>1. <<>> \in Seq(S) /\ ToSet(<<>>) = {} /\ IsInjective(<<>>) /\ PairsAre(R, <<>>)
    BY DEF ToSet, IsInjective, PairsAre
  <2>2. K \cap (1..0) = {}
    OBVIOUS
  <2> QED
    BY <1>2, <2>1, <2>2
<1>4. ASSUME NEW n \in 1..m, Good(n - 1)
      PROVE  Good(n)
  <2>0. /\ g[n - 1] \in Seq(S) /\ s[n] \in S
        /\ ToSet(g[n - 1]) = {s[i] : i \in K \cap (1..(n - 1))}
        /\ IsInjective(s) => IsInjective(g[n - 1])
        /\ PairsAre(R, s) => PairsAre(R, g[n - 1])
    BY <1>0, <1>4
  <2>1. CASE n \in K
    <3>1. g[n] = Append(g[n - 1], s[n])
      BY <1>2, <2>1
    <3>2. ToSet(g[n]) = ToSet(g[n - 1]) \cup {s[n]} /\ g[n] \in Seq(S)
      BY <2>0, <3>1, OneMore
    <3>3. {s[i] : i \in K \cap (1..n)} = {s[i] : i \in K \cap (1..(n - 1))} \cup {s[n]}
      <4>1. K \cap (1..n) = (K \cap (1..(n - 1))) \cup {n}
        BY <1>0, <2>1
      <4> QED
        BY <4>1
    <3>4. ASSUME IsInjective(s)
          PROVE  IsInjective(g[n])
      <4>1. s[n] \notin ToSet(g[n - 1])
        BY <1>0, <2>0, <3>4 DEF IsInjective
      <4> QED
        BY <2>0, <3>1, <3>4, <4>1, OneMore, SMTT(30)
    <3>5. ASSUME PairsAre(R, s)
          PROVE  PairsAre(R, g[n])
      <4>1. \A i \in DOMAIN g[n - 1] : /\ <<g[n - 1][i], s[n]>> \in R
                                        /\ <<s[n], g[n - 1][i]>> \in R
        <5> SUFFICES ASSUME NEW i \in DOMAIN g[n - 1]
                     PROVE  /\ <<g[n - 1][i], s[n]>> \in R
                            /\ <<s[n], g[n - 1][i]>> \in R
          OBVIOUS
        <5>1. g[n - 1][i] \in ToSet(g[n - 1])
          BY DEF ToSet
        <5>2. PICK k \in K \cap (1..(n - 1)) : g[n - 1][i] = s[k]
          BY <2>0, <5>1
        <5>3. k \in DOMAIN s /\ n \in DOMAIN s /\ k # n
          BY <1>0
        <5> QED
          BY <3>5, <5>2, <5>3, Zenon DEF PairsAre
      <4> QED
        BY <2>0, <3>1, <3>5, <4>1, PairsOneMore
    <3> QED
      BY <2>0, <3>1, <3>2, <3>3, <3>4, <3>5
  <2>2. CASE n \notin K
    <3>1. K \cap (1..n) = K \cap (1..(n - 1))
      BY <1>0, <2>2
    <3> QED
      BY <1>2, <2>0, <2>2, <3>1
  <2> QED
    BY <2>1, <2>2
<1>5. Bad = {}
  <2> SUFFICES ASSUME Bad # {} PROVE FALSE
    OBVIOUS
  <2>1. PICK n \in Bad : \A j \in Bad : n <= j
    <3>1. Bad \subseteq Nat
      BY <1>0
    <3> HIDE DEF Bad
    <3> QED
      BY <3>1, LeastNumber
  <2>2. n # 0
    BY <1>3, <2>1
  <2>3. n - 1 \in 0..m /\ n \in 1..m
    BY <1>0, <2>1, <2>2
  <2>4. n - 1 \notin Bad
    <3>1. ~(n <= n - 1)
      BY <2>3
    <3> HIDE DEF Bad
    <3> QED
      BY <2>1, <3>1
  <2> HIDE DEF Good
  <2>5. Good(n - 1) /\ ~Good(n)
    BY <2>1, <2>3, <2>4
  <2> QED
    BY <1>4, <2>3, <2>5
<1>6. Good(m)
  <2> HIDE DEF Good
  <2> QED
    BY <1>0, <1>5
<1>7. K \cap (1..m) = K \cap DOMAIN s
  BY <1>0
<1> QED
  BY <1>1, <1>6, <1>7

-----------------------------------------------------------------------------
(* Induction up to a bound, on the set of the numbers where a claim fails. *)
LEMMA NoneFails ==
  ASSUME NEW m \in Nat, NEW Bad, Bad \subseteq 0..m, 0 \notin Bad,
         \A n \in 1..m : n - 1 \notin Bad => n \notin Bad
  PROVE  Bad = {}
<1> SUFFICES ASSUME Bad # {} PROVE FALSE
  OBVIOUS
<1>1. PICK n \in Bad : \A j \in Bad : n <= j
  <2>1. Bad \subseteq Nat
    OBVIOUS
  <2> QED
    BY <2>1, LeastNumber
<1>2. n \in 1..m
  OBVIOUS
<1>3. n - 1 \notin Bad
  BY <1>1, <1>2
<1> QED
  BY <1>1, <1>2, <1>3

(* g is one place after the other what Kept computes. *)
Follows(g, s, K, m) ==
  /\ g[0] = <<>>
  /\ \A n \in 1..m : g[n] = IF n \in K THEN Append(g[n - 1], s[n]) ELSE g[n - 1]

(* Kept is what such a function comes to.                                  *)
LEMMA KeptFollows ==
  ASSUME NEW S, NEW s \in Seq(S), NEW K
  PROVE  \E g : Follows(g, s, K, Len(s)) /\ Kept(s, K) = g[Len(s)]
<1> DEFINE m == Len(s)
<1>0. m \in Nat
  OBVIOUS
<1>1. PICK g : KeptBy(g, s, K, m) /\ Kept(s, K) = g[m]
  <2>1. \E g : KeptBy(g, s, K, m)
    BY <1>0, KeptExists
  <2> QED
    BY <2>1 DEF Kept, KeptBy
<1>2. \A n \in 0..m : g[n] = IF n = 0 THEN <<>>
                              ELSE IF n \in K THEN Append(g[n - 1], s[n]) ELSE g[n - 1]
  BY <1>1, Zenon DEF KeptBy
<1>3. 0 \in 0..m /\ \A n \in 1..m : n \in 0..m /\ n # 0
  BY <1>0
<1>4. Follows(g, s, K, m)
  BY <1>2, <1>3 DEF Follows
<1> QED
  BY <1>1, <1>4

(* Two functions that keep the same elements of a beginning agree on it.   *)
LEMMA FollowersAgree ==
  ASSUME NEW m \in Nat, NEW g, NEW h, NEW s, NEW t, NEW K, NEW L,
         Follows(g, s, K, m), Follows(h, t, L, m),
         \A n \in 1..m : s[n] = t[n] /\ (n \in K <=> n \in L)
  PROVE  \A n \in 0..m : g[n] = h[n]
<1> DEFINE Bad == {n \in 0..m : g[n] # h[n]}
<1>1. 0 \notin Bad
  BY DEF Follows
<1>2. ASSUME NEW n \in 1..m, n - 1 \notin Bad
      PROVE  n \notin Bad
  <2>1. g[n - 1] = h[n - 1]
    BY <1>2
  <2> QED
    BY <2>1 DEF Follows
<1>3. Bad = {}
  <2>1. Bad \subseteq 0..m
    OBVIOUS
  <2> HIDE DEF Bad
  <2> QED
    BY <1>1, <1>2, <2>1, NoneFails
<1> QED
  BY <1>3

(* A list with one more element, and without all or none of its elements. *)
LEMMA KeptOneMore ==
  ASSUME NEW S, NEW s \in Seq(S), NEW e \in S, NEW K, NEW L,
         K \cap (1..Len(s)) = L \cap (1..Len(s))
  PROVE  Kept(Append(s, e), K) = IF Len(s) + 1 \in K THEN Append(Kept(s, L), e) ELSE Kept(s, L)
<1> DEFINE m == Len(s)
           t == Append(s, e)
<1>1. /\ m \in Nat /\ t \in Seq(S) /\ Len(t) = m + 1 /\ t[m + 1] = e
      /\ \A n \in 1..m : t[n] = s[n]
  OBVIOUS
<1> HIDE DEF t
<1>2. PICK g : Follows(g, t, K, m + 1) /\ Kept(t, K) = g[m + 1]
  BY <1>1, KeptFollows
<1>3. PICK h : Follows(h, s, L, m) /\ Kept(s, L) = h[m]
  BY KeptFollows
<1> HIDE DEF m
<1>4. Follows(g, t, K, m)
  BY <1>1, <1>2 DEF Follows
<1>5. \A n \in 1..m : n \in K <=> n \in L
  BY DEF m
<1>6. g[m] = h[m]
  BY <1>1, <1>3, <1>4, <1>5, FollowersAgree
<1>7. g[m + 1] = IF m + 1 \in K THEN Append(g[m], e) ELSE g[m]
  <2>1. m + 1 \in 1..(m + 1) /\ (m + 1) - 1 = m
    BY <1>1
  <2> QED
    BY <1>1, <1>2, <2>1 DEF Follows
<1> QED
  BY <1>1, <1>2, <1>3, <1>6, <1>7 DEF m, t

(* A list of which all is kept stays as it is.                             *)
LEMMA KeptOfAll ==
  ASSUME NEW S, NEW s \in Seq(S), NEW K, 1..Len(s) \subseteq K
  PROVE  Kept(s, K) = s
<1> DEFINE m == Len(s)
<1>0. m \in Nat /\ DOMAIN s = 1..m
  OBVIOUS
<1>1. PICK g : Follows(g, s, K, m) /\ Kept(s, K) = g[m]
  BY KeptFollows
<1> DEFINE Bad == {n \in 0..m : ~(/\ g[n] \in Seq(S) /\ Len(g[n]) = n
                                  /\ \A i \in 1..n : g[n][i] = s[i])}
<1>2. 0 \notin Bad
  <2>1. g[0] = <<>>
    BY <1>1 DEF Follows
  <2>2. <<>> \in Seq(S) /\ Len(<<>>) = 0 /\ \A i \in 1..0 : FALSE
    OBVIOUS
  <2>3. g[0] \in Seq(S) /\ Len(g[0]) = 0 /\ \A i \in 1..0 : g[0][i] = s[i]
    BY <2>1, <2>2
  <2> QED
    BY <2>3
<1>3. ASSUME NEW n \in 1..m, n - 1 \notin Bad
      PROVE  n \notin Bad
  <2>1. g[n - 1] \in Seq(S) /\ Len(g[n - 1]) = n - 1 /\ \A i \in 1..(n - 1) : g[n - 1][i] = s[i]
    BY <1>3
  <2> DEFINE p == g[n - 1]
  <2>2. g[n] = Append(p, s[n]) /\ s[n] \in S
    <3>1. n \in K /\ s[n] \in S
      BY <1>0
    <3> QED
      BY <1>1, <3>1 DEF Follows
  <2>3. n - 1 \in Nat /\ n \in Nat /\ (n - 1) + 1 = n /\ \A i \in 1..n : i = n \/ i \in 1..(n - 1)
    BY <1>0
  <2>4. p \in Seq(S) /\ Len(p) = n - 1 /\ \A i \in 1..(n - 1) : p[i] = s[i]
    BY <2>1
  <2> HIDE DEF p
  <2>5. g[n] \in Seq(S) /\ Len(g[n]) = n /\ g[n][n] = s[n] /\ \A i \in 1..(n - 1) : g[n][i] = p[i]
    BY <2>2, <2>3, <2>4
  <2>6. \A i \in 1..n : g[n][i] = s[i]
    BY <2>3, <2>4, <2>5
  <2> QED
    BY <2>5, <2>6
<1>4. Bad = {}
  <2>1. Bad \subseteq 0..m
    OBVIOUS
  <2> HIDE DEF Bad
  <2> QED
    BY <1>0, <1>2, <1>3, <2>1, NoneFails
<1>5. g[m] \in Seq(S) /\ Len(g[m]) = m /\ \A i \in 1..m : g[m][i] = s[i]
  BY <1>0, <1>4
<1> QED
  BY <1>0, <1>1, <1>5

(* Where nothing is kept nothing is left.                                  *)
LEMMA KeptOfNone ==
  ASSUME NEW S, NEW s \in Seq(S), NEW K, K \cap (1..Len(s)) = {}
  PROVE  Kept(s, K) = <<>>
<1> DEFINE m == Len(s)
<1>0. m \in Nat
  OBVIOUS
<1>1. PICK g : Follows(g, s, K, m) /\ Kept(s, K) = g[m]
  BY KeptFollows
<1> DEFINE Bad == {n \in 0..m : g[n] # <<>>}
<1>2. 0 \notin Bad
  BY <1>1 DEF Follows
<1>3. ASSUME NEW n \in 1..m, n - 1 \notin Bad
      PROVE  n \notin Bad
  BY <1>1, <1>3 DEF Follows
<1>4. Bad = {}
  <2>1. Bad \subseteq 0..m
    OBVIOUS
  <2> HIDE DEF Bad
  <2> QED
    BY <1>0, <1>2, <1>3, <2>1, NoneFails
<1> QED
  BY <1>0, <1>1, <1>4

(* What is left stands in the order it had. *)
LEMMA KeptInOrder ==
  ASSUME NEW S, NEW s \in Seq(S), NEW K, NEW R,
         \A i, j \in K \cap (1..Len(s)) : i < j => <<s[i], s[j]>> \in R
  PROVE  \A i, j \in DOMAIN Kept(s, K) : i < j => <<Kept(s, K)[i], Kept(s, K)[j]>> \in R
<1> DEFINE m == Len(s)
<1>0. m \in Nat /\ DOMAIN s = 1..m
  OBVIOUS
<1>1. PICK g : Follows(g, s, K, m) /\ Kept(s, K) = g[m]
  BY KeptFollows
<1> DEFINE Good(n) == /\ g[n] \in Seq(S)
                      /\ \A i \in DOMAIN g[n] : \E k \in K \cap (1..n) : g[n][i] = s[k]
                      /\ \A i, j \in DOMAIN g[n] : i < j => <<g[n][i], g[n][j]>> \in R
           Bad == {n \in 0..m : ~Good(n)}
<1>2. 0 \notin Bad
  <2>1. g[0] = <<>> /\ <<>> \in Seq(S) /\ DOMAIN <<>> = {}
    BY <1>1 DEF Follows
  <2> QED
    BY <2>1
<1>3. ASSUME NEW n \in 1..m, n - 1 \notin Bad
      PROVE  n \notin Bad
  <2>1. Good(n - 1)
    BY <1>3
  <2> DEFINE p == g[n - 1]
  <2>2. /\ p \in Seq(S)
        /\ \A i \in DOMAIN p : \E k \in K \cap (1..(n - 1)) : p[i] = s[k]
        /\ \A i, j \in DOMAIN p : i < j => <<p[i], p[j]>> \in R
    BY <2>1
  <2>3. s[n] \in S
    BY <1>0
  <2>4. CASE n \notin K
    <3>1. g[n] = p
      BY <1>1, <2>4 DEF Follows
    <3>2. K \cap (1..(n - 1)) \subseteq K \cap (1..n)
      BY <1>0
    <3> HIDE DEF p
    <3>3. Good(n)
      BY <2>2, <3>1, <3>2
    <3> QED
      BY <3>3
  <2>5. CASE n \in K
    <3>1. g[n] = Append(p, s[n])
      BY <1>1, <2>5 DEF Follows
    <3> HIDE DEF p
    <3>2. /\ g[n] \in Seq(S) /\ Len(p) \in Nat /\ DOMAIN p = 1..Len(p)
          /\ DOMAIN g[n] = 1..(Len(p) + 1) /\ g[n][Len(p) + 1] = s[n]
          /\ \A i \in 1..Len(p) : g[n][i] = p[i]
      BY <2>2, <2>3, <3>1
    <3>3. ASSUME NEW i \in DOMAIN g[n]
          PROVE  \E k \in K \cap (1..n) : g[n][i] = s[k]
      <4>1. CASE i \in DOMAIN p
        <5>1. PICK k \in K \cap (1..(n - 1)) : p[i] = s[k]
          BY <2>2, <4>1
        <5>2. k \in K \cap (1..n)
          BY <1>0
        <5> QED
          BY <3>2, <4>1, <5>1, <5>2
      <4>2. CASE i = Len(p) + 1
        <5>1. n \in K \cap (1..n)
          BY <1>0, <2>5
        <5> QED
          BY <3>2, <4>2, <5>1
      <4> QED
        BY <3>2, <4>1, <4>2
    <3>4. ASSUME NEW i \in DOMAIN g[n], NEW j \in DOMAIN g[n], i < j
          PROVE  <<g[n][i], g[n][j]>> \in R
      <4>1. i \in DOMAIN p /\ g[n][i] = p[i]
        BY <3>2, <3>4
      <4>2. CASE j \in DOMAIN p
        <5>1. g[n][j] = p[j]
          BY <3>2, <4>2
        <5> QED
          BY <2>2, <3>4, <4>1, <4>2, <5>1
      <4>3. CASE j = Len(p) + 1
        <5>1. PICK k \in K \cap (1..(n - 1)) : p[i] = s[k]
          BY <2>2, <4>1
        <5>2. k \in K \cap (1..m) /\ n \in K \cap (1..m) /\ k < n
          BY <1>0, <2>5
        <5>3. <<s[k], s[n]>> \in R
          BY <5>2
        <5> QED
          BY <3>2, <4>1, <4>3, <5>1, <5>3
      <4> QED
        BY <3>2, <4>2, <4>3
    <3>5. Good(n)
      BY <3>2, <3>3, <3>4
    <3> QED
      BY <3>5
  <2> QED
    BY <2>4, <2>5
<1>4. Bad = {}
  <2>1. Bad \subseteq 0..m
    OBVIOUS
  <2> HIDE DEF Bad
  <2> QED
    BY <1>0, <1>2, <1>3, <2>1, NoneFails
<1>5. Good(m)
  <2> HIDE DEF Good
  <2> QED
    BY <1>0, <1>4
<1> QED
  BY <1>1, <1>5

(* What is kept of a list is a list of the same elements. *)
LEMMA KeptIsList ==
  ASSUME NEW S, NEW s \in Seq(S), NEW K
  PROVE  /\ Kept(s, K) \in Seq(S) /\ Len(Kept(s, K)) \in Nat
         /\ DOMAIN Kept(s, K) = 1..Len(Kept(s, K))
<1>1. Kept(s, K) \in Seq(S)
  <2>1. \A R : Kept(s, K) \in Seq(S)
    BY KeptElements, Zenon
  <2> QED
    BY <2>1
<1> QED
  BY <1>1

(* A list does not get longer by leaving elements out.                     *)
LEMMA KeptNoLonger ==
  ASSUME NEW S, NEW s \in Seq(S), NEW K
  PROVE  Kept(s, K) \in Seq(S) /\ Len(Kept(s, K)) <= Len(s)
<1> DEFINE m == Len(s)
<1>0. m \in Nat /\ DOMAIN s = 1..m
  OBVIOUS
<1>1. PICK g : Follows(g, s, K, m) /\ Kept(s, K) = g[m]
  BY KeptFollows
<1> DEFINE Bad == {n \in 0..m : ~(g[n] \in Seq(S) /\ Len(g[n]) <= n)}
<1>2. 0 \notin Bad
  <2>1. g[0] = <<>>
    BY <1>1 DEF Follows
  <2>2. <<>> \in Seq(S) /\ Len(<<>>) = 0
    OBVIOUS
  <2>3. g[0] \in Seq(S) /\ Len(g[0]) <= 0
    BY <2>1, <2>2
  <2> QED
    BY <2>3
<1>3. ASSUME NEW n \in 1..m, n - 1 \notin Bad
      PROVE  n \notin Bad
  <2>1. n - 1 \in 0..m /\ n \in 0..m /\ s[n] \in S
    BY <1>0
  <2>2. g[n - 1] \in Seq(S) /\ Len(g[n - 1]) <= n - 1
    BY <1>3, <2>1
  <2>3. g[n] = IF n \in K THEN Append(g[n - 1], s[n]) ELSE g[n - 1]
    BY <1>1 DEF Follows
  <2> DEFINE last == g[n - 1]
  <2>4. Append(last, s[n]) \in Seq(S) /\ Len(Append(last, s[n])) = Len(last) + 1 /\ Len(last) \in Nat
    BY <2>1, <2>2
  <2> HIDE DEF last
  <2>5. g[n] \in Seq(S) /\ Len(g[n]) <= n
    BY <2>1, <2>2, <2>3, <2>4 DEF last
  <2> QED
    BY <2>5
<1>4. Bad = {}
  <2> HIDE DEF Bad, m
  <2> QED
    BY <1>0, <1>2, <1>3, NoneFails DEF Bad
<1> QED
  BY <1>0, <1>1, <1>4

(* The empty list keeps nothing.                                           *)
LEMMA KeptOfEmpty ==
  ASSUME NEW K
  PROVE  Kept(<<>>, K) = <<>>
<1>1. <<>> \in Seq(Nat) /\ K \cap (1..Len(<<>>)) = {}
  OBVIOUS
<1> QED
  BY <1>1, KeptOfNone

(* Where the elements of a filtered list come from. *)
LEMMA KeptPlaces ==
  ASSUME NEW S, NEW s \in Seq(S), NEW K
  PROVE  \E pos : /\ pos \in [1..Len(Kept(s, K)) -> K \cap (1..Len(s))]
                  /\ \A p \in 1..Len(Kept(s, K)) : Kept(s, K)[p] = s[pos[p]]
                  /\ \A i \in K \cap (1..Len(s)) : \E p \in 1..Len(Kept(s, K)) : pos[p] = i
                  /\ \A p, q \in 1..Len(Kept(s, K)) : p < q => pos[p] < pos[q]
<1> DEFINE m == Len(s)
           ids == [n \in 1..m |-> n]
<1>1. /\ m \in Nat /\ DOMAIN s = 1..m /\ ids \in Seq(1..m) /\ Len(ids) = m /\ DOMAIN ids = 1..m
      /\ \A n \in 1..m : ids[n] = n
  OBVIOUS
<1> HIDE DEF m, ids
<1>2. PICK g : Follows(g, s, K, m) /\ Kept(s, K) = g[m]
  BY KeptFollows DEF m
<1>3. PICK h : Follows(h, ids, K, m) /\ Kept(ids, K) = h[m]
  <2>1. \E h : Follows(h, ids, K, Len(ids)) /\ Kept(ids, K) = h[Len(ids)]
    BY <1>1, KeptFollows
  <2> QED
    BY <1>1, <2>1
<1> DEFINE Right(n) == h[n] \in Seq(1..m) /\ g[n] = [p \in 1..Len(h[n]) |-> s[h[n][p]]]
           Bad == {n \in 0..m : ~Right(n)}
<1>4. 0 \notin Bad
  <2>1. h[0] = <<>> /\ g[0] = <<>>
    BY <1>2, <1>3 DEF Follows
  <2> QED
    BY <2>1
<1>5. ASSUME NEW n \in 1..m, n - 1 \notin Bad
      PROVE  n \notin Bad
  <2>1. Right(n - 1)
    BY <1>1, <1>5
  <2>2. /\ h[n] = IF n \in K THEN Append(h[n - 1], n) ELSE h[n - 1]
        /\ g[n] = IF n \in K THEN Append(g[n - 1], s[n]) ELSE g[n - 1]
    BY <1>1, <1>2, <1>3 DEF Follows
  <2>3. CASE n \notin K
    BY <2>1, <2>2, <2>3
  <2>4. CASE n \in K
    <3> DEFINE hs == h[n - 1]
               gs == g[n - 1]
    <3>1. hs \in Seq(1..m) /\ gs = [p \in 1..Len(hs) |-> s[hs[p]]]
      BY <2>1
    <3>2. h[n] = Append(hs, n) /\ g[n] = Append(gs, s[n])
      BY <2>2, <2>4
    <3> HIDE DEF hs, gs
    <3>3. Append(hs, n) \in Seq(1..m)
      BY <3>1
    <3>4. Append(gs, s[n]) = [p \in 1..(Len(hs) + 1) |-> s[Append(hs, n)[p]]]
      <4>1. Len(hs) \in Nat /\ Len(gs) = Len(hs)
        BY <3>1
      <4>2. \A p \in 1..(Len(hs) + 1) : Append(hs, n)[p] = IF p = Len(hs) + 1 THEN n ELSE hs[p]
        BY <3>1
      <4>3. Append(gs, s[n]) = [p \in 1..(Len(hs) + 1) |-> IF p = Len(hs) + 1 THEN s[n] ELSE gs[p]]
        <5> DEFINE T == {s[hs[p]] : p \in 1..Len(hs)}
        <5>1. gs \in [1..Len(hs) -> T]
          BY <3>1
        <5>2. gs \in Seq(T)
          BY <4>1, <5>1
        <5> HIDE DEF T
        <5> QED
          BY <4>1, <5>2
      <4> QED
        BY <3>1, <4>1, <4>2, <4>3
    <3>5. Len(Append(hs, n)) = Len(hs) + 1
      BY <3>1
    <3>6. Right(n)
      BY <3>2, <3>3, <3>4, <3>5
    <3> QED
      BY <3>6
  <2> QED
    BY <2>3, <2>4
<1>6. Bad = {}
  <2>1. Bad \subseteq 0..m
    OBVIOUS
  <2> HIDE DEF Bad
  <2> QED
    BY <1>1, <1>4, <1>5, <2>1, NoneFails
<1>7. Right(m)
  BY <1>1, <1>6
<1> HIDE DEF Right, Bad
<1> DEFINE pos == Kept(ids, K)
<1>8. pos \in Seq(1..m) /\ ToSet(pos) = {ids[i] : i \in K \cap DOMAIN ids}
  <2> DEFINE T == 1..m
  <2>1. ids \in Seq(T)
    BY <1>1
  <2> HIDE DEF T
  <2>2. pos \in Seq(T) /\ ToSet(pos) = {ids[i] : i \in K \cap DOMAIN ids}
    BY <2>1, KeptElements, Zenon
  <2> QED
    BY <2>2 DEF T
<1>9. Kept(s, K) = [p \in 1..Len(pos) |-> s[pos[p]]]
  BY <1>2, <1>3, <1>7 DEF Right
<1>10. \A p, q \in DOMAIN pos : p < q => <<pos[p], pos[q]>> \in {r \in Nat \X Nat : r[1] < r[2]}
  <2>1. \A i, j \in K \cap (1..Len(ids)) : i < j => <<ids[i], ids[j]>> \in {r \in Nat \X Nat : r[1] < r[2]}
    BY <1>1
  <2> QED
    BY <1>1, <2>1, KeptInOrder
<1> HIDE DEF pos
<1>11. Len(Kept(s, K)) = Len(pos) /\ DOMAIN pos = 1..Len(pos) /\ Len(pos) \in Nat
  BY <1>8, <1>9
<1>12. pos \in [1..Len(pos) -> K \cap (1..m)]
  <2>1. \A p \in 1..Len(pos) : pos[p] \in ToSet(pos)
    BY <1>11 DEF ToSet
  <2>2. ToSet(pos) = K \cap (1..m)
    BY <1>1, <1>8
  <2> QED
    BY <1>8, <1>11, <2>1, <2>2
<1>13. \A i \in K \cap (1..m) : \E p \in 1..Len(pos) : pos[p] = i
  <2>1. \A i \in K \cap (1..m) : i \in ToSet(pos)
    BY <1>1, <1>8
  <2> QED
    BY <1>11, <2>1 DEF ToSet
<1>14. \A p, q \in 1..Len(pos) : p < q => pos[p] < pos[q]
  BY <1>10, <1>11
<1>15. \A p \in 1..Len(pos) : Kept(s, K)[p] = s[pos[p]]
  BY <1>9
<1>16. \E q : /\ q \in [1..Len(pos) -> K \cap (1..m)]
              /\ \A p \in 1..Len(pos) : Kept(s, K)[p] = s[q[p]]
              /\ \A i \in K \cap (1..m) : \E p \in 1..Len(pos) : q[p] = i
              /\ \A p, q1 \in 1..Len(pos) : p < q1 => q[p] < q[q1]
  BY <1>12, <1>13, <1>14, <1>15, Zenon
<1>17. 1..Len(Kept(s, K)) = 1..Len(pos) /\ 1..Len(s) = 1..m
  BY <1>11 DEF m
<1> QED
  BY <1>16, <1>17

-----------------------------------------------------------------------------
(* Sums and concatenations of lists, computed the same way. *)
SumsBy(g, s, m) == g = [n \in 0..m |-> IF n = 0 THEN 0 ELSE g[n - 1] + s[n]]

(* There is a function that adds a list up.                                *)
LEMMA SumsExist ==
  ASSUME NEW s, NEW m \in Nat
  PROVE  \E g : SumsBy(g, s, m)
<1> DEFINE Bad == {k \in Nat : ~ \E g : SumsBy(g, s, k)}
<1> SUFFICES ASSUME Bad # {} PROVE FALSE
  OBVIOUS
<1>1. PICK k \in Bad : \A j \in Bad : k <= j
  <2>1. Bad \subseteq Nat
    OBVIOUS
  <2> HIDE DEF Bad
  <2> QED
    BY <2>1, LeastNumber
<1>2. CASE k = 0
  <2>1. SumsBy([n \in 0..0 |-> 0], s, 0)
    BY DEF SumsBy
  <2> QED
    BY <1>1, <1>2, <2>1
<1>3. CASE k # 0
  <2>1. k - 1 \in Nat /\ k - 1 \notin Bad
    BY <1>1, <1>3
  <2>2. PICK g : SumsBy(g, s, k - 1)
    BY <2>1
  <2> DEFINE h == [n \in 0..k |-> IF n < k THEN g[n] ELSE g[k - 1] + s[k]]
  <2>3. SumsBy(h, s, k)
    <3>1. ASSUME NEW n \in 0..k
          PROVE  h[n] = IF n = 0 THEN 0 ELSE h[n - 1] + s[n]
      <4>1. CASE n < k
        <5>1. n \in 0..(k - 1) /\ (n # 0 => n - 1 \in 0..k /\ n - 1 < k)
          BY <2>1, <4>1
        <5>2. h[n] = g[n] /\ (n # 0 => h[n - 1] = g[n - 1])
          BY <4>1, <5>1
        <5>3. g[n] = IF n = 0 THEN 0 ELSE g[n - 1] + s[n]
          BY <2>2, <5>1, Zenon DEF SumsBy
        <5> QED
          BY <5>2, <5>3
      <4>2. CASE n = k
        BY <1>3, <2>1, <4>2
      <4> QED
        BY <2>1, <4>1, <4>2
    <3> QED
      BY <3>1 DEF SumsBy
  <2> QED
    BY <1>1, <2>3
<1> QED
  BY <1>2, <1>3

(* The sum is reached place by place; sums of lists that agree agree. *)
SumFollows(g, s, m) == g[0] = 0 /\ \A n \in 1..m : g[n] = g[n - 1] + s[n]

(* SumOf is what such a function comes to.                                 *)
LEMMA SumIsReached ==
  ASSUME NEW S, NEW s \in Seq(S)
  PROVE  \E g : SumFollows(g, s, Len(s)) /\ SumOf(s) = g[Len(s)]
<1> DEFINE m == Len(s)
<1>0. m \in Nat
  OBVIOUS
<1>1. PICK g : SumsBy(g, s, m) /\ SumOf(s) = g[m]
  <2>1. \E g : SumsBy(g, s, m)
    BY <1>0, SumsExist
  <2> QED
    BY <2>1 DEF SumOf, SumsBy
<1>2. \A n \in 0..m : g[n] = IF n = 0 THEN 0 ELSE g[n - 1] + s[n]
  BY <1>1, Zenon DEF SumsBy
<1>3. 0 \in 0..m /\ \A n \in 1..m : n \in 0..m /\ n # 0
  BY <1>0
<1>4. SumFollows(g, s, m)
  BY <1>2, <1>3 DEF SumFollows
<1> QED
  BY <1>1, <1>4

(* Two functions that add up lists with the same beginning agree on it.    *)
LEMMA SumsAgreeUpTo ==
  ASSUME NEW m \in Nat, NEW g, NEW h, NEW s, NEW t, SumFollows(g, s, m), SumFollows(h, t, m),
         \A n \in 1..m : s[n] = t[n]
  PROVE  g[m] = h[m]
<1> DEFINE Bad == {n \in 0..m : g[n] # h[n]}
<1>1. 0 \notin Bad
  BY DEF SumFollows
<1>2. ASSUME NEW n \in 1..m, n - 1 \notin Bad
      PROVE  n \notin Bad
  <2>1. g[n - 1] = h[n - 1]
    BY <1>2
  <2> QED
    BY <2>1 DEF SumFollows
<1>3. Bad = {}
  <2>1. Bad \subseteq 0..m
    OBVIOUS
  <2> HIDE DEF Bad
  <2> QED
    BY <1>1, <1>2, <2>1, NoneFails
<1> QED
  BY <1>3

(* One more number is added to the sum.                                    *)
LEMMA SumOneMore ==
  ASSUME NEW s \in Seq(Nat), NEW e \in Nat
  PROVE  SumOf(Append(s, e)) = SumOf(s) + e
<1> DEFINE m == Len(s)
           t == Append(s, e)
<1>1. /\ m \in Nat /\ t \in Seq(Nat) /\ Len(t) = m + 1 /\ t[m + 1] = e
      /\ \A n \in 1..m : t[n] = s[n]
  OBVIOUS
<1> HIDE DEF t
<1>2. PICK g : SumFollows(g, t, m + 1) /\ SumOf(t) = g[m + 1]
  BY <1>1, SumIsReached
<1>3. PICK h : SumFollows(h, s, m) /\ SumOf(s) = h[m]
  BY SumIsReached
<1> HIDE DEF m
<1>4. SumFollows(g, t, m)
  BY <1>1, <1>2, SMTT(30) DEF SumFollows
<1>5. g[m] = h[m]
  BY <1>1, <1>3, <1>4, SumsAgreeUpTo
<1>6. g[m + 1] = g[m] + e
  <2>1. m + 1 \in 1..(m + 1) /\ (m + 1) - 1 = m
    BY <1>1
  <2> QED
    BY <1>1, <1>2, <2>1 DEF SumFollows
<1> QED
  BY <1>2, <1>3, <1>5, <1>6 DEF t

(* The sum of a list of naturals is a natural, and none sum to 0.          *)
LEMMA SumIsNat ==
  ASSUME NEW s \in Seq(Nat)
  PROVE  SumOf(s) \in Nat /\ (s = <<>> => SumOf(s) = 0)
<1> DEFINE m == Len(s)
<1>1. PICK g : SumFollows(g, s, m) /\ SumOf(s) = g[m]
  BY SumIsReached
<1> DEFINE Bad == {n \in 0..m : g[n] \notin Nat}
<1>2. m \in Nat /\ \A n \in 1..m : s[n] \in Nat
  OBVIOUS
<1>3. 0 \notin Bad
  BY <1>1 DEF SumFollows
<1>4. ASSUME NEW n \in 1..m, n - 1 \notin Bad
      PROVE  n \notin Bad
  <2>1. g[n - 1] \in Nat /\ s[n] \in Nat
    BY <1>2, <1>4
  <2>2. g[n] = g[n - 1] + s[n]
    BY <1>1, <1>4 DEF SumFollows
  <2> QED
    BY <2>1, <2>2
<1>5. Bad = {}
  <2>1. Bad \subseteq 0..m
    OBVIOUS
  <2> HIDE DEF Bad
  <2> QED
    BY <1>2, <1>3, <1>4, <2>1, NoneFails
<1> QED
  BY <1>1, <1>2, <1>5 DEF SumFollows

(* Concatenation, likewise. *)
JoinsBy(g, ss, m) == g = [i \in 1..m |-> IF i = 1 THEN ss[i] ELSE g[i - 1] \o ss[i]]

(* There is a function that puts lists together.                           *)
LEMMA JoinExists ==
  ASSUME NEW ss, NEW m \in Nat
  PROVE  \E g : JoinsBy(g, ss, m)
<1> DEFINE Bad == {k \in Nat : ~ \E g : JoinsBy(g, ss, k)}
<1> SUFFICES ASSUME Bad # {} PROVE FALSE
  OBVIOUS
<1>1. PICK k \in Bad : \A j \in Bad : k <= j
  <2>1. Bad \subseteq Nat
    OBVIOUS
  <2> HIDE DEF Bad
  <2> QED
    BY <2>1, LeastNumber
<1>2. CASE k = 0
  <2>1. JoinsBy([n \in 1..0 |-> <<>>], ss, 0)
    BY DEF JoinsBy
  <2> QED
    BY <1>1, <1>2, <2>1
<1>3. CASE k # 0
  <2>1. k - 1 \in Nat /\ k - 1 \notin Bad
    BY <1>1, <1>3
  <2>2. PICK g : JoinsBy(g, ss, k - 1)
    BY <2>1
  <2> DEFINE h == [n \in 1..k |-> IF n < k THEN g[n] ELSE IF k = 1 THEN ss[k] ELSE g[k - 1] \o ss[k]]
  <2>3. JoinsBy(h, ss, k)
    <3>1. ASSUME NEW n \in 1..k
          PROVE  h[n] = IF n = 1 THEN ss[n] ELSE h[n - 1] \o ss[n]
      <4>1. CASE n < k
        <5>1. n \in 1..(k - 1) /\ (n # 1 => n - 1 \in 1..k /\ n - 1 < k)
          BY <2>1, <4>1
        <5>2. h[n] = g[n] /\ (n # 1 => h[n - 1] = g[n - 1])
          BY <4>1, <5>1
        <5>3. g[n] = IF n = 1 THEN ss[n] ELSE g[n - 1] \o ss[n]
          BY <2>2, <5>1, Zenon DEF JoinsBy
        <5> QED
          BY <5>2, <5>3
      <4>2. CASE n = k
        <5>1. h[n] = IF k = 1 THEN ss[k] ELSE g[k - 1] \o ss[k]
          BY <4>2
        <5>2. k # 1 => k - 1 \in 1..k /\ k - 1 < k
          BY <1>3, <2>1
        <5>3. k # 1 => h[k - 1] = g[k - 1]
          BY <5>2
        <5> QED
          BY <4>2, <5>1, <5>3
      <4> QED
        BY <2>1, <4>1, <4>2
    <3> QED
      BY <3>1 DEF JoinsBy
  <2> QED
    BY <1>1, <2>3
<1> QED
  BY <1>2, <1>3

JoinFollows(g, ss, m) ==
  \A i \in 1..m : g[i] = IF i = 1 THEN ss[i] ELSE g[i - 1] \o ss[i]

(* FlattenSeq is what such a function comes to.                            *)
LEMMA JoinIsReached ==
  ASSUME NEW S, NEW ss \in Seq(S), ss # <<>>
  PROVE  \E g : JoinFollows(g, ss, Len(ss)) /\ FlattenSeq(ss) = g[Len(ss)]
<1> DEFINE m == Len(ss)
<1>0. m \in Nat /\ m # 0
  OBVIOUS
<1>1. PICK g : JoinsBy(g, ss, m) /\ FlattenSeq(ss) = g[m]
  <2>1. \E g : JoinsBy(g, ss, m)
    BY <1>0, JoinExists
  <2> QED
    BY <1>0, <2>1 DEF FlattenSeq, JoinsBy
<1>2. \A n \in 1..m : g[n] = IF n = 1 THEN ss[n] ELSE g[n - 1] \o ss[n]
  BY <1>1, Zenon DEF JoinsBy
<1> QED
  BY <1>1, <1>2 DEF JoinFollows

(* Two lists are put together as their elements are. *)
LEMMA JoinsAgree ==
  ASSUME NEW m \in Nat \ {0}, NEW g, NEW h, NEW ss, NEW tt,
         JoinFollows(g, ss, m), JoinFollows(h, tt, m), \A n \in 1..m : ss[n] = tt[n]
  PROVE  g[m] = h[m]
<1> DEFINE Bad == {n \in 0..m : n # 0 /\ g[n] # h[n]}
<1>1. 0 \notin Bad
  OBVIOUS
<1>2. ASSUME NEW n \in 1..m, n - 1 \notin Bad
      PROVE  n \notin Bad
  <2>1. n = 1 \/ g[n - 1] = h[n - 1]
    BY <1>2
  <2> QED
    BY <2>1 DEF JoinFollows
<1>3. Bad = {}
  <2>1. Bad \subseteq 0..m
    OBVIOUS
  <2> HIDE DEF Bad
  <2> QED
    BY <1>1, <1>2, <2>1, NoneFails
<1> QED
  BY <1>3

(* One more list is put behind the others.                                 *)
LEMMA JoinOneMore ==
  ASSUME NEW S, NEW ss \in Seq(Seq(S)), NEW s \in Seq(S)
  PROVE  FlattenSeq(Append(ss, s)) = FlattenSeq(ss) \o s
<1> DEFINE m == Len(ss)
           tt == Append(ss, s)
<1>1. /\ m \in Nat /\ tt \in Seq(Seq(S)) /\ Len(tt) = m + 1 /\ tt[m + 1] = s
      /\ (\A n \in 1..m : tt[n] = ss[n]) /\ tt # <<>>
  <2> DEFINE T == Seq(S)
  <2>1. ss \in Seq(T) /\ s \in T
    OBVIOUS
  <2> HIDE DEF T
  <2>2. /\ m \in Nat /\ tt \in Seq(T) /\ Len(tt) = m + 1 /\ tt[m + 1] = s
        /\ (\A n \in 1..m : tt[n] = ss[n])
    BY <2>1
  <2> HIDE DEF tt, m
  <2>3. tt # <<>>
    BY <2>2
  <2> QED
    BY <2>2, <2>3 DEF T
<1> HIDE DEF tt
<1>2. PICK g : JoinFollows(g, tt, m + 1) /\ FlattenSeq(tt) = g[m + 1]
  BY <1>1, JoinIsReached
<1>3. CASE ss = <<>>
  <2>1. m = 0 /\ FlattenSeq(ss) = <<>>
    BY <1>3 DEF FlattenSeq
  <2>2. g[1] = s
    BY <1>1, <1>2, <2>1 DEF JoinFollows
  <2> QED
    BY <1>2, <2>1, <2>2 DEF tt
<1>4. CASE ss # <<>>
  <2>1. m # 0
    BY <1>4
  <2>2. PICK h : JoinFollows(h, ss, m) /\ FlattenSeq(ss) = h[m]
    BY <1>4, JoinIsReached
  <2> HIDE DEF m
  <2>3. JoinFollows(g, tt, m)
    BY <1>1, <1>2 DEF JoinFollows
  <2>4. g[m] = h[m]
    BY <1>1, <2>1, <2>2, <2>3, JoinsAgree
  <2>5. g[m + 1] = g[m] \o s
    <3>1. m + 1 \in 1..(m + 1) /\ (m + 1) - 1 = m /\ m + 1 # 1
      BY <1>1, <2>1
    <3> QED
      BY <1>1, <1>2, <3>1 DEF JoinFollows
  <2> QED
    BY <1>2, <2>2, <2>4, <2>5 DEF tt
<1> QED
  BY <1>3, <1>4

(* No lists put together are the empty list.                               *)
LEMMA JoinOfNone == FlattenSeq(<<>>) = <<>>
  BY DEF FlattenSeq

=============================================================================
