--------------------------- MODULE SequenceLemmas ---------------------------
(* Sequences laid one behind the other, and sets of their positions.       *)
EXTENDS Integers, SequencesExt, FiniteSetTheorems, WellFoundedInduction, TLAPS

----------------------------------------------------------------------------
(* A set of naturals has a least element.                                  *)
LEMMA LeastNat ==
  ASSUME NEW S, S \subseteq Nat, S # {}
  PROVE  \E m \in S : \A k \in S : m <= k
<1> DEFINE R == OpToRel(<, Nat)
<1>1. IsWellFoundedOn(R, Nat)
  BY NatLessThanWellFounded
<1>2. R = {ss \in Nat \X Nat : ss[1] < ss[2]}
  BY DEF OpToRel
<1> HIDE DEF R
<1>3. PICK m \in S : \A k \in S : ~(<<k, m>> \in R)
  BY <1>1, WFMin
<1>4. \A k \in S : ~(k < m)
  BY <1>2, <1>3
<1>5. QED BY <1>4

(* A bounded one has a greatest.                                           *)
LEMMA Greatest ==
  ASSUME NEW n \in Nat, NEW S, S \subseteq 0 .. n, S # {}
  PROVE  \E m \in S : \A k \in S : k <= m
<1> DEFINE T == {n - k : k \in S}
<1>1. T \subseteq Nat /\ T # {}
  <2>1. \A k \in S : k \in Int /\ k <= n
    OBVIOUS
  <2>2. \A k \in S : n - k \in Nat
    BY <2>1
  <2>3. QED BY <2>2
<1>2. PICK least \in T : \A k \in T : least <= k
  BY <1>1, LeastNat
<1>3. PICK m \in S : least = n - m
  BY <1>2
<1>4. \A k \in S : n - m <= n - k
  BY <1>2, <1>3
<1>5. QED BY <1>3, <1>4

(* There is one element for each number of smaller ones.                   *)
LEMMA Ranked ==
  ASSUME NEW n \in Nat, NEW S, S \subseteq 0 .. n
  PROVE  /\ IsFiniteSet(S) /\ Cardinality(S) \in Nat
         /\ \A p \in S : Cardinality({q \in S : q < p}) \in 0 .. Cardinality(S) - 1
         /\ \A p, q \in S : Cardinality({r \in S : r < p}) = Cardinality({r \in S : r < q}) => p = q
         /\ \A k \in 0 .. Cardinality(S) - 1 : \E p \in S : Cardinality({q \in S : q < p}) = k
<1> DEFINE Below(p) == {q \in S : q < p}
           size == Cardinality(S)
           f == [p \in S |-> Cardinality(Below(p))]
<1>1. IsFiniteSet(S) /\ size \in Nat
  <2>1. IsFiniteSet(0 .. n)
    BY FS_Interval
  <2>2. QED BY <2>1, FS_Subset, FS_CardinalityType
<1>2. \A p \in S : IsFiniteSet(Below(p)) /\ Cardinality(Below(p)) \in Nat
  BY <1>1, FS_Subset, FS_CardinalityType
<1>3. \A p \in S : Cardinality(Below(p)) < size
  <2> SUFFICES ASSUME NEW p \in S PROVE Cardinality(Below(p)) < size
    OBVIOUS
  <2>1. Below(p) \in SUBSET S /\ p \notin Below(p)
    OBVIOUS
  <2>2. Cardinality(Below(p)) <= size /\ size # Cardinality(Below(p))
    BY <1>1, <2>1, FS_Subset
  <2>3. QED BY <1>1, <1>2, <2>2
<1>4. \A p, q \in S : p < q => Cardinality(Below(p)) < Cardinality(Below(q))
  <2> SUFFICES ASSUME NEW p \in S, NEW q \in S, p < q
               PROVE  Cardinality(Below(p)) < Cardinality(Below(q))
    OBVIOUS
  <2>0. \A r \in S : r \in Int
    OBVIOUS
  <2>a. \A r \in S : r < p => r < q
    BY <2>0
  <2>b. ~(p < p)
    BY <2>0
  <2>1. Below(p) \in SUBSET Below(q) /\ p \notin Below(p) /\ p \in Below(q)
    BY <2>a, <2>b, Zenon
  <2>2. /\ Cardinality(Below(p)) <= Cardinality(Below(q))
        /\ Cardinality(Below(q)) # Cardinality(Below(p))
    BY <1>2, <2>1, FS_Subset
  <2>3. QED BY <1>2, <2>2
<1>5. \A p, q \in S : Cardinality(Below(p)) = Cardinality(Below(q)) => p = q
  <2> SUFFICES ASSUME NEW p \in S, NEW q \in S, p # q
               PROVE  Cardinality(Below(p)) # Cardinality(Below(q))
    OBVIOUS
  <2>1. p < q \/ q < p
    OBVIOUS
  <2>2. QED BY <1>2, <1>4, <2>1
<1>6. f \in Injection(S, 0 .. size - 1)
  <2>1. f \in [S -> 0 .. size - 1]
    BY <1>1, <1>2, <1>3
  <2>2. \A p, q \in S : f[p] = f[q] => p = q
    BY <1>5
  <2> HIDE DEF f
  <2>3. QED BY <2>1, <2>2 DEF Injection, IsInjective
<1>7. IsFiniteSet(0 .. size - 1) /\ Cardinality(0 .. size - 1) = size
  <2> HIDE DEF size, f, Below
  <2>1. 0 \in Int /\ size - 1 \in Int
    BY <1>1
  <2>2. /\ IsFiniteSet(0 .. size - 1)
        /\ Cardinality(0 .. size - 1) = IF 0 > size - 1 THEN 0 ELSE size - 1 - 0 + 1
    BY <2>1, FS_Interval
  <2>3. QED BY <1>1, <2>2
<1>8. f \in Surjection(S, 0 .. size - 1)
  BY <1>6, <1>7, FS_Injection
<1>9. \A k \in 0 .. size - 1 : \E p \in S : f[p] = k
  BY <1>8 DEF Surjection
<1>10. QED BY <1>1, <1>2, <1>3, <1>5, <1>9

(* What holds of lo and of the next number holds up to hi.                 *)
LEMMA Upward ==
  ASSUME NEW lo \in Int, NEW hi \in Int, NEW S,
         lo <= hi => lo \in S,
         \A k \in lo .. hi - 1 : k \in S => k + 1 \in S
  PROVE  lo .. hi \subseteq S
<1> SUFFICES ASSUME NEW b \in lo .. hi, b \notin S
             PROVE  FALSE
  OBVIOUS
<1> DEFINE Bad == {d \in Nat : lo + d <= hi /\ lo + d \notin S}
<1>1. Bad \subseteq Nat
  OBVIOUS
<1>2. b - lo \in Bad
  <2>1. b - lo \in Nat /\ lo + (b - lo) = b
    OBVIOUS
  <2>2. QED BY <2>1
<1>3. PICK m \in Bad : \A k \in Bad : m <= k
  BY <1>1, <1>2, LeastNat
<1>4. m \in Nat /\ lo + m <= hi /\ lo + m \notin S
  BY <1>3
<1>5. m # 0
  <2>1. lo <= hi /\ lo + 0 = lo
    BY <1>4
  <2>2. QED BY <1>4, <2>1
<1>6. m - 1 \in Nat /\ lo + (m - 1) \in lo .. hi - 1 /\ (lo + (m - 1)) + 1 = lo + m
  BY <1>4, <1>5
<1>7. m - 1 \notin Bad
  <2>1. ~(m <= m - 1)
    BY <1>4
  <2>2. QED BY <1>3, <2>1
<1>8. lo + (m - 1) \in S
  <2>1. lo + (m - 1) <= hi
    BY <1>6
  <2>2. QED BY <1>6, <1>7, <2>1
<1>9. lo + m \in S
  BY <1>6, <1>8
<1>10. QED BY <1>4, <1>9

(* The same from hi down to lo.                                            *)
LEMMA Downward ==
  ASSUME NEW lo \in Int, NEW hi \in Int, NEW S,
         lo <= hi => hi \in S,
         \A k \in lo + 1 .. hi : k \in S => k - 1 \in S
  PROVE  lo .. hi \subseteq S
<1> DEFINE T == {k \in lo .. hi : (lo + hi) - k \in S}
<1>1. lo <= hi => lo \in T
  BY (lo + hi) - lo = hi
<1>2. ASSUME NEW k \in lo .. hi - 1, k \in T
      PROVE  k + 1 \in T
  <2>1. (lo + hi) - k \in S /\ (lo + hi) - k \in lo + 1 .. hi
    BY <1>2
  <2>2. ((lo + hi) - k) - 1 \in S /\ ((lo + hi) - k) - 1 = (lo + hi) - (k + 1) /\ k + 1 \in lo .. hi
    BY <2>1
  <2>3. QED BY <2>2
<1>3. lo .. hi \subseteq T
  <2> HIDE DEF T
  <2>1. QED BY <1>1, <1>2, Upward
<1>4. SUFFICES ASSUME NEW k \in lo .. hi
               PROVE  k \in S
  OBVIOUS
<1>5. (lo + hi) - k \in lo .. hi /\ (lo + hi) - ((lo + hi) - k) = k
  OBVIOUS
<1>6. QED BY <1>3, <1>5

(* Steps of the same length, from zero.                                    *)
LEMMA EvenSteps ==
  ASSUME NEW n \in Nat, NEW d \in Nat, NEW f \in [1 .. n + 1 -> Nat], f[1] = 0,
         \A i \in 1 .. n : f[i + 1] = f[i] + d
  PROVE  \A i \in 1 .. n + 1 : f[i] = d * (i - 1)
<1> DEFINE S == {i \in 1 .. n + 1 : f[i] = d * (i - 1)}
<1>1. 1 \in S
  BY d * (1 - 1) = 0
<1>2. ASSUME NEW k \in 1 .. n, k \in S
      PROVE  k + 1 \in S
  <2>1. f[k] = d * (k - 1) /\ f[k + 1] = f[k] + d
    BY <1>2
  <2>2. d * (k - 1) + d = d * ((k + 1) - 1)
    OBVIOUS
  <2>3. k + 1 \in 1 .. n + 1
    OBVIOUS
  <2>4. QED BY <2>1, <2>2, <2>3
<1>3. 1 .. n + 1 \subseteq S
  <2>1. \A k \in 1 .. (n + 1) - 1 : k \in S => k + 1 \in S
    BY <1>2
  <2>2. 1 \in Int /\ n + 1 \in Int /\ (1 <= n + 1 => 1 \in S)
    BY <1>1
  <2> HIDE DEF S
  <2>3. QED BY <2>1, <2>2, Upward, Zenon
<1>4. QED BY <1>3

(* FlattenSeq puts the sequences one behind the other.                     *)
LEMMA FlattenFacts ==
  ASSUME NEW W, NEW seqs \in Seq(Seq(W))
  PROVE  /\ FlattenSeq(seqs) \in Seq(W)
         /\ \E start \in [1 .. Len(seqs) + 1 -> Nat] :
              /\ start[1] = 0 /\ Len(FlattenSeq(seqs)) = start[Len(seqs) + 1]
              /\ \A i \in 1 .. Len(seqs) :
                   /\ start[i + 1] = start[i] + Len(seqs[i])
                   /\ start[i + 1] <= start[Len(seqs) + 1]
                   /\ \A j \in 1 .. Len(seqs[i]) : FlattenSeq(seqs)[start[i] + j] = seqs[i][j]
<1> DEFINE n == Len(seqs)
           Flat(g, k) == g = [i \in 1 .. k |-> IF i = 1 THEN seqs[i] ELSE g[i - 1] \o seqs[i]]
<1>1. n \in Nat /\ \A i \in 1 .. n : seqs[i] \in Seq(W)
  OBVIOUS
<1>2. CASE n = 0
  <2> DEFINE start == [i \in 1 .. 1 |-> 0]
  <2>1. FlattenSeq(seqs) = seqs /\ seqs = << >>
    BY <1>2 DEF FlattenSeq
  <2>2. start \in [1 .. n + 1 -> Nat] /\ start[1] = 0 /\ Len(FlattenSeq(seqs)) = start[n + 1]
    BY <1>2, <2>1
  <2>3. FlattenSeq(seqs) \in Seq(W) /\ (1 .. Len(seqs)) = {}
    BY <1>2, <2>1
  <2> HIDE DEF start
  <2>4. QED BY <2>2, <2>3
<1>3. CASE n # 0
  <2> DEFINE Good(k) == \E g : Flat(g, k)
             All == {k \in 1 .. n : Good(k)}
  <2>1. Good(1)
    <3> DEFINE g == [i \in 1 .. 1 |-> seqs[i]]
    <3>1. Flat(g, 1)
      OBVIOUS
    <3> HIDE DEF Flat, g
    <3>2. QED BY <3>1
  <2>2. ASSUME NEW k \in 1 .. n - 1, Good(k) PROVE Good(k + 1)
    <3>1. PICK g : Flat(g, k)
      BY <2>2
    <3> DEFINE h == [i \in 1 .. k + 1 |-> IF i = k + 1 THEN g[k] \o seqs[k + 1] ELSE g[i]]
    <3>2. \A i \in 1 .. k + 1 : h[i] = IF i = 1 THEN seqs[i] ELSE h[i - 1] \o seqs[i]
      <4> SUFFICES ASSUME NEW i \in 1 .. k + 1
                   PROVE  h[i] = IF i = 1 THEN seqs[i] ELSE h[i - 1] \o seqs[i]
        OBVIOUS
      <4>1. CASE i = k + 1
        <5>1. i - 1 = k /\ i # 1 /\ k \in 1 .. k + 1 /\ k # k + 1
          BY <1>1, <4>1
        <5>2. h[k] = g[k] /\ h[i] = g[k] \o seqs[i]
          BY <4>1, <5>1
        <5>3. QED BY <5>1, <5>2
      <4>2. CASE i # k + 1
        <5>1. i \in 1 .. k /\ (i # 1 => i - 1 \in 1 .. k /\ i - 1 # k + 1)
          BY <1>1, <4>2
        <5>2. h[i] = g[i] /\ (i # 1 => h[i - 1] = g[i - 1])
          BY <4>2, <5>1
        <5>3. g[i] = IF i = 1 THEN seqs[i] ELSE g[i - 1] \o seqs[i]
          BY <3>1, <5>1
        <5>4. QED BY <5>2, <5>3
      <4>3. QED BY <4>1, <4>2
    <3>3. h = [i \in 1 .. k + 1 |-> h[i]]
      OBVIOUS
    <3> HIDE DEF h
    <3>4. Flat(h, k + 1)
      BY <3>2, <3>3
    <3> HIDE DEF Flat
    <3>5. QED BY <3>4
  <2>3. 1 .. n \subseteq All
    <3>1. 1 \in All
      <4>1. 1 \in 1 .. n
        BY <1>1, <1>3
      <4> HIDE DEF Good, n
      <4>2. QED BY <2>1, <4>1
    <3>2. \A k \in 1 .. n - 1 : k \in All => k + 1 \in All
      <4> HIDE DEF Good
      <4>1. \A k \in 1 .. n - 1 : k + 1 \in 1 .. n
        BY <1>1
      <4>2. QED BY <2>2, <4>1
    <3> HIDE DEF All, n
    <3>3. 1 \in Int /\ n \in Int /\ (1 <= n => 1 \in All)
      BY <1>1, <3>1
    <3>4. QED BY <3>2, <3>3, Upward, Zenon
  <2>4. Good(n)
    <3>1. n \in 1 .. n
      BY <1>1, <1>3
    <3> HIDE DEF Good
    <3>2. QED BY <2>3, <3>1
  <2> DEFINE flatten == CHOOSE g : Flat(g, n)
  <2>5. Flat(flatten, n)
    BY <2>4 DEF Good
  <2>6. FlattenSeq(seqs) = flatten[n]
    BY <1>3 DEF FlattenSeq
  <2> HIDE DEF flatten
  <2>7. /\ flatten[1] = seqs[1]
        /\ \A i \in 2 .. n : flatten[i] = flatten[i - 1] \o seqs[i]
    <3>1. 1 \in 1 .. n /\ \A i \in 2 .. n : i \in 1 .. n /\ i # 1
      BY <1>1, <1>3
    <3>2. \A i \in 1 .. n : flatten[i] = IF i = 1 THEN seqs[i] ELSE flatten[i - 1] \o seqs[i]
      <4> HIDE DEF n
      <4>1. QED BY <2>5
    <3> HIDE DEF Flat, n
    <3>3. QED BY <3>1, <3>2
  <2> HIDE DEF Flat
  <2> DEFINE Typed(k) ==
               /\ flatten[k] \in Seq(W)
               /\ \A i \in 1 .. k : flatten[i] \in Seq(W) /\ Len(flatten[i]) <= Len(flatten[k])
                                    /\ \A j \in 1 .. Len(flatten[i]) : flatten[k][j] = flatten[i][j]
             Fine == {k \in 1 .. n : Typed(k)}
  <2>8. Typed(1)
    BY <1>1, <1>3, <2>7
  <2>9. ASSUME NEW k \in 1 .. n - 1, Typed(k) PROVE Typed(k + 1)
    <3>1. flatten[k + 1] = flatten[k] \o seqs[k + 1]
      <4>1. k + 1 \in 2 .. n /\ (k + 1) - 1 = k
        BY <1>1
      <4> HIDE DEF n
      <4>2. QED BY <2>7, <4>1
    <3>2. flatten[k] \in Seq(W) /\ seqs[k + 1] \in Seq(W)
      BY <1>1, <2>9
    <3>3. /\ flatten[k + 1] \in Seq(W) /\ Len(flatten[k]) <= Len(flatten[k + 1])
          /\ \A j \in 1 .. Len(flatten[k]) : flatten[k + 1][j] = flatten[k][j]
      <4>1. \A a \in Seq(W), b \in Seq(W) :
              /\ a \o b \in Seq(W) /\ Len(a) <= Len(a \o b)
              /\ \A j \in 1 .. Len(a) : (a \o b)[j] = a[j]
        OBVIOUS
      <4> HIDE DEF n, flatten, Typed
      <4>2. LET both == flatten[k] \o seqs[k + 1] IN
            /\ both \in Seq(W) /\ Len(flatten[k]) <= Len(both)
            /\ \A j \in 1 .. Len(flatten[k]) : both[j] = flatten[k][j]
        BY <3>2, <4>1, Zenon
      <4>3. QED BY <3>1, <4>2, Zenon
    <3>4. ASSUME NEW i \in 1 .. k + 1
          PROVE  /\ flatten[i] \in Seq(W) /\ Len(flatten[i]) <= Len(flatten[k + 1])
                 /\ \A j \in 1 .. Len(flatten[i]) : flatten[k + 1][j] = flatten[i][j]
      <4>1. CASE i = k + 1
        BY <3>3, <4>1
      <4>2. CASE i # k + 1
        <5>1. i \in 1 .. k
          BY <1>1, <4>2
        <5>2. /\ flatten[i] \in Seq(W) /\ Len(flatten[i]) <= Len(flatten[k])
              /\ \A j \in 1 .. Len(flatten[i]) : flatten[k][j] = flatten[i][j]
          BY <2>9, <5>1
        <5>3. QED BY <3>2, <3>3, <5>2
      <4>3. QED BY <4>1, <4>2
    <3>5. QED BY <3>3, <3>4
  <2> HIDE DEF Typed
  <2>10. 1 .. n \subseteq Fine
    <3>1. 1 \in Fine
      BY <1>1, <1>3, <2>8
    <3>2. \A k \in 1 .. n - 1 : k + 1 \in 1 .. n
      BY <1>1
    <3>3. \A k \in 1 .. n - 1 : k \in Fine => k + 1 \in Fine
      BY <2>9, <3>2
    <3>4. 1 \in Int /\ n \in Int /\ (1 <= n => 1 \in Fine)
      BY <1>1, <3>1
    <3> HIDE DEF Fine, n
    <3>5. QED BY <3>3, <3>4, Upward, Zenon
  <2>11. Typed(n)
    <3>1. n \in 1 .. n
      BY <1>1, <1>3
    <3>2. QED BY <2>10, <3>1
  <2> DEFINE start == [i \in 1 .. n + 1 |-> IF i = 1 THEN 0 ELSE Len(flatten[i - 1])]
             flat == flatten[n]
  <2>12. /\ flat \in Seq(W)
         /\ \A i \in 1 .. n : flatten[i] \in Seq(W) /\ Len(flatten[i]) \in Nat
                              /\ Len(flatten[i]) <= Len(flat)
                              /\ \A j \in 1 .. Len(flatten[i]) : flat[j] = flatten[i][j]
    BY <2>11 DEF Typed
  <2> HIDE DEF flat
  <2>13. start \in [1 .. n + 1 -> Nat]
    <3>1. \A i \in 1 .. n + 1 : i # 1 => i - 1 \in 1 .. n
      BY <1>1
    <3>2. QED BY <2>12, <3>1
  <2>14. \A i \in 1 .. n : start[i + 1] = Len(flatten[i])
    <3>1. \A i \in 1 .. n : i + 1 \in 1 .. n + 1 /\ i + 1 # 1 /\ (i + 1) - 1 = i
      BY <1>1
    <3>2. QED BY <3>1
  <2>15. start[1] = 0 /\ start[n + 1] = Len(flat)
    BY <1>1, <1>3, <2>14 DEF flat
  <2>16. \A i \in 2 .. n : start[i] = Len(flatten[i - 1]) /\ i - 1 \in 1 .. n
    BY <1>1
  <2> HIDE DEF start
  <2>17. ASSUME NEW i \in 1 .. n
         PROVE  /\ start[i + 1] = start[i] + Len(seqs[i]) /\ start[i + 1] <= start[n + 1]
                /\ \A j \in 1 .. Len(seqs[i]) : flat[start[i] + j] = seqs[i][j]
    <3>1. seqs[i] \in Seq(W) /\ start[i] \in Nat
      BY <1>1, <2>13
    <3>2. Len(flatten[i]) = start[i] + Len(seqs[i])
          /\ \A j \in 1 .. Len(seqs[i]) : flatten[i][start[i] + j] = seqs[i][j]
      <4>1. CASE i = 1
        BY <2>7, <2>15, <3>1, <4>1
      <4>2. CASE i # 1
        <5>1. i \in 2 .. n
          BY <1>1, <4>2
        <5>2. flatten[i] = flatten[i - 1] \o seqs[i] /\ flatten[i - 1] \in Seq(W)
          BY <2>7, <2>12, <2>16, <5>1
        <5>3. Len(flatten[i - 1]) = start[i]
          BY <2>16, <5>1
        <5>4. \A a \in Seq(W), b \in Seq(W) :
                /\ Len(a \o b) = Len(a) + Len(b)
                /\ \A j \in 1 .. Len(b) : (a \o b)[Len(a) + j] = b[j]
          OBVIOUS
        <5> HIDE DEF n
        <5>5. QED BY <3>1, <5>2, <5>3, <5>4
      <4>3. QED BY <4>1, <4>2
    <3>3. \A j \in 1 .. Len(seqs[i]) : start[i] + j \in 1 .. Len(flatten[i])
      BY <3>1, <3>2
    <3>4. \A j \in 1 .. Len(seqs[i]) : flat[start[i] + j] = flatten[i][start[i] + j]
      BY <2>12, <3>3
    <3>5. QED BY <2>12, <2>14, <2>15, <3>2, <3>4
  <2>18. FlattenSeq(seqs) = flat
    BY <2>6 DEF flat
  <2>19. QED BY <2>12, <2>13, <2>15, <2>17, <2>18
<1>4. QED BY <1>2, <1>3

(* A set of the first numbers has as many as its greatest.                 *)
LEMMA FirstOnes ==
  ASSUME NEW n \in Nat, NEW P \in SUBSET (1 .. n),
         \A i \in P : \A j \in 1 .. i : j \in P
  PROVE  Cardinality(P) \in 0 .. n /\ P = 1 .. Cardinality(P)
<1> DEFINE T == {m \in Nat : \A i \in P : i <= m}
<1>1. n \in T /\ T \subseteq Nat
  OBVIOUS
<1>2. PICK m \in T : \A k \in T : m <= k
  BY <1>1, LeastNat
<1>3. m \in Nat /\ m <= n /\ \A i \in P : i <= m
  BY <1>1, <1>2
<1>4. P = 1 .. m
  <2>1. CASE m = 0
    BY <1>3, <2>1
  <2>2. CASE m # 0
    <3>1. m - 1 \in Nat /\ m - 1 \notin T
      BY <1>2, <1>3, <2>2
    <3>2. PICK i \in P : ~(i <= m - 1)
      BY <3>1
    <3>3. i = m
      BY <1>3, <3>2
    <3>4. m \in P
      BY <3>2, <3>3
    <3>5. 1 .. m \subseteq P
      BY <3>4
    <3>6. P \subseteq 1 .. m
      BY <1>3
    <3>7. QED BY <3>5, <3>6
  <2>3. QED BY <2>1, <2>2
<1>5. Cardinality(1 .. m) = m
  <2>1. Cardinality(1 .. m) = IF 1 > m THEN 0 ELSE m - 1 + 1
    BY <1>3, FS_Interval
  <2>2. QED BY <1>3, <2>1
<1>6. QED BY <1>3, <1>4, <1>5

(* Sequences with the same elements are the same.                          *)
LEMMA SameSeq ==
  ASSUME NEW W, NEW s \in Seq(W), NEW t \in Seq(W), Len(s) = Len(t),
         \A i \in 1 .. Len(s) : s[i] = t[i]
  PROVE  s = t
OBVIOUS

(* What two sequences are one behind the other.                            *)
LEMMA Behind ==
  ASSUME NEW W, NEW s \in Seq(W), NEW t \in Seq(W)
  PROVE  /\ s \o t \in Seq(W) /\ Len(s \o t) = Len(s) + Len(t)
         /\ \A i \in 1 .. Len(s) : (s \o t)[i] = s[i]
         /\ \A i \in 1 .. Len(t) : (s \o t)[Len(s) + i] = t[i]
OBVIOUS

(* One element is written over.                                            *)
LEMMA OneChanged ==
  ASSUME NEW W, NEW s \in Seq(W), NEW at, NEW x \in W
  PROVE  /\ [s EXCEPT ![at] = x] \in Seq(W) /\ Len([s EXCEPT ![at] = x]) = Len(s)
         /\ at \in 1 .. Len(s) => [s EXCEPT ![at] = x][at] = x
         /\ \A i \in 1 .. Len(s) : i # at => [s EXCEPT ![at] = x][i] = s[i]
<1>1. [s EXCEPT ![at] = x] = [i \in 1 .. Len(s) |-> IF i = at THEN x ELSE s[i]]
  OBVIOUS
<1>2. Len(s) \in Nat /\ \A i \in 1 .. Len(s) : s[i] \in W
  OBVIOUS
<1> DEFINE c == [i \in 1 .. Len(s) |-> IF i = at THEN x ELSE s[i]]
<1>3. c \in Seq(W) /\ Len(c) = Len(s)
  BY <1>2
<1>4. QED BY <1>1, <1>3

(* All but the last element.                                               *)
LEMMA FrontOf ==
  ASSUME NEW W, NEW s \in Seq(W), s # << >>
  PROVE  /\ Len(s) \in Nat /\ Len(s) >= 1
         /\ Front(s) \in Seq(W) /\ Len(Front(s)) = Len(s) - 1
         /\ \A k \in 1 .. Len(s) - 1 : Front(s)[k] = s[k]
         /\ Last(s) = s[Len(s)] /\ Last(s) \in W
<1>1. Len(s) \in Nat /\ Len(s) >= 1
  OBVIOUS
<1>2. Front(s) = SubSeq(s, 1, Len(s) - 1) /\ Last(s) = s[Len(s)]
  BY DEF Front, Last
<1>3. /\ SubSeq(s, 1, Len(s) - 1) \in Seq(W) /\ Len(SubSeq(s, 1, Len(s) - 1)) = Len(s) - 1
      /\ \A k \in 1 .. Len(s) - 1 : SubSeq(s, 1, Len(s) - 1)[k] = s[k]
  <2> DEFINE m == Len(s) - 1
  <2>1. m \in Nat /\ m <= Len(s)
    BY <1>1
  <2> HIDE DEF m
  <2>2. SubSeq(s, 1, m) = [k \in 1 .. m |-> s[k]]
    BY <1>1, <2>1
  <2>3. \A k \in 1 .. m : s[k] \in W
    BY <1>1, <2>1
  <2>4. SubSeq(s, 1, m) \in Seq(W) /\ Len(SubSeq(s, 1, m)) = m
    BY <2>1, <2>2, <2>3
  <2>5. QED BY <2>2, <2>4 DEF m
<1>4. QED BY <1>1, <1>2, <1>3

----------------------------------------------------------------------------
(* Sequences of anything.                                                  *)

IsSeq(s) == \E W : s \in Seq(W)

(* Two sequences of words one behind the other.                            *)
LEMMA Joined ==
  ASSUME NEW a, NEW b, IsSeq(a), IsSeq(b)
  PROVE  /\ IsSeq(a \o b) /\ Len(a) \in Nat /\ Len(b) \in Nat /\ Len(a \o b) = Len(a) + Len(b)
         /\ \A i \in 1 .. Len(a) : (a \o b)[i] = a[i]
         /\ \A i \in 1 .. Len(b) : (a \o b)[Len(a) + i] = b[i]
<1>1. PICK V : a \in Seq(V)
  BY DEF IsSeq
<1>2. PICK W : b \in Seq(W)
  BY DEF IsSeq
<1>3. a \in Seq(V \cup W) /\ b \in Seq(V \cup W)
  BY <1>1, <1>2
<1>4. Len(a) \in Nat /\ Len(b) \in Nat
  BY <1>1, <1>2
<1> DEFINE c == a \o b
<1>5. /\ c \in Seq(V \cup W) /\ Len(c) = Len(a) + Len(b)
      /\ \A i \in 1 .. Len(a) : c[i] = a[i]
      /\ \A i \in 1 .. Len(b) : c[Len(a) + i] = b[i]
  BY <1>3, Behind
<1> HIDE DEF c
<1>6. QED BY <1>4, <1>5 DEF c, IsSeq

(* The same words are the same sequence.                                   *)
LEMMA SameWords ==
  ASSUME NEW a, NEW b, IsSeq(a), IsSeq(b), Len(a) = Len(b), \A i \in 1 .. Len(a) : a[i] = b[i]
  PROVE  a = b
<1>1. PICK V : a \in Seq(V)
  BY DEF IsSeq
<1>2. PICK W : b \in Seq(W)
  BY DEF IsSeq
<1>3. a \in Seq(V \cup W) /\ b \in Seq(V \cup W)
  BY <1>1, <1>2
<1> DEFINE U == V \cup W
<1> HIDE DEF U
<1>4. a \in Seq(U) /\ b \in Seq(U)
  BY <1>3 DEF U
<1>5. QED BY <1>4, SameSeq

(* One word more is in the file.                                           *)
LEMMA PartWritten ==
  ASSUME NEW a, NEW b, IsSeq(a), IsSeq(b), b # << >>
  PROVE  /\ IsSeq(Append(a, Head(b))) /\ IsSeq(Tail(b))
         /\ Len(Append(a, Head(b))) = Len(a) + 1
         /\ Append(a, Head(b)) \o Tail(b) = a \o b
<1>1. PICK V : a \in Seq(V)
  BY DEF IsSeq
<1>2. PICK W : b \in Seq(W)
  BY DEF IsSeq
<1> DEFINE U == V \cup W
<1>3. a \in Seq(U) /\ b \in Seq(U)
  BY <1>1, <1>2
<1> HIDE DEF U
<1>4. Append(a, Head(b)) \in Seq(U) /\ Tail(b) \in Seq(U) /\ Len(Append(a, Head(b))) = Len(a) + 1
  BY <1>3
<1>5. Append(a, Head(b)) \o Tail(b) = a \o b
  BY <1>3
<1>6. QED BY <1>4, <1>5 DEF IsSeq

(* The first words of a sequence.                                          *)
LEMMA FirstWords ==
  ASSUME NEW d, IsSeq(d), NEW n \in Nat, n <= Len(d)
  PROVE  /\ IsSeq(SubSeq(d, 1, n)) /\ Len(SubSeq(d, 1, n)) = n
         /\ \A i \in 1 .. n : SubSeq(d, 1, n)[i] = d[i]
<1>1. PICK V : d \in Seq(V)
  BY DEF IsSeq
<1>2. SubSeq(d, 1, n) \in Seq(V) /\ Len(SubSeq(d, 1, n)) = n
  BY <1>1
<1>3. QED BY <1>1, <1>2 DEF IsSeq

(* A cut of the file is one of the whole.                                  *)
LEMMA CutOfWhole ==
  ASSUME NEW a, NEW b, IsSeq(a), IsSeq(b), NEW n \in Nat, n <= Len(a)
  PROVE  SubSeq(a, 1, n) = SubSeq(a \o b, 1, n) /\ SubSeq(a \o b, 1, Len(a)) = a
<1> DEFINE c == a \o b
<1>1. /\ IsSeq(c) /\ Len(a) \in Nat /\ Len(b) \in Nat /\ Len(c) = Len(a) + Len(b)
      /\ \A i \in 1 .. Len(a) : c[i] = a[i]
  BY Joined
<1> HIDE DEF c
<1>2. n <= Len(c) /\ Len(a) <= Len(c)
  BY <1>1
<1>3. /\ IsSeq(SubSeq(a, 1, n)) /\ Len(SubSeq(a, 1, n)) = n
      /\ \A i \in 1 .. n : SubSeq(a, 1, n)[i] = a[i]
  BY FirstWords
<1>4. /\ IsSeq(SubSeq(c, 1, n)) /\ Len(SubSeq(c, 1, n)) = n
      /\ \A i \in 1 .. n : SubSeq(c, 1, n)[i] = c[i]
  BY <1>1, <1>2, FirstWords
<1>5. /\ IsSeq(SubSeq(c, 1, Len(a))) /\ Len(SubSeq(c, 1, Len(a))) = Len(a)
      /\ \A i \in 1 .. Len(a) : SubSeq(c, 1, Len(a))[i] = c[i]
  BY <1>1, <1>2, FirstWords
<1>6. SubSeq(a, 1, n) = SubSeq(c, 1, n)
  <2>1. \A i \in 1 .. n : SubSeq(a, 1, n)[i] = SubSeq(c, 1, n)[i]
    BY <1>1, <1>3, <1>4
  <2>2. QED BY <1>3, <1>4, <2>1, SameWords
<1>7. SubSeq(c, 1, Len(a)) = a
  BY <1>1, <1>5, SameWords
<1>8. QED BY <1>6, <1>7 DEF c

(* The last words of a sequence.                                           *)
LEMMA LastWords ==
  ASSUME NEW d, IsSeq(d), NEW n \in Nat, n <= Len(d)
  PROVE  /\ IsSeq(SubSeq(d, n + 1, Len(d))) /\ Len(SubSeq(d, n + 1, Len(d))) = Len(d) - n
         /\ \A i \in 1 .. Len(d) - n : SubSeq(d, n + 1, Len(d))[i] = d[n + i]
<1>1. PICK V : d \in Seq(V)
  BY DEF IsSeq
<1>2. Len(d) \in Nat
  BY <1>1
<1> DEFINE t == SubSeq(d, n + 1, Len(d))
<1>3. t \in Seq(V) /\ Len(t) = Len(d) - n
  BY <1>1, <1>2
<1>4. \A i \in 1 .. Len(d) - n : t[i] = d[n + i]
  <2>1. \A i \in 1 .. Len(d) - n : t[i] = d[(n + 1) + i - 1] /\ (n + 1) + i - 1 = n + i
    BY <1>1, <1>2
  <2>2. QED BY <2>1
<1> HIDE DEF t
<1>5. QED BY <1>3, <1>4 DEF t, IsSeq

(* A pair and one more.                                                    *)
LEMMA PairAndOne ==
  ASSUME NEW x, NEW y, NEW z
  PROVE  <<x, y>> \o <<z>> = <<x, y, z>>
<1> DEFINE W == {x, y, z}
           a == <<x, y>>
           b == <<z>>
           c == <<x, y, z>>
<1>1. /\ a \in Seq(W) /\ Len(a) = 2 /\ a[1] = x /\ a[2] = y
      /\ b \in Seq(W) /\ Len(b) = 1 /\ b[1] = z
      /\ c \in Seq(W) /\ Len(c) = 3 /\ c[1] = x /\ c[2] = y /\ c[3] = z
  OBVIOUS
<1> HIDE DEF W, a, b, c
<1> DEFINE ab == a \o b
<1>2. /\ ab \in Seq(W) /\ Len(ab) = Len(a) + Len(b)
      /\ \A i \in 1 .. Len(a) : ab[i] = a[i]
      /\ \A i \in 1 .. Len(b) : ab[Len(a) + i] = b[i]
  <2>1. a \in Seq(W) /\ b \in Seq(W)
    BY <1>1
  <2>2. QED BY <2>1, Behind
<1> HIDE DEF ab
<1>3. Len(ab) = 3 /\ ab[1] = x /\ ab[2] = y /\ ab[2 + 1] = z
  BY <1>1, <1>2
<1>4. \A i \in 1 .. Len(ab) : ab[i] = c[i]
  <2>1. \A i \in 1 .. 3 : i = 1 \/ i = 2 \/ i = 3
    OBVIOUS
  <2>2. QED BY <1>1, <1>3, <2>1
<1>5. ab = c
  <2>1. ab \in Seq(W) /\ c \in Seq(W) /\ Len(ab) = Len(c)
    BY <1>1, <1>2, <1>3
  <2>2. QED BY <1>4, <2>1, SameSeq
<1>6. QED BY <1>5 DEF a, b, c, ab

(* What is between two places of a sequence.                               *)
LEMMA PartOf ==
  ASSUME NEW W, NEW s \in Seq(W), NEW a \in Nat, NEW b \in Nat, a <= b, b <= Len(s)
  PROVE  /\ SubSeq(s, a + 1, b) \in Seq(W) /\ Len(SubSeq(s, a + 1, b)) = b - a
         /\ \A i \in 1 .. b - a : SubSeq(s, a + 1, b)[i] = s[a + i]
<1> DEFINE p == SubSeq(s, a + 1, b)
<1>1. p \in Seq(W) /\ Len(p) = b - a
  OBVIOUS
<1>2. ASSUME NEW i \in 1 .. b - a
      PROVE  p[i] = s[a + i]
  <2>1. p[i] = s[(a + 1) + i - 1]
    OBVIOUS
  <2>2. (a + 1) + i - 1 = a + i
    OBVIOUS
  <2>3. QED BY <2>1, <2>2
<1>3. QED BY <1>1, <1>2

(* The same of sequences of anything.                                      *)
Flattened(flat, n, f) ==
  /\ IsSeq(flat)
  /\ \E start \in [1 .. n + 1 -> Nat] :
       /\ start[1] = 0 /\ Len(flat) = start[n + 1]
       /\ \A i \in 1 .. n :
            /\ Len(f[i]) \in Nat
            /\ start[i + 1] = start[i] + Len(f[i])
            /\ start[i + 1] <= start[n + 1]
            /\ \A j \in 1 .. Len(f[i]) : flat[start[i] + j] = f[i][j]

(* FlattenSeq does this.                                                   *)
LEMMA FlattenAny ==
  ASSUME NEW n \in Nat, NEW f, \A i \in 1 .. n : IsSeq(f[i])
  PROVE  Flattened(FlattenSeq([i \in 1 .. n |-> f[i]]), n, f)
<1> DEFINE W == UNION {{f[i][j] : j \in 1 .. Len(f[i])} : i \in 1 .. n}
           seqs == [i \in 1 .. n |-> f[i]]
<1>1. ASSUME NEW i \in 1 .. n
      PROVE  f[i] \in Seq(W) /\ Len(f[i]) \in Nat
  <2>1. PICK V : f[i] \in Seq(V)
    BY DEF IsSeq
  <2>2. \A j \in 1 .. Len(f[i]) : f[i][j] \in W
    OBVIOUS
  <2> HIDE DEF W
  <2>3. QED BY <2>1, <2>2
<1> HIDE DEF W
<1>2. seqs \in Seq(Seq(W)) /\ Len(seqs) = n /\ \A i \in 1 .. n : seqs[i] = f[i]
  BY <1>1
<1> HIDE DEF seqs
<1>3. FlattenSeq(seqs) \in Seq(W)
  BY <1>2, FlattenFacts
<1>4. PICK start \in [1 .. Len(seqs) + 1 -> Nat] :
        /\ start[1] = 0 /\ Len(FlattenSeq(seqs)) = start[Len(seqs) + 1]
        /\ \A i \in 1 .. Len(seqs) :
             /\ start[i + 1] = start[i] + Len(seqs[i])
             /\ start[i + 1] <= start[Len(seqs) + 1]
             /\ \A j \in 1 .. Len(seqs[i]) : FlattenSeq(seqs)[start[i] + j] = seqs[i][j]
  <2>1. seqs \in Seq(Seq(W))
    BY <1>2
  <2>2. QED BY <2>1, FlattenFacts, Zenon
<1>5. /\ start \in [1 .. n + 1 -> Nat] /\ Len(FlattenSeq(seqs)) = start[n + 1]
      /\ \A i \in 1 .. n :
           /\ Len(f[i]) \in Nat
           /\ start[i + 1] = start[i] + Len(f[i])
           /\ start[i + 1] <= start[n + 1]
           /\ \A j \in 1 .. Len(f[i]) : FlattenSeq(seqs)[start[i] + j] = f[i][j]
  <2>1. start \in [1 .. n + 1 -> Nat] /\ Len(FlattenSeq(seqs)) = start[n + 1]
    BY <1>2, <1>4
  <2>2. SUFFICES ASSUME NEW i \in 1 .. n
                 PROVE  /\ Len(f[i]) \in Nat
                        /\ start[i + 1] = start[i] + Len(f[i])
                        /\ start[i + 1] <= start[n + 1]
                        /\ \A j \in 1 .. Len(f[i]) : FlattenSeq(seqs)[start[i] + j] = f[i][j]
    BY <2>1
  <2>3. i \in 1 .. Len(seqs) /\ seqs[i] = f[i] /\ Len(f[i]) \in Nat
    BY <1>1, <1>2
  <2>4. QED BY <1>2, <1>4, <2>3
<1>6. QED BY <1>3, <1>4, <1>5 DEF IsSeq, seqs, Flattened
=============================================================================
