--------------------------- MODULE RowStreamProofs ---------------------------
(***************************************************************************)
(* What is proved of RowStream, for every schema, record shapes, numbers   *)
(* of records and widths: the file is header, whole records and footer at  *)
(* any word the producer has reached, a reader that polls it is given the  *)
(* records that are complete, in order and once, and where no record       *)
(* writes a slot twice in one object, an object holds what was written.    *)
(***************************************************************************)
EXTENDS RowStream, SequenceLemmas

----------------------------------------------------------------------------
(* Polling a cut file.                                                     *)

(* An object takes the words from `at` to `end`.                           *)
Object(data, at, end) ==
  /\ at \in Nat /\ end \in Nat /\ at + 2 <= end
  /\ data[at + 1][1] = "nyxo" /\ data[at + 2][2] = end - at

(* An object in the data is complete, and polling goes on behind it.       *)
LEMMA EndOfObject ==
  ASSUME NEW data, IsSeq(data), NEW at, NEW end, Object(data, at, end)
  PROVE  CompleteEnd(data, at) = IF end <= Len(data) THEN end ELSE Nowhere
<1>1. PICK W : data \in Seq(W)
  BY DEF IsSeq
<1>2. Len(data) \in Nat
  BY <1>1
<1>3. at \in Nat /\ end \in Nat /\ at + 2 <= end /\ data[at + 1][1] = "nyxo" /\ data[at + 2][2] = end - at
  BY DEF Object
<1>4. at + (end - at) = end /\ ~(end - at < 2)
  BY <1>3
<1>5. QED BY <1>2, <1>3, <1>4 DEF CompleteEnd

(* The polls of PollAll exist: each goes on further behind.                *)
LEMMA PollsExist ==
  ASSUME NEW data, IsSeq(data),
         \A at \in 0 .. Len(data) :
           CompleteEnd(data, at) # Nowhere => CompleteEnd(data, at) \in at + 1 .. Len(data)
  PROVE  \A from \in 0 .. Len(data) :
           PollAll(data, from) = IF CompleteEnd(data, from) = Nowhere THEN << >>
                                 ELSE <<from>> \o PollAll(data, CompleteEnd(data, from))
<1> DEFINE n == Len(data)
           E(at) == CompleteEnd(data, at)
           Polls(g, lo) == g = [at \in lo .. n |-> IF E(at) = Nowhere THEN << >>
                                                   ELSE <<at>> \o g[E(at)]]
           Good == {lo \in 0 .. n : \E g : Polls(g, lo)}
<1>1. n \in Nat
  BY DEF IsSeq
<1>2. \A at \in 0 .. n : E(at) # Nowhere => E(at) \in at + 1 .. n
  OBVIOUS
<1> HIDE DEF n, E
<1>3. n \in Good
  <2> DEFINE g == [at \in n .. n |-> << >>]
  <2>1. E(n) = Nowhere
    BY <1>1, <1>2
  <2>2. g = [at \in n .. n |-> IF E(at) = Nowhere THEN << >> ELSE <<at>> \o g[E(at)]]
    BY <1>1, <2>1
  <2>3. Polls(g, n)
    BY <2>2
  <2> HIDE DEF Polls, g
  <2>4. QED BY <1>1, <2>3
<1>4. ASSUME NEW k \in 1 .. n, k \in Good
      PROVE  k - 1 \in Good
  <2>1. PICK g : Polls(g, k)
    BY <1>4
  <2> DEFINE h == [at \in k - 1 .. n |->
                     IF at = k - 1
                     THEN IF E(at) = Nowhere THEN << >> ELSE <<at>> \o g[E(at)]
                     ELSE g[at]]
  <2>2. \A at \in k - 1 .. n : h[at] = IF E(at) = Nowhere THEN << >> ELSE <<at>> \o h[E(at)]
    <3> SUFFICES ASSUME NEW at \in k - 1 .. n
                 PROVE  h[at] = IF E(at) = Nowhere THEN << >> ELSE <<at>> \o h[E(at)]
      OBVIOUS
    <3>1. E(at) # Nowhere => E(at) \in k .. n /\ E(at) # k - 1 /\ E(at) \in k - 1 .. n
      BY <1>1, <1>2
    <3>2. E(at) # Nowhere => h[E(at)] = g[E(at)]
      BY <3>1
    <3>3. CASE at = k - 1
      <4>1. h[at] = IF E(at) = Nowhere THEN << >> ELSE <<at>> \o g[E(at)]
        BY <3>3
      <4> HIDE DEF h
      <4>2. QED BY <3>2, <4>1
    <3>4. CASE at # k - 1
      <4>1. at \in k .. n
        BY <1>1, <3>4
      <4>2. h[at] = g[at]
        BY <3>4
      <4>3. g[at] = IF E(at) = Nowhere THEN << >> ELSE <<at>> \o g[E(at)]
        BY <2>1, <4>1
      <4> HIDE DEF h
      <4>4. QED BY <3>2, <4>2, <4>3
    <3>5. QED BY <3>3, <3>4
  <2>3. h = [at \in k - 1 .. n |-> h[at]]
    OBVIOUS
  <2> HIDE DEF h
  <2>4. Polls(h, k - 1)
    BY <2>2, <2>3
  <2> HIDE DEF Polls
  <2>5. k - 1 \in 0 .. n
    BY <1>1
  <2>6. QED BY <2>4, <2>5
<1>5. 0 \in Good
  <2>2. \A k \in 0 + 1 .. n : k \in Good => k - 1 \in Good
    BY <1>4
  <2> HIDE DEF Good
  <2>1. 0 \in Int /\ n \in Int /\ (0 <= n => n \in Good)
    BY <1>1, <1>3
  <2>3. 0 .. n \subseteq Good
    BY <2>1, <2>2, Downward, Zenon
  <2>4. QED BY <1>1, <2>3
<1> DEFINE polls == CHOOSE g : Polls(g, 0)
<1>6. Polls(polls, 0)
  BY <1>5
<1>7. ASSUME NEW from \in 0 .. n
      PROVE  PollAll(data, from) = polls[from]
  <2>1. ~(from > n)
    BY <1>1
  <2>2. QED BY <2>1 DEF PollAll, n, E
<1> HIDE DEF polls
<1>8. \A at \in 0 .. n : polls[at] = IF E(at) = Nowhere THEN << >> ELSE <<at>> \o polls[E(at)]
  BY <1>6
<1>9. ASSUME NEW from \in 0 .. n
      PROVE  PollAll(data, from) = IF E(from) = Nowhere THEN << >>
                                   ELSE <<from>> \o PollAll(data, E(from))
  <2>1. E(from) # Nowhere => E(from) \in 0 .. n
    BY <1>1, <1>2
  <2>2. QED BY <1>7, <1>8, <2>1
<1>10. QED BY <1>9 DEF n, E

(* Behind an object's magic comes its length.                              *)
Lengths(data) ==
  \A i \in 1 .. Len(data) - 1 : data[i][1] = "nyxo" => data[i + 1][2] \in Int

(* Polling takes one complete object after the other.                      *)
LEMMA PollsGoOn ==
  ASSUME NEW data, IsSeq(data), Lengths(data)
  PROVE  \A from \in 0 .. Len(data) :
           PollAll(data, from) = IF CompleteEnd(data, from) = Nowhere THEN << >>
                                 ELSE <<from>> \o PollAll(data, CompleteEnd(data, from))
<1>1. Len(data) \in Nat
  BY DEF IsSeq
<1>2. ASSUME NEW at \in 0 .. Len(data), CompleteEnd(data, at) # Nowhere
      PROVE  CompleteEnd(data, at) \in at + 1 .. Len(data)
  <2>1. /\ ~(at + 2 > Len(data)) /\ data[at + 1][1] = "nyxo" /\ ~(data[at + 2][2] < 2)
        /\ ~(at + data[at + 2][2] > Len(data))
        /\ CompleteEnd(data, at) = at + data[at + 2][2]
    BY <1>2 DEF CompleteEnd
  <2>2. at + 1 \in 1 .. Len(data) - 1 /\ (at + 1) + 1 = at + 2
    BY <1>1, <2>1
  <2>3. data[at + 2][2] \in Int
    BY <2>1, <2>2 DEF Lengths
  <2>4. QED BY <1>1, <2>1, <2>3
<1>3. QED BY <1>2, PollsExist

(* The positions from the k-th edge to the one before the m-th.            *)
Positions(edge, k, m) == [i \in 1 .. m - k |-> edge[k + i - 1]]

(* Where objects lie one behind the other and the data ends, or goes on    *)
(* with something else, polling returns their positions.                   *)
LEMMA PollsObjects ==
  ASSUME NEW data, IsSeq(data), Lengths(data), NEW m \in Nat, NEW edge \in [0 .. m -> Nat],
         \A k \in 1 .. m : Object(data, edge[k - 1], edge[k]),
         edge[m] <= Len(data), CompleteEnd(data, edge[m]) = Nowhere
  PROVE  \A k \in 0 .. m : PollAll(data, edge[k]) = Positions(edge, k, m)
<1> DEFINE Right(k) == edge[k] <= Len(data) /\ PollAll(data, edge[k]) = [i \in 1 .. m - k |-> edge[k + i - 1]]
           S == {k \in 0 .. m : Right(k)}
<1>1. Len(data) \in Nat
  BY DEF IsSeq
<1>2. m \in S
  <2>1. edge[m] \in 0 .. Len(data)
    BY <1>1
  <2>2. PollAll(data, edge[m]) = << >>
    BY <2>1, PollsGoOn
  <2>3. [i \in 1 .. m - m |-> edge[m + i - 1]] = << >>
    OBVIOUS
  <2>4. QED BY <2>1, <2>2, <2>3
<1>3. ASSUME NEW k \in 1 .. m, k \in S
      PROVE  k - 1 \in S
  <2>1. k \in 0 .. m /\ k - 1 \in 0 .. m /\ edge[k] \in Nat /\ edge[k - 1] \in Nat
    OBVIOUS
  <2>2. Object(data, edge[k - 1], edge[k]) /\ edge[k] <= Len(data)
    BY <1>3
  <2>3. edge[k - 1] \in 0 .. Len(data)
    BY <1>1, <2>1, <2>2 DEF Object
  <2>4. CompleteEnd(data, edge[k - 1]) = edge[k] /\ edge[k] # Nowhere
    BY <2>1, <2>2, EndOfObject DEF Nowhere
  <2>5. PollAll(data, edge[k - 1]) = <<edge[k - 1]>> \o PollAll(data, edge[k])
    BY <2>3, <2>4, PollsGoOn
  <2>6. PollAll(data, edge[k]) = [i \in 1 .. m - k |-> edge[k + i - 1]]
    BY <1>3
  <2> DEFINE rest == [i \in 1 .. m - k |-> edge[k + i - 1]]
             all == [i \in 1 .. m - (k - 1) |-> edge[(k - 1) + i - 1]]
  <2>7. rest \in Seq(Nat) /\ Len(rest) = m - k
    <3>1. \A i \in 1 .. m - k : k + i - 1 \in 0 .. m
      OBVIOUS
    <3>2. m - k \in Nat
      OBVIOUS
    <3>3. QED BY <3>1, <3>2
  <2>8. all \in Seq(Nat) /\ Len(all) = (m - k) + 1
    <3>1. \A i \in 1 .. m - (k - 1) : (k - 1) + i - 1 \in 0 .. m
      OBVIOUS
    <3>2. m - (k - 1) \in Nat /\ m - (k - 1) = (m - k) + 1
      OBVIOUS
    <3>3. QED BY <3>1, <3>2
  <2>9. all[1] = edge[k - 1]
    OBVIOUS
  <2>10. \A i \in 1 .. m - k : all[i + 1] = rest[i]
    <3> SUFFICES ASSUME NEW i \in 1 .. m - k
                 PROVE  all[i + 1] = rest[i]
      OBVIOUS
    <3>1. i + 1 \in 1 .. m - (k - 1) /\ (k - 1) + (i + 1) - 1 = k + i - 1
      OBVIOUS
    <3>2. QED BY <3>1
  <2> HIDE DEF all, rest
  <2>11. <<edge[k - 1]>> \o rest = all
    <3> DEFINE both == <<edge[k - 1]>> \o rest
    <3>1. both \in Seq(Nat) /\ Len(both) = (m - k) + 1
      <4>1. <<edge[k - 1]>> \in Seq(Nat) /\ Len(<<edge[k - 1]>>) = 1
        BY <2>1
      <4>2. both \in Seq(Nat) /\ Len(both) = Len(<<edge[k - 1]>>) + Len(rest)
        BY SMTT(60), <2>7, <4>1
      <4>3. QED BY <2>7, <4>1, <4>2
    <3>2. ASSUME NEW i \in 1 .. (m - k) + 1
          PROVE  both[i] = all[i]
      <4>1. CASE i = 1
        BY <2>1, <2>7, <2>9, <4>1
      <4>2. CASE i # 1
        <5>1. i - 1 \in 1 .. m - k /\ (i - 1) + 1 = i
          BY <4>2
        <5>2. both[i] = rest[i - 1]
          BY <2>1, <2>7, <5>1
        <5>3. QED BY <2>10, <5>1, <5>2
      <4>3. QED BY <4>1, <4>2
    <3> HIDE DEF both
    <3>3. both = all
      BY <2>8, <3>1, <3>2, SameSeq
    <3>4. QED BY <3>3 DEF both
  <2>12. PollAll(data, edge[k - 1]) = all
    BY <2>5, <2>6, <2>11 DEF rest
  <2>13. QED BY <2>1, <2>3, <2>12 DEF all
<1>4. 0 .. m \subseteq S
  <2> HIDE DEF S
  <2>1. \A k \in 0 + 1 .. m : k \in S => k - 1 \in S
    BY <1>3
  <2>2. 0 \in Int /\ m \in Int /\ (0 <= m => m \in S)
    BY <1>2
  <2>3. QED BY <2>1, <2>2, Downward, Zenon
<1>5. QED BY <1>4 DEF Positions

(* Nothing is polled behind the end of the data.                           *)
LEMMA NoPolls ==
  ASSUME NEW data, IsSeq(data), Lengths(data), NEW from \in Nat,
         from > Len(data) \/ CompleteEnd(data, from) = Nowhere
  PROVE  PollAll(data, from) = << >>
<1>1. Len(data) \in Nat
  BY DEF IsSeq
<1>2. CASE from > Len(data)
  BY <1>2 DEF PollAll
<1>3. CASE ~(from > Len(data))
  <2>1. from \in 0 .. Len(data)
    BY <1>1, <1>3
  <2>2. QED BY <1>3, <2>1, PollsGoOn
<1>4. QED BY <1>2, <1>3

----------------------------------------------------------------------------
(* The writer's buffer while a record is built.                            *)

(* Behind an object's magic is its length, and the footer's magic is not   *)
(* in a data sector.                                                       *)
Buffer(b) ==
  /\ IsSeq(b)
  /\ \A i \in 1 .. Len(b) :
       /\ b[i][1] # "foot"
       /\ b[i][1] = "nyxo" => i + 1 <= Len(b) /\ b[i + 1][1] = "len" /\ b[i + 1][2] \in Nat

(* An object was begun at this place.                                      *)
Framed(b, start) ==
  /\ start \in Nat /\ start + HeadWords <= Len(b)
  /\ b[start + 1][1] = "nyxo" /\ b[start + 2][1] = "len" /\ b[start + 3][1] = "head"

Masks == [0 .. MaskBytes - 1 -> [bits : SUBSET Int, more : BOOLEAN]]
Frames == [start : Nat, mask : Masks, table : Seq(Int), last : Int, sort : BOOLEAN,
           places : Seq(Slots \X Nat)]

(* A writer with `depth` objects open, of which the first lies behind what *)
(* was in the buffer before and the others in it.                          *)
Building(u, base, depth) ==
  /\ u = [buf |-> u.buf, frames |-> u.frames, offsets |-> u.offsets]
  /\ u.frames \in Seq(Frames) /\ Len(u.frames) = depth
  /\ Buffer(u.buf) /\ Len(base) + HeadWords <= Len(u.buf)
  /\ \A i \in 1 .. Len(base) : u.buf[i] = base[i]
  /\ \A k \in 1 .. depth : Framed(u.buf, u.frames[k].start)
  /\ u.frames[1].start = Len(base)
  /\ \A k \in 2 .. depth : Len(base) + HeadWords <= u.frames[k].start

(* A record takes the words behind what was in the buffer before.          *)
Built(u, base) ==
  /\ u = [buf |-> u.buf, frames |-> << >>, offsets |-> u.offsets]
  /\ Buffer(u.buf)
  /\ \A i \in 1 .. Len(base) : u.buf[i] = base[i]
  /\ Len(base) + HeadWords <= Len(u.buf)
  /\ u.buf[Len(base) + 1][1] = "nyxo"
  /\ u.buf[Len(base) + 2][2] = Len(u.buf) - Len(base)

(* An object's head takes at least four words.                             *)
LEMMA HeadIsLong == HeadWords \in Nat /\ HeadWords >= 4 /\ MaskBytes \in Nat \ {0}
<1>1. Keys \in Nat /\ Keys >= 1 /\ MaskBits \in Nat /\ MaskBits >= 1
  BY RowWriterAssumption
<1>2. (Keys + MaskBits - 1) \div MaskBits >= 1 /\ (Keys + MaskBits - 1) \div MaskBits \in Nat
  <2> DEFINE q == (Keys + MaskBits - 1) \div MaskBits
             r == (Keys + MaskBits - 1) % MaskBits
  <2>1. q \in Int /\ r \in 0 .. MaskBits - 1 /\ Keys + MaskBits - 1 = MaskBits * q + r
    BY <1>1
  <2>2. ASSUME q < 1 PROVE FALSE
    <3>1. MaskBits * q <= 0
      BY <1>1, <2>1, <2>2
    <3> HIDE DEF q, r
    <3>2. QED BY <1>1, <2>1, <3>1
  <2>3. q >= 1
    BY <2>1, <2>2
  <2>4. QED BY <2>1, <2>3
<1>3. MaskBytes \in Nat /\ MaskBytes >= 1
  BY <1>2 DEF MaskBytes
<1> DEFINE all == 8 + MaskBytes + 2 * Keys + 7
<1>4. all \in Nat /\ all >= 18
  BY <1>1, <1>3
<1> HIDE DEF all
<1>5. all \div 8 \in Nat /\ all \div 8 >= 2
  BY <1>4
<1>6. HeadWords = 2 * (all \div 8)
  BY DEF HeadWords, all
<1>7. QED BY <1>3, <1>5, <1>6

(* What is appended to a buffer leaves what is there.                      *)
LEMMA BufferGrows ==
  ASSUME NEW a, NEW b, Buffer(a), Buffer(b)
  PROVE  /\ Buffer(a \o b) /\ Len(a \o b) = Len(a) + Len(b)
         /\ Len(a) \in Nat /\ Len(b) \in Nat
         /\ \A i \in 1 .. Len(a) : (a \o b)[i] = a[i]
         /\ \A i \in 1 .. Len(b) : (a \o b)[Len(a) + i] = b[i]
<1>1. PICK V : a \in Seq(V)
  BY DEF Buffer, IsSeq
<1>2. PICK W : b \in Seq(W)
  BY DEF Buffer, IsSeq
<1>3. a \in Seq(V \cup W) /\ b \in Seq(V \cup W)
  BY <1>1, <1>2
<1>4. Len(a) \in Nat /\ Len(b) \in Nat
  BY <1>1, <1>2
<1> DEFINE c == a \o b
<1>5. /\ c \in Seq(V \cup W) /\ Len(c) = Len(a) + Len(b)
      /\ \A i \in 1 .. Len(a) : c[i] = a[i]
      /\ \A i \in 1 .. Len(b) : c[Len(a) + i] = b[i]
  BY <1>3, Behind
<1> HIDE DEF c
<1>6. ASSUME NEW i \in 1 .. Len(c)
      PROVE  /\ c[i][1] # "foot"
             /\ c[i][1] = "nyxo" => i + 1 <= Len(c) /\ c[i + 1][1] = "len" /\ c[i + 1][2] \in Nat
  <2>1. CASE i <= Len(a)
    <3>1. i \in 1 .. Len(a)
      BY <1>4, <2>1
    <3>2. /\ a[i][1] # "foot"
          /\ a[i][1] = "nyxo" => i + 1 <= Len(a) /\ a[i + 1][1] = "len" /\ a[i + 1][2] \in Nat
      BY <3>1 DEF Buffer
    <3>3. c[i] = a[i] /\ (i + 1 <= Len(a) => c[i + 1] = a[i + 1] /\ i + 1 <= Len(c))
      BY <1>4, <1>5, <3>1
    <3>4. QED BY <3>2, <3>3
  <2>2. CASE ~(i <= Len(a))
    <3> DEFINE j == i - Len(a)
    <3>1. j \in 1 .. Len(b) /\ i = Len(a) + j /\ i + 1 = Len(a) + (j + 1)
      BY <1>4, <1>5, <2>2
    <3> HIDE DEF j
    <3>2. /\ b[j][1] # "foot"
          /\ b[j][1] = "nyxo" => j + 1 <= Len(b) /\ b[j + 1][1] = "len" /\ b[j + 1][2] \in Nat
      BY <3>1 DEF Buffer
    <3>3. c[i] = b[j] /\ (j + 1 <= Len(b) => c[i + 1] = b[j + 1] /\ i + 1 <= Len(c))
      BY <1>4, <1>5, <3>1
    <3>4. QED BY <3>2, <3>3
  <2>3. QED BY <2>1, <2>2
<1>7. Buffer(c)
  BY <1>5, <1>6 DEF Buffer, IsSeq
<1>8. QED BY <1>4, <1>5, <1>7 DEF c

(* What end_object writes over: the length and the head of an object.      *)
Rewritten(b, start, x, y) == [b EXCEPT ![start + 2] = <<"len", x>>, ![start + 3] = <<"head", y>>]

(* It leaves a buffer, and the kinds of its words.                         *)
LEMMA HeadRewritten ==
  ASSUME NEW b, Buffer(b), NEW start, Framed(b, start), NEW x \in Nat, NEW y
  PROVE  LET c == Rewritten(b, start, x, y) IN
         /\ Buffer(c) /\ Len(c) = Len(b)
         /\ c[start + 2] = <<"len", x>> /\ c[start + 3] = <<"head", y>>
         /\ \A i \in 1 .. Len(b) : /\ c[i][1] = b[i][1]
                                   /\ i \notin {start + 2, start + 3} => c[i] = b[i]
<1> DEFINE c == [b EXCEPT ![start + 2] = <<"len", x>>, ![start + 3] = <<"head", y>>]
<1>1. PICK W : b \in Seq(W)
  BY DEF Buffer, IsSeq
<1> DEFINE V == W \cup {<<"len", x>>, <<"head", y>>}
<1>2. Len(b) \in Nat /\ b \in Seq(V)
  BY <1>1
<1>3. start \in Nat /\ start + 2 \in 1 .. Len(b) /\ start + 3 \in 1 .. Len(b)
  BY <1>2, HeadIsLong DEF Framed
<1>4. c \in Seq(V) /\ Len(c) = Len(b)
  <2> DEFINE d == [b EXCEPT ![start + 2] = <<"len", x>>]
  <2>1. <<"len", x>> \in V /\ <<"head", y>> \in V
    OBVIOUS
  <2> HIDE DEF V
  <2>2. d \in Seq(V) /\ Len(d) = Len(b)
    BY <1>2, <2>1, OneChanged
  <2>3. c = [d EXCEPT ![start + 3] = <<"head", y>>]
    OBVIOUS
  <2> HIDE DEF d
  <2>4. [d EXCEPT ![start + 3] = <<"head", y>>] \in Seq(V)
        /\ Len([d EXCEPT ![start + 3] = <<"head", y>>]) = Len(d)
    BY <2>1, <2>2, OneChanged
  <2>5. QED BY <2>2, <2>3, <2>4, Zenon
<1>5. c[start + 2] = <<"len", x>> /\ c[start + 3] = <<"head", y>>
  BY <1>2, <1>3
<1>6. \A i \in 1 .. Len(b) : i \notin {start + 2, start + 3} => c[i] = b[i]
  BY <1>2, <1>3
<1>7. \A i \in 1 .. Len(b) : c[i][1] = b[i][1]
  BY <1>5, <1>6 DEF Framed
<1>8. ASSUME NEW i \in 1 .. Len(c)
      PROVE  /\ c[i][1] # "foot"
             /\ c[i][1] = "nyxo" => i + 1 <= Len(c) /\ c[i + 1][1] = "len" /\ c[i + 1][2] \in Nat
  <2>1. /\ b[i][1] # "foot"
        /\ b[i][1] = "nyxo" => i + 1 <= Len(b) /\ b[i + 1][1] = "len" /\ b[i + 1][2] \in Nat
    BY <1>4 DEF Buffer
  <2>2. i + 1 <= Len(b) => i + 1 \in 1 .. Len(b)
    BY <1>2
  <2>3. ASSUME b[i][1] = "nyxo"
        PROVE  i + 1 <= Len(c) /\ c[i + 1][1] = "len" /\ c[i + 1][2] \in Nat
    <3>1. i + 1 \in 1 .. Len(b) /\ b[i + 1][1] = "len" /\ b[i + 1][2] \in Nat
      BY <2>1, <2>2, <2>3
    <3>2. i + 1 # start + 3
      BY <3>1 DEF Framed
    <3>3. c[i + 1][1] = "len"
      BY <1>7, <3>1
    <3>4. c[i + 1][2] \in Nat
      BY <1>5, <1>6, <3>1, <3>2
    <3>5. QED BY <1>4, <3>1, <3>3, <3>4
  <2>4. QED BY <1>4, <1>7, <2>1, <2>3
<1>9. Buffer(c)
  BY <1>4, <1>8 DEF Buffer, IsSeq
<1>10. Rewritten(b, start, x, y) = c
  BY DEF Rewritten
<1> HIDE DEF c
<1>11. QED BY <1>4, <1>5, <1>6, <1>7, <1>9, <1>10

(* What a value takes.                                                     *)
LEMMA ValueIsWords ==
  ASSUME NEW s \in Slots, NEW depth
  PROVE  WordsOf(Value(s, depth)) \in Nat /\ WordsOf(Value(s, depth)) >= 2
<1> DEFINE v == Value(s, depth)
<1>1. Sizes[s] \in {"scalar", "text", "list"} \X Nat \X Seq(Nat)
  BY RowStreamAssumption
<1>2. v.kind \in {"scalar", "text", "list"} /\ v.size \in Nat
  BY <1>1 DEF Value
<1> HIDE DEF v
<1>3. CASE v.kind = "scalar"
  BY <1>3 DEF WordsOf, v
<1>4. CASE v.kind = "text"
  <2>1. WordsOf(v) = 2 * ((4 + v.size + 7) \div 8)
    BY <1>4 DEF WordsOf
  <2>2. \A k \in Nat : (4 + k + 7) \div 8 \in Nat /\ (4 + k + 7) \div 8 >= 1
    OBVIOUS
  <2>3. (4 + v.size + 7) \div 8 \in Nat /\ (4 + v.size + 7) \div 8 >= 1
    BY <1>2, <2>2
  <2>4. QED BY <2>1, <2>3 DEF v
<1>5. CASE v.kind = "list"
  BY <1>2, <1>5 DEF WordsOf, v
<1>6. QED BY <1>2, <1>3, <1>4, <1>5

(* Padding.                                                                *)
LEMMA FillerIsWords ==
  ASSUME NEW n \in Nat
  PROVE  Filler(n) \in Seq({<<"pad", 0>>}) /\ Len(Filler(n)) = n
BY DEF Filler

(* The words of a value behind its first.                                  *)
LEMMA MoreIsWords ==
  ASSUME NEW v, WordsOf(v) - 1 \in Nat
  PROVE  /\ MoreOf(v) \in Seq({<<"data", v.says[i + 1]>> : i \in 1 .. WordsOf(v) - 1})
         /\ Len(MoreOf(v)) = WordsOf(v) - 1
<1> DEFINE n == WordsOf(v) - 1
           D(i) == <<"data", v.says[i + 1]>>
<1>1. MoreOf(v) = [i \in 1 .. n |-> D(i)]
  BY DEF MoreOf
<1>2. n \in Nat
  OBVIOUS
<1> HIDE DEF n, D
<1>3. [i \in 1 .. n |-> D(i)] \in Seq({D(i) : i \in 1 .. n}) /\ Len([i \in 1 .. n |-> D(i)]) = n
  BY <1>2
<1>4. MoreOf(v) \in Seq({D(i) : i \in 1 .. n}) /\ Len(MoreOf(v)) = n
  BY <1>1, <1>3
<1>5. QED BY <1>4 DEF n, D

(* What is known of an object that has just been begun.                    *)
NewFrame(at) == [start |-> at, mask |-> NewMask, table |-> << >>, last |-> -1, sort |-> FALSE,
                 places |-> << >>]

(* begin_object puts a head behind the buffer.                             *)
LEMMA Begun ==
  ASSUME NEW u, u = [buf |-> u.buf, frames |-> u.frames, offsets |-> u.offsets], Buffer(u.buf),
         u.frames \in Seq(Frames)
  PROVE  LET v == BeginObject(u) IN
         /\ v = [buf |-> v.buf, frames |-> v.frames, offsets |-> v.offsets]
         /\ Buffer(v.buf) /\ Len(v.buf) = Len(u.buf) + HeadWords
         /\ Len(u.buf) \in Nat
         /\ \A i \in 1 .. Len(u.buf) : v.buf[i] = u.buf[i]
         /\ Framed(v.buf, Len(u.buf))
         /\ v.frames \in Seq(Frames) /\ Len(v.frames) = Len(u.frames) + 1
         /\ \A k \in 1 .. Len(u.frames) : v.frames[k] = u.frames[k]
         /\ v.frames[Len(u.frames) + 1].start = Len(u.buf)
         /\ v.frames[Len(u.frames) + 1] = NewFrame(Len(u.buf)) /\ v.buf[Len(u.buf) + 2] = <<"len", 0>>
<1> DEFINE v == BeginObject(u)
           front == << <<"nyxo", 0>>, <<"len", 0>>, <<"head", 0>> >>
           head == front \o Filler(HeadWords - 3)
           new == NewFrame(Len(u.buf))
           W == {<<"nyxo", 0>>, <<"len", 0>>, <<"head", 0>>, <<"pad", 0>>}
<1>1. HeadWords \in Nat /\ HeadWords - 3 \in Nat /\ HeadWords - 3 >= 1
  BY HeadIsLong
<1>2. Filler(HeadWords - 3) \in Seq(W) /\ Len(Filler(HeadWords - 3)) = HeadWords - 3
  BY <1>1, FillerIsWords
<1>3. front \in Seq(W) /\ Len(front) = 3
  OBVIOUS
<1>4. /\ head \in Seq(W) /\ Len(head) = HeadWords
      /\ head[1] = <<"nyxo", 0>> /\ head[2] = <<"len", 0>> /\ head[3] = <<"head", 0>>
      /\ \A i \in 4 .. HeadWords : head[i] = <<"pad", 0>>
  <2>1. /\ head \in Seq(W) /\ Len(head) = 3 + (HeadWords - 3)
        /\ \A i \in 1 .. 3 : head[i] = front[i]
        /\ \A i \in 1 .. HeadWords - 3 : head[3 + i] = Filler(HeadWords - 3)[i]
    <3> DEFINE pad == Filler(HeadWords - 3)
    <3>1. /\ head \in Seq(W) /\ Len(head) = Len(front) + Len(pad)
          /\ \A i \in 1 .. Len(front) : head[i] = front[i]
          /\ \A i \in 1 .. Len(pad) : head[Len(front) + i] = pad[i]
      <4>1. front \in Seq(W) /\ pad \in Seq(W)
        BY <1>2, <1>3
      <4> HIDE DEF front, W, pad
      <4>2. \A a \in Seq(W), b \in Seq(W) :
              /\ a \o b \in Seq(W) /\ Len(a \o b) = Len(a) + Len(b)
              /\ \A i \in 1 .. Len(a) : (a \o b)[i] = a[i]
              /\ \A i \in 1 .. Len(b) : (a \o b)[Len(a) + i] = b[i]
        BY Behind
      <4>3. head = front \o pad
        BY DEF pad
      <4> HIDE DEF head
      <4>4. QED BY <4>1, <4>2, <4>3
    <3> HIDE DEF head, front, pad, W
    <3>2. QED BY <1>2, <1>3, <3>1 DEF pad
  <2>2. ASSUME NEW i \in 4 .. HeadWords
        PROVE  head[i] = <<"pad", 0>>
    <3>1. i - 3 \in 1 .. HeadWords - 3 /\ 3 + (i - 3) = i
      BY <1>1
    <3>2. Filler(HeadWords - 3)[i - 3] = <<"pad", 0>>
      BY <1>1, <3>1 DEF Filler
    <3> HIDE DEF head
    <3>3. QED BY <2>1, <3>1, <3>2
  <2> HIDE DEF head
  <2>3. QED BY <1>1, <2>1, <2>2
<1> HIDE DEF head, front
<1>5. Buffer(head)
  <2>1. ASSUME NEW i \in 1 .. Len(head)
        PROVE  /\ head[i][1] # "foot"
               /\ head[i][1] = "nyxo" => i + 1 <= Len(head) /\ head[i + 1][1] = "len" /\ head[i + 1][2] \in Nat
    BY <1>1, <1>4
  <2>2. QED BY <1>4, <2>1 DEF Buffer, IsSeq
<1>6. v.buf = u.buf \o head /\ v.frames = Append(u.frames, new)
      /\ v = [buf |-> v.buf, frames |-> v.frames, offsets |-> v.offsets]
  <2>1. v.buf = u.buf \o front \o Filler(HeadWords - 3) /\ v.frames = Append(u.frames, new)
    BY DEF BeginObject, front, NewFrame
  <2>2. v = [buf |-> v.buf, frames |-> v.frames, offsets |-> v.offsets]
    BY DEF BeginObject
  <2>3. u.buf \o front \o Filler(HeadWords - 3) = u.buf \o head
    <3>1. PICK V : u.buf \in Seq(V)
      BY DEF Buffer, IsSeq
    <3>2. u.buf \in Seq(V \cup W) /\ front \in Seq(V \cup W) /\ Filler(HeadWords - 3) \in Seq(V \cup W)
      BY <1>2, <1>3, <3>1
    <3>3. \A a, b, c \in Seq(V \cup W) : (a \o b) \o c = a \o (b \o c)
      OBVIOUS
    <3>4. QED BY <3>2, <3>3 DEF head
  <2>4. QED BY <2>1, <2>2, <2>3
<1> HIDE DEF v
<1>7. /\ Buffer(v.buf) /\ Len(v.buf) = Len(u.buf) + HeadWords /\ Len(u.buf) \in Nat
      /\ \A i \in 1 .. Len(u.buf) : v.buf[i] = u.buf[i]
      /\ \A i \in 1 .. HeadWords : v.buf[Len(u.buf) + i] = head[i]
  <2>1. /\ Buffer(u.buf \o head) /\ Len(u.buf \o head) = Len(u.buf) + Len(head) /\ Len(u.buf) \in Nat
        /\ \A i \in 1 .. Len(u.buf) : (u.buf \o head)[i] = u.buf[i]
        /\ \A i \in 1 .. Len(head) : (u.buf \o head)[Len(u.buf) + i] = head[i]
    BY <1>5, BufferGrows
  <2>2. v.buf = u.buf \o head /\ Len(head) = HeadWords
    BY <1>4, <1>6
  <2> HIDE DEF v
  <2>3. QED BY <2>1, <2>2
<1>8. Framed(v.buf, Len(u.buf)) /\ v.buf[Len(u.buf) + 2] = <<"len", 0>>
  <2>1. 1 \in 1 .. HeadWords /\ 2 \in 1 .. HeadWords /\ 3 \in 1 .. HeadWords
    BY <1>1
  <2>2. v.buf[Len(u.buf) + 1] = head[1] /\ v.buf[Len(u.buf) + 2] = head[2] /\ v.buf[Len(u.buf) + 3] = head[3]
    BY <1>7, <2>1
  <2>3. QED BY <1>1, <1>4, <1>7, <2>2 DEF Framed
<1>9. new \in Frames /\ new.start = Len(u.buf)
  <2>1. NewMask \in Masks
    BY HeadIsLong DEF NewMask, Masks
  <2>2. QED BY <1>7, <2>1 DEF Frames, NewFrame
<1> HIDE DEF new
<1>10. /\ v.frames \in Seq(Frames) /\ Len(v.frames) = Len(u.frames) + 1
       /\ \A k \in 1 .. Len(u.frames) : v.frames[k] = u.frames[k]
       /\ v.frames[Len(u.frames) + 1] = new
  BY <1>6, <1>9
<1>11. QED BY <1>6, <1>7, <1>8, <1>9, <1>10 DEF v, new

(* The parts of a writer that the calls change.                            *)
LEMMA WriterParts ==
  ASSUME NEW B, NEW F, NEW O, NEW u, u = [buf |-> B, frames |-> F, offsets |-> O], NEW x, NEW y,
         NEW p, NEW q, NEW a, NEW b
  PROVE  /\ u.buf = B /\ u.frames = F /\ u.offsets = O
         /\ [u EXCEPT !.frames = x, !.buf = y] = [buf |-> y, frames |-> x, offsets |-> O]
         /\ [u EXCEPT !.frames = x, !.buf[p] = a, !.buf[q] = b]
              = [buf |-> [B EXCEPT ![p] = a, ![q] = b], frames |-> x, offsets |-> O]
<1>1. u.buf = B /\ u.frames = F /\ u.offsets = O
  OBVIOUS
<1> DEFINE v == [u EXCEPT !.frames = x]
           c == [v EXCEPT !.buf[p] = a]
<1>3. v = [buf |-> B, frames |-> x, offsets |-> O]
  OBVIOUS
<1>2. [u EXCEPT !.frames = x, !.buf = y] = [buf |-> y, frames |-> x, offsets |-> O]
  <2>1. [u EXCEPT !.frames = x, !.buf = y] = [v EXCEPT !.buf = y]
    OBVIOUS
  <2> HIDE DEF v
  <2>2. QED BY <1>3, <2>1
<1> HIDE DEF v
<1>4. c = [buf |-> [B EXCEPT ![p] = a], frames |-> x, offsets |-> O]
  BY <1>3
<1> HIDE DEF c
<1>5. [c EXCEPT !.buf[q] = b] = [buf |-> [[B EXCEPT ![p] = a] EXCEPT ![q] = b], frames |-> x, offsets |-> O]
  BY <1>4
<1>6. [u EXCEPT !.frames = x, !.buf[p] = a, !.buf[q] = b] = [c EXCEPT !.buf[q] = b]
  BY DEF c, v
<1>7. [[B EXCEPT ![p] = a] EXCEPT ![q] = b] = [B EXCEPT ![p] = a, ![q] = b]
  OBVIOUS
<1>8. QED BY <1>1, <1>2, <1>5, <1>6, <1>7

(* A written slot leaves its frame where it was begun.                     *)
LEMMA Marked ==
  ASSUME NEW u, u.frames \in Seq(Frames), u.frames # << >>, Len(u.buf) \in Nat, NEW s \in Slots
  PROVE  LET f == Last(u.frames)
             g == MarkSlot(u, s)
             b == s \div MaskBits
         IN
         /\ f \in Frames /\ g \in Frames /\ g.start = f.start
         /\ g.mask = [f.mask EXCEPT ![b] = [f.mask[b] EXCEPT !.bits = @ \cup {s % MaskBits}]]
         /\ g.table = Append(f.table, (Len(u.buf) - f.start) % OffMod)
         /\ g.last = s /\ g.sort = (f.sort \/ s < f.last)
         /\ g.places = Append(f.places, <<s, Len(u.buf)>>)
<1> DEFINE f == Last(u.frames)
           b == s \div MaskBits
           rel == (Len(u.buf) - f.start) % OffMod
           cell == [f.mask[b] EXCEPT !.bits = @ \cup {s % MaskBits}]
           mask == [f.mask EXCEPT ![b] = cell]
<1>1. f \in Frames
  BY DEF Last
<1>2. s \in Nat /\ rel \in Int /\ s % MaskBits \in Int
  BY SMTT(60), <1>1, RowWriterAssumption DEF Frames, Slots
<1>3. mask \in Masks
  <2>1. f.mask \in Masks
    BY <1>1 DEF Frames
  <2>2. b \in 0 .. MaskBytes - 1 => cell \in [bits : SUBSET Int, more : BOOLEAN]
    BY <1>2, <2>1 DEF Masks
  <2> HIDE DEF cell, b
  <2>3. QED BY <2>1, <2>2 DEF Masks
<1>4. MarkSlot(u, s) = [start |-> f.start, mask |-> mask, table |-> Append(f.table, rel), last |-> s,
                        sort |-> (f.sort \/ s < f.last), places |-> Append(f.places, <<s, Len(u.buf)>>)]
  <2>1. PICK F1, M, T, L, S, P : f = [start |-> F1, mask |-> M, table |-> T, last |-> L, sort |-> S, places |-> P]
    BY <1>1 DEF Frames
  <2>2. MarkSlot(u, s) = [f EXCEPT !.mask[b].bits = @ \cup {s % MaskBits}, !.sort = @ \/ s < f.last,
                                   !.last = s, !.table = Append(@, rel),
                                   !.places = Append(@, <<s, Len(u.buf)>>)]
    BY DEF MarkSlot
  <2> DEFINE g == [f EXCEPT !.mask[b].bits = @ \cup {s % MaskBits}]
  <2>3. g = [start |-> F1, mask |-> mask, table |-> T, last |-> L, sort |-> S, places |-> P]
    BY <2>1
  <2> HIDE DEF rel, f, b, mask
  <2>4. MarkSlot(u, s) = [start |-> F1, mask |-> mask, table |-> Append(T, rel), last |-> s,
                          sort |-> (S \/ s < L), places |-> Append(P, <<s, Len(u.buf)>>)]
    BY <2>1, <2>2, <2>3
  <2>5. QED BY <2>1, <2>4
<1> HIDE DEF mask, rel, f
<1>5. Append(f.table, rel) \in Seq(Int) /\ Append(f.places, <<s, Len(u.buf)>>) \in Seq(Slots \X Nat)
  BY <1>1, <1>2 DEF Frames
<1>6. MarkSlot(u, s) \in Frames /\ MarkSlot(u, s).start = f.start
  BY <1>1, <1>2, <1>3, <1>4, <1>5 DEF Frames
<1> DEFINE g == MarkSlot(u, s)
<1>7. /\ g.mask = mask /\ g.table = Append(f.table, rel) /\ g.last = s
      /\ g.sort = (f.sort \/ s < f.last) /\ g.places = Append(f.places, <<s, Len(u.buf)>>)
  BY <1>4
<1> HIDE DEF g
<1>8. QED BY <1>1, <1>6, <1>7 DEF f, g, mask, rel

(* A value is written behind the buffer, in the last object begun.         *)
LEMMA Wrote ==
  ASSUME NEW u, u = [buf |-> u.buf, frames |-> u.frames, offsets |-> u.offsets], Buffer(u.buf),
         u.frames \in Seq(Frames), u.frames # << >>, NEW s \in Slots, NEW depth
  PROVE  LET v == WriteField(u, s, Value(s, depth)) IN
         /\ v = [buf |-> v.buf, frames |-> v.frames, offsets |-> v.offsets]
         /\ Buffer(v.buf) /\ Len(v.buf) >= Len(u.buf) /\ Len(v.buf) \in Nat /\ Len(u.buf) \in Nat
         /\ \A i \in 1 .. Len(u.buf) : v.buf[i] = u.buf[i]
         /\ v.frames \in Seq(Frames) /\ Len(v.frames) = Len(u.frames)
         /\ \A k \in 1 .. Len(u.frames) : v.frames[k].start = u.frames[k].start
         /\ \A k \in 1 .. Len(u.frames) - 1 : v.frames[k] = u.frames[k]
         /\ v.frames[Len(u.frames)] = MarkSlot(u, s)
         /\ Len(v.buf) >= Len(u.buf) + 1 /\ v.buf[Len(u.buf) + 1] = <<"val", Value(s, depth)>>
<1> DEFINE x == Value(s, depth)
           v == WriteField(u, s, x)
           n == WordsOf(x) - 1
           word == << <<"val", x>> >>
           more == MoreOf(x)
           new == word \o more
           W == {<<"val", x>>} \cup {<<"data", x.says[i + 1]>> : i \in 1 .. n}
<1>1. n \in Nat
  BY ValueIsWords
<1>0. /\ more \in Seq({<<"data", x.says[i + 1]>> : i \in 1 .. n}) /\ Len(more) = n
  BY <1>1, MoreIsWords
<1> HIDE DEF n, x, more
<1>2. word \in Seq(W) /\ Len(word) = 1 /\ more \in Seq(W) /\ Len(more) = n
  BY <1>0
<1>3. new \in Seq(W) /\ Len(new) = 1 + n /\ new[1] = <<"val", x>>
  BY <1>2
<1>4. Buffer(new)
  <2> HIDE DEF new, W
  <2>1. \A i \in 1 .. Len(new) : new[i] \in W
    BY <1>3
  <2> USE DEF W
  <2>2. \A i \in 1 .. Len(new) : new[i][1] # "foot" /\ new[i][1] # "nyxo"
    BY <2>1
  <2>3. QED BY <1>3, <2>2 DEF Buffer, IsSeq
<1>5. v.buf = u.buf \o new
  <2>1. v.buf = (u.buf \o word) \o more
    BY DEF WriteField, more, x
  <2>2. PICK V : u.buf \in Seq(V)
    BY DEF Buffer, IsSeq
  <2>3. u.buf \in Seq(V \cup W) /\ word \in Seq(V \cup W) /\ more \in Seq(V \cup W)
    BY <1>2, <2>2
  <2>4. \A a, b, c \in Seq(V \cup W) : (a \o b) \o c = a \o (b \o c)
    OBVIOUS
  <2> HIDE DEF W, word
  <2>5. (u.buf \o word) \o more = u.buf \o (word \o more)
    BY <2>3, <2>4
  <2>6. QED BY <2>1, <2>5
<1>6. v.frames = Front(u.frames) \o <<MarkSlot(u, s)>>
      /\ v = [buf |-> v.buf, frames |-> v.frames, offsets |-> v.offsets]
  <2> DEFINE B == u.buf
             F == u.frames
             O == u.offsets
             x1 == Front(F) \o <<MarkSlot(u, s)>>
             y1 == (B \o word) \o more
  <2>1. u = [buf |-> B, frames |-> F, offsets |-> O]
    OBVIOUS
  <2>2. v = [u EXCEPT !.frames = x1, !.buf = y1]
    BY DEF WriteField, more, x
  <2> HIDE DEF B, F, O, x1, y1, v
  <2>3. v = [buf |-> y1, frames |-> x1, offsets |-> O]
    BY <2>1, <2>2, WriterParts
  <2>4. QED BY <2>3 DEF x1, F
<1> HIDE DEF v, new
<1>7. /\ Buffer(v.buf) /\ Len(v.buf) = Len(u.buf) + Len(new) /\ Len(u.buf) \in Nat /\ Len(new) \in Nat
      /\ \A i \in 1 .. Len(u.buf) : v.buf[i] = u.buf[i]
      /\ \A i \in 1 .. Len(new) : v.buf[Len(u.buf) + i] = new[i]
  <2>1. /\ Buffer(u.buf \o new) /\ Len(u.buf \o new) = Len(u.buf) + Len(new)
        /\ Len(u.buf) \in Nat /\ Len(new) \in Nat
        /\ \A i \in 1 .. Len(u.buf) : (u.buf \o new)[i] = u.buf[i]
        /\ \A i \in 1 .. Len(new) : (u.buf \o new)[Len(u.buf) + i] = new[i]
    BY <1>4, BufferGrows
  <2>2. QED BY <1>5, <2>1
<1> DEFINE g == MarkSlot(u, s)
<1>8. g \in Frames /\ g.start = Last(u.frames).start
  BY <1>7, Marked
<1> HIDE DEF g
<1>9. /\ v.frames \in Seq(Frames) /\ Len(v.frames) = Len(u.frames)
      /\ \A k \in 1 .. Len(u.frames) - 1 : v.frames[k] = u.frames[k]
      /\ v.frames[Len(u.frames)] = g
  <2>1. Len(u.frames) \in Nat /\ Len(u.frames) >= 1
    OBVIOUS
  <2>2. /\ Front(u.frames) \in Seq(Frames) /\ Len(Front(u.frames)) = Len(u.frames) - 1
        /\ \A k \in 1 .. Len(u.frames) - 1 : Front(u.frames)[k] = u.frames[k]
    BY FrontOf
  <2>3. <<g>> \in Seq(Frames) /\ Len(<<g>>) = 1 /\ <<g>>[1] = g
    BY <1>8
  <2>4. \A a \in Seq(Frames), b \in Seq(Frames) :
          /\ a \o b \in Seq(Frames) /\ Len(a \o b) = Len(a) + Len(b)
          /\ \A i \in 1 .. Len(a) : (a \o b)[i] = a[i]
          /\ \A i \in 1 .. Len(b) : (a \o b)[Len(a) + i] = b[i]
    BY Behind
  <2>5. v.frames = Front(u.frames) \o <<g>>
    BY <1>6 DEF g
  <2>6. /\ v.frames \in Seq(Frames) /\ Len(v.frames) = (Len(u.frames) - 1) + 1
        /\ \A k \in 1 .. Len(u.frames) - 1 : v.frames[k] = Front(u.frames)[k]
        /\ v.frames[(Len(u.frames) - 1) + 1] = g
    BY <2>2, <2>3, <2>4, <2>5
  <2>7. QED BY <2>1, <2>2, <2>6
<1>10. \A k \in 1 .. Len(u.frames) : v.frames[k].start = u.frames[k].start
  BY <1>8, <1>9 DEF Last
<1>11. /\ Len(v.buf) >= Len(u.buf) /\ Len(v.buf) \in Nat /\ Len(v.buf) >= Len(u.buf) + 1
       /\ v.buf[Len(u.buf) + 1] = <<"val", x>>
  <2>1. 1 \in 1 .. Len(new) /\ Len(new) >= 1
    BY <1>1, <1>3
  <2>2. QED BY <1>3, <1>7, <2>1
<1>12. QED BY <1>6, <1>7, <1>9, <1>10, <1>11 DEF v, x, g

(* end_object fills in the head of the last object begun and closes it.    *)
LEMMA Ended ==
  ASSUME NEW u, u = [buf |-> u.buf, frames |-> u.frames, offsets |-> u.offsets], Buffer(u.buf),
         u.frames \in Seq(Frames), u.frames # << >>, Framed(u.buf, Last(u.frames).start)
  PROVE  LET v == EndObject(u)
             start == Last(u.frames).start
         IN
         /\ v = [buf |-> v.buf, frames |-> v.frames, offsets |-> v.offsets]
         /\ Buffer(v.buf) /\ Len(v.buf) = Len(u.buf) /\ Len(u.buf) \in Nat
         /\ v.buf[start + 2] = <<"len", Len(u.buf) - start>>
         /\ v.buf[start + 3] = <<"head", [mask |-> Last(u.frames).mask, table |-> TableOf(Last(u.frames))]>>
         /\ \A i \in 1 .. Len(u.buf) : /\ v.buf[i][1] = u.buf[i][1]
                                       /\ i \notin {start + 2, start + 3} => v.buf[i] = u.buf[i]
         /\ v.frames \in Seq(Frames) /\ Len(v.frames) = Len(u.frames) - 1
         /\ \A k \in 1 .. Len(u.frames) - 1 : v.frames[k] = u.frames[k]
<1> DEFINE v == EndObject(u)
           f == Last(u.frames)
           head == [mask |-> f.mask, table |-> TableOf(f)]
           new == [u.buf EXCEPT ![f.start + 2] = <<"len", Len(u.buf) - f.start>>,
                                ![f.start + 3] = <<"head", head>>]
<1>1. Len(u.buf) \in Nat /\ Len(u.buf) - f.start \in Nat
  <2>1. PICK V : u.buf \in Seq(V)
    BY DEF Buffer, IsSeq
  <2>2. QED BY <2>1, HeadIsLong DEF Framed
<1>2. v = [buf |-> new, frames |-> Front(u.frames), offsets |-> u.offsets]
  <2> DEFINE B == u.buf
             F == u.frames
             O == u.offsets
             x1 == Front(F)
             a1 == <<"len", Len(B) - f.start>>
             b1 == <<"head", head>>
             p1 == f.start + 2
             q1 == f.start + 3
  <2>1. u = [buf |-> B, frames |-> F, offsets |-> O]
    OBVIOUS
  <2>2. v = [u EXCEPT !.frames = x1, !.buf[p1] = a1, !.buf[q1] = b1]
    BY DEF EndObject
  <2> HIDE DEF B, F, O, x1, a1, b1, p1, q1, v
  <2>3. v = [buf |-> [B EXCEPT ![p1] = a1, ![q1] = b1], frames |-> x1, offsets |-> O]
    BY <2>1, <2>2, WriterParts
  <2>4. QED BY <2>3 DEF B, F, O, x1, a1, b1, p1, q1
<1> DEFINE start == f.start
<1> HIDE DEF head
<1>3. /\ Buffer(new) /\ Len(new) = Len(u.buf)
      /\ new[start + 2] = <<"len", Len(u.buf) - start>> /\ new[start + 3] = <<"head", head>>
      /\ \A i \in 1 .. Len(u.buf) : /\ new[i][1] = u.buf[i][1]
                                    /\ i \notin {start + 2, start + 3} => new[i] = u.buf[i]
  <2> DEFINE B == u.buf
             x1 == Len(u.buf) - start
  <2>1. Buffer(B) /\ Framed(B, start) /\ x1 \in Nat
    BY <1>1
  <2>2. new = Rewritten(B, start, x1, head)
    BY DEF Rewritten
  <2> HIDE DEF new, x1, start, B
  <2>3. /\ Buffer(new) /\ Len(new) = Len(B)
        /\ new[start + 2] = <<"len", x1>> /\ new[start + 3] = <<"head", head>>
        /\ \A i \in 1 .. Len(B) : /\ new[i][1] = B[i][1]
                                  /\ i \notin {start + 2, start + 3} => new[i] = B[i]
    BY <2>1, <2>2, HeadRewritten
  <2>4. QED BY <2>3 DEF x1, B
<1> HIDE DEF new, v
<1>4. /\ Front(u.frames) \in Seq(Frames) /\ Len(Front(u.frames)) = Len(u.frames) - 1
      /\ \A k \in 1 .. Len(u.frames) - 1 : Front(u.frames)[k] = u.frames[k]
  BY FrontOf
<1>5. v.buf = new /\ v.frames = Front(u.frames) /\ v = [buf |-> v.buf, frames |-> v.frames, offsets |-> v.offsets]
  BY <1>2
<1>6. QED BY <1>1, <1>3, <1>4, <1>5 DEF v, head

(* An object stays where it was begun.                                     *)
LEMMA FramedKept ==
  ASSUME NEW b, NEW c, NEW start, Framed(b, start), Len(b) \in Nat, Len(c) \in Nat, Len(b) <= Len(c),
         \A i \in 1 .. Len(b) : c[i][1] = b[i][1]
  PROVE  Framed(c, start)
<1>1. start \in Nat /\ start + HeadWords <= Len(b) /\ HeadWords \in Nat /\ HeadWords >= 4
  BY HeadIsLong DEF Framed
<1>2. start + 1 \in 1 .. Len(b) /\ start + 2 \in 1 .. Len(b) /\ start + 3 \in 1 .. Len(b)
  BY <1>1
<1>3. QED BY <1>1, <1>2 DEF Framed

(* A record begins with its own object.                                    *)
LEMMA RecordBegins ==
  ASSUME NEW u, u = [buf |-> u.buf, frames |-> u.frames, offsets |-> u.offsets], Buffer(u.buf),
         u.frames = << >>
  PROVE  Building(BeginObject(u), u.buf, 1)
<1> DEFINE v == BeginObject(u)
<1>1. u.frames \in Seq(Frames) /\ Len(u.frames) = 0
  OBVIOUS
<1>2. /\ v = [buf |-> v.buf, frames |-> v.frames, offsets |-> v.offsets]
      /\ Buffer(v.buf) /\ Len(v.buf) = Len(u.buf) + HeadWords
      /\ Len(u.buf) \in Nat
      /\ \A i \in 1 .. Len(u.buf) : v.buf[i] = u.buf[i]
      /\ Framed(v.buf, Len(u.buf))
      /\ v.frames \in Seq(Frames) /\ Len(v.frames) = Len(u.frames) + 1
      /\ v.frames[Len(u.frames) + 1].start = Len(u.buf)
  BY <1>1, Begun
<1> HIDE DEF v
<1>3. Len(v.frames) = 1 /\ v.frames[1].start = Len(u.buf) /\ Len(u.buf) + HeadWords <= Len(v.buf)
  BY <1>1, <1>2, HeadIsLong
<1>4. QED BY <1>2, <1>3 DEF Building, v

(* What is open while a record is built.                                   *)
LEMMA BuildingFacts ==
  ASSUME NEW u, NEW base, Len(base) \in Nat, NEW depth \in Nat \ {0}, Building(u, base, depth)
  PROVE  /\ u.frames # << >> /\ Len(u.buf) \in Nat
         /\ Last(u.frames) = u.frames[depth] /\ Framed(u.buf, Last(u.frames).start)
         /\ \A k \in 1 .. depth : Framed(u.buf, u.frames[k].start)
<1>1. u.frames \in Seq(Frames) /\ Len(u.frames) = depth
  BY DEF Building
<1>2. u.frames # << >> /\ Last(u.frames) = u.frames[depth]
  BY <1>1 DEF Last
<1>3. \A k \in 1 .. depth : Framed(u.buf, u.frames[k].start)
  BY DEF Building
<1>4. PICK W : u.buf \in Seq(W)
  BY DEF Building, Buffer, IsSeq
<1>5. QED BY <1>2, <1>3, <1>4

(* begin_object opens one object more.                                     *)
LEMMA BuildBegins ==
  ASSUME NEW u, NEW base, Len(base) \in Nat, NEW depth \in Nat \ {0}, Building(u, base, depth)
  PROVE  Building(BeginObject(u), base, depth + 1)
<1> DEFINE v == BeginObject(u)
<1>1. /\ u = [buf |-> u.buf, frames |-> u.frames, offsets |-> u.offsets]
      /\ u.frames \in Seq(Frames) /\ Len(u.frames) = depth
      /\ Buffer(u.buf) /\ Len(base) + HeadWords <= Len(u.buf)
      /\ \A i \in 1 .. Len(base) : u.buf[i] = base[i]
      /\ u.frames[1].start = Len(base)
      /\ \A k \in 2 .. depth : Len(base) + HeadWords <= u.frames[k].start
  BY DEF Building
<1>2. /\ v = [buf |-> v.buf, frames |-> v.frames, offsets |-> v.offsets]
      /\ Buffer(v.buf) /\ Len(v.buf) = Len(u.buf) + HeadWords
      /\ Len(u.buf) \in Nat
      /\ \A i \in 1 .. Len(u.buf) : v.buf[i] = u.buf[i]
      /\ Framed(v.buf, Len(u.buf))
      /\ v.frames \in Seq(Frames) /\ Len(v.frames) = Len(u.frames) + 1
      /\ \A k \in 1 .. Len(u.frames) : v.frames[k] = u.frames[k]
      /\ v.frames[Len(u.frames) + 1].start = Len(u.buf)
  BY <1>1, Begun
<1> HIDE DEF v
<1>3. HeadWords \in Nat /\ Len(v.buf) \in Nat /\ Len(u.buf) <= Len(v.buf) /\ Len(base) <= Len(u.buf)
  BY <1>1, <1>2, HeadIsLong
<1>4. \A i \in 1 .. Len(base) : v.buf[i] = base[i]
  BY <1>1, <1>2, <1>3
<1>5. ASSUME NEW k \in 1 .. depth + 1
      PROVE  Framed(v.buf, v.frames[k].start) /\ (k >= 2 => Len(base) + HeadWords <= v.frames[k].start)
  <2>1. CASE k = depth + 1
    BY <1>1, <1>2, <2>1
  <2>2. CASE k # depth + 1
    <3>1. k \in 1 .. depth
      BY <2>2
    <3>2. Framed(u.buf, u.frames[k].start)
      BY <3>1, BuildingFacts
    <3>3. Framed(v.buf, u.frames[k].start)
      BY <1>2, <1>3, <3>2, FramedKept
    <3>4. v.frames[k] = u.frames[k]
      BY <1>1, <1>2, <3>1
    <3>5. QED BY <1>1, <3>1, <3>3, <3>4
  <2>3. QED BY <2>1, <2>2
<1>6. v.frames[1].start = Len(base) /\ Len(v.frames) = depth + 1 /\ Len(base) + HeadWords <= Len(v.buf)
  <2>1. v.frames[1] = u.frames[1]
    <3>1. 1 \in 1 .. Len(u.frames)
      BY <1>1
    <3>2. QED BY <1>2, <3>1
  <2>2. Len(base) + HeadWords <= Len(v.buf)
    BY <1>1, <1>2, <1>3
  <2>3. QED BY <1>1, <1>2, <2>1, <2>2
<1>7. QED BY <1>2, <1>4, <1>5, <1>6 DEF Building, v

(* A value leaves the open objects.                                        *)
LEMMA BuildWrites ==
  ASSUME NEW u, NEW base, Len(base) \in Nat, NEW depth \in Nat \ {0}, Building(u, base, depth),
         NEW s \in Slots, NEW d
  PROVE  Building(WriteField(u, s, Value(s, d)), base, depth)
<1> DEFINE v == WriteField(u, s, Value(s, d))
<1>1. /\ u = [buf |-> u.buf, frames |-> u.frames, offsets |-> u.offsets]
      /\ u.frames \in Seq(Frames) /\ Len(u.frames) = depth /\ u.frames # << >>
      /\ Buffer(u.buf) /\ Len(base) + HeadWords <= Len(u.buf)
      /\ \A i \in 1 .. Len(base) : u.buf[i] = base[i]
      /\ u.frames[1].start = Len(base)
      /\ \A k \in 2 .. depth : Len(base) + HeadWords <= u.frames[k].start
  BY BuildingFacts DEF Building
<1>2. /\ v = [buf |-> v.buf, frames |-> v.frames, offsets |-> v.offsets]
      /\ Buffer(v.buf) /\ Len(v.buf) >= Len(u.buf) /\ Len(v.buf) \in Nat /\ Len(u.buf) \in Nat
      /\ \A i \in 1 .. Len(u.buf) : v.buf[i] = u.buf[i]
      /\ v.frames \in Seq(Frames) /\ Len(v.frames) = Len(u.frames)
      /\ \A k \in 1 .. Len(u.frames) : v.frames[k].start = u.frames[k].start
  BY <1>1, Wrote
<1> HIDE DEF v
<1>3. HeadWords \in Nat /\ Len(base) <= Len(u.buf) /\ Len(base) + HeadWords <= Len(v.buf)
  BY <1>1, <1>2, HeadIsLong
<1>4. \A i \in 1 .. Len(base) : v.buf[i] = base[i]
  BY <1>1, <1>2, <1>3
<1>5. ASSUME NEW k \in 1 .. depth
      PROVE  Framed(v.buf, v.frames[k].start) /\ v.frames[k].start = u.frames[k].start
  <2>1. Framed(u.buf, u.frames[k].start)
    BY BuildingFacts
  <2>2. Framed(v.buf, u.frames[k].start)
    BY <1>2, <2>1, FramedKept
  <2>3. QED BY <1>1, <1>2, <2>2
<1>6. \A k \in 2 .. depth : k \in 1 .. depth
  OBVIOUS
<1>7. v.frames[1].start = Len(base)
  BY <1>1, <1>5
<1>8. QED BY <1>1, <1>2, <1>3, <1>4, <1>5, <1>6, <1>7 DEF Building, v

(* end_object closes the last object begun, and with the first the record. *)
LEMMA BuildEnds ==
  ASSUME NEW u, NEW base, Len(base) \in Nat, NEW depth \in Nat \ {0}, Building(u, base, depth)
  PROVE  /\ depth # 1 => Building(EndObject(u), base, depth - 1)
         /\ depth = 1 => Built(EndObject(u), base)
<1> DEFINE v == EndObject(u)
           start == Last(u.frames).start
<1>1. /\ u = [buf |-> u.buf, frames |-> u.frames, offsets |-> u.offsets]
      /\ u.frames \in Seq(Frames) /\ Len(u.frames) = depth /\ u.frames # << >>
      /\ Buffer(u.buf) /\ Len(base) + HeadWords <= Len(u.buf)
      /\ \A i \in 1 .. Len(base) : u.buf[i] = base[i]
      /\ u.frames[1].start = Len(base)
      /\ \A k \in 2 .. depth : Len(base) + HeadWords <= u.frames[k].start
      /\ Framed(u.buf, start) /\ start = u.frames[depth].start
  BY BuildingFacts DEF Building
<1>2. /\ v = [buf |-> v.buf, frames |-> v.frames, offsets |-> v.offsets]
      /\ Buffer(v.buf) /\ Len(v.buf) = Len(u.buf) /\ Len(u.buf) \in Nat
      /\ v.buf[start + 2] = <<"len", Len(u.buf) - start>>
      /\ \A i \in 1 .. Len(u.buf) : /\ v.buf[i][1] = u.buf[i][1]
                                    /\ i \notin {start + 2, start + 3} => v.buf[i] = u.buf[i]
      /\ v.frames \in Seq(Frames) /\ Len(v.frames) = Len(u.frames) - 1
      /\ \A k \in 1 .. Len(u.frames) - 1 : v.frames[k] = u.frames[k]
  BY <1>1, Ended
<1> HIDE DEF v, start
<1>3. /\ HeadWords \in Nat /\ HeadWords >= 4 /\ Len(base) <= Len(u.buf) /\ Len(base) + HeadWords <= Len(v.buf)
      /\ start \in Nat
  BY <1>1, <1>2, HeadIsLong DEF Framed
<1>4. Len(base) <= start
  <2>1. CASE depth = 1
    BY <1>1, <1>3, <2>1
  <2>2. CASE depth # 1
    BY SMTT(60), <1>1, <1>3, <2>2
  <2>3. QED BY <2>1, <2>2
<1>5. \A i \in 1 .. Len(base) : v.buf[i] = base[i]
  <2> SUFFICES ASSUME NEW i \in 1 .. Len(base)
               PROVE  v.buf[i] = base[i]
    OBVIOUS
  <2>1. i \in 1 .. Len(u.buf) /\ i # start + 2 /\ i # start + 3
    BY SMTT(60), <1>2, <1>3, <1>4
  <2>2. QED BY <1>1, <1>2, <2>1
<1>6. CASE depth = 1
  <2>1. start = Len(base) /\ v.frames = << >>
    BY <1>1, <1>2, <1>6
  <2>2. v.buf[start + 1][1] = "nyxo"
    <3>1. start + 1 \in 1 .. Len(u.buf)
      BY <1>2, <1>3, <2>1
    <3>2. u.buf[start + 1][1] = "nyxo"
      BY <1>1 DEF Framed
    <3>3. QED BY <1>2, <3>1, <3>2
  <2>3. v.buf[start + 2][2] = Len(v.buf) - start
    BY <1>2
  <2>4. v = [buf |-> v.buf, frames |-> << >>, offsets |-> v.offsets]
    BY <1>2, <2>1
  <2>5. QED BY <1>2, <1>3, <1>5, <1>6, <2>1, <2>2, <2>3, <2>4 DEF Built, v
<1>7. CASE depth # 1
  <2>1. ASSUME NEW k \in 1 .. depth - 1
        PROVE  /\ Framed(v.buf, v.frames[k].start) /\ v.frames[k] = u.frames[k]
               /\ k \in 1 .. depth
    <3>1. k \in 1 .. depth
      OBVIOUS
    <3>2. Framed(u.buf, u.frames[k].start)
      BY <3>1, BuildingFacts
    <3>3. Framed(v.buf, u.frames[k].start)
      BY SMTT(60), <1>2, <3>2, FramedKept
    <3>4. QED BY <1>1, <1>2, <3>1, <3>3
  <2>2. depth - 1 \in Nat \ {0} /\ 1 \in 1 .. depth - 1 /\ \A k \in 2 .. depth - 1 : k \in 1 .. depth - 1
    BY <1>7
  <2>3. v.frames[1].start = Len(base) /\ Len(v.frames) = depth - 1
    BY <1>1, <1>2, <2>1, <2>2
  <2>4. \A k \in 2 .. depth - 1 : Len(base) + HeadWords <= v.frames[k].start
    BY <1>1, <2>1, <2>2
  <2>5. QED BY <1>2, <1>3, <1>5, <1>7, <2>1, <2>3, <2>4 DEF Building, v
<1>8. QED BY <1>6, <1>7 DEF v

----------------------------------------------------------------------------
(* The calls of a record.                                                  *)

(* The calls of one kind among the first k.                                *)
Calls(plan, k, kind) == Cardinality({j \in 1 .. k : plan[j][1] = kind})

(* What is counted up to i, with the next one.                             *)
LEMMA OneMore ==
  ASSUME NEW plan, NEW i \in Nat \ {0}, NEW kind
  PROVE  /\ Calls(plan, i - 1, kind) \in Nat
         /\ plan[i][1] = kind => Calls(plan, i, kind) = Calls(plan, i - 1, kind) + 1
         /\ plan[i][1] # kind => Calls(plan, i, kind) = Calls(plan, i - 1, kind)
<1> DEFINE C == {j \in 1 .. i - 1 : plan[j][1] = kind}
           D == {j \in 1 .. i : plan[j][1] = kind}
<1>1. IsFiniteSet(C) /\ Cardinality(C) \in Nat
  <2>1. IsFiniteSet(1 .. i - 1)
    BY FS_Interval
  <2>2. IsFiniteSet(C)
    BY <2>1, FS_Subset
  <2>3. QED BY <2>2, FS_CardinalityType
<1>2. (plan[i][1] = kind => D = C \cup {i}) /\ (plan[i][1] # kind => D = C)
  OBVIOUS
<1>3. i \notin C
  OBVIOUS
<1>4. Calls(plan, i - 1, kind) = Cardinality(C) /\ Calls(plan, i, kind) = Cardinality(D)
  BY DEF Calls
<1> HIDE DEF C, D
<1>5. Cardinality(C \cup {i}) = Cardinality(C) + 1
  BY <1>1, <1>3, FS_AddElement
<1>6. QED BY <1>1, <1>2, <1>4, <1>5

(* The objects open before and after a call.                               *)
LEMMA OpenSteps ==
  ASSUME NEW plan, NEW i \in Nat \ {0}
  PROVE  /\ Open(plan, 0) = 1 /\ Open(plan, i) \in Int /\ Open(plan, i - 1) \in Int
         /\ plan[i][1] = "begin" => Open(plan, i) = Open(plan, i - 1) + 1
         /\ plan[i][1] = "end" => Open(plan, i) = Open(plan, i - 1) - 1
         /\ plan[i][1] = "field" => Open(plan, i) = Open(plan, i - 1)
<1>1. /\ Calls(plan, i - 1, "begin") \in Nat
      /\ plan[i][1] = "begin" => Calls(plan, i, "begin") = Calls(plan, i - 1, "begin") + 1
      /\ plan[i][1] # "begin" => Calls(plan, i, "begin") = Calls(plan, i - 1, "begin")
  BY OneMore
<1>2. /\ Calls(plan, i - 1, "end") \in Nat
      /\ plan[i][1] = "end" => Calls(plan, i, "end") = Calls(plan, i - 1, "end") + 1
      /\ plan[i][1] # "end" => Calls(plan, i, "end") = Calls(plan, i - 1, "end")
  BY OneMore
<1>3. Calls(plan, 0, "begin") = 0 /\ Calls(plan, 0, "end") = 0
  <2>1. {j \in 1 .. 0 : plan[j][1] = "begin"} = {} /\ {j \in 1 .. 0 : plan[j][1] = "end"} = {}
    OBVIOUS
  <2>2. QED BY <2>1, FS_EmptySet DEF Calls
<1>4. \A k : Open(plan, k) = 1 + Calls(plan, k, "begin") - Calls(plan, k, "end")
  BY DEF Open, Calls
<1>5. QED BY <1>1, <1>2, <1>3, <1>4

(* The writer after each of the calls.                                     *)
LEMMA CallByCall ==
  ASSUME NEW start, NEW calls, Len(calls) \in Nat
  PROVE  \E after : /\ after[0] = start
                    /\ \A i \in 1 .. Len(calls) : after[i] = Call(after[i - 1], calls[i])
                    /\ AfterCalls(start, calls) = after[Len(calls)]
<1> DEFINE n == Len(calls)
           Def(g, k) == g = [i \in 0 .. k |-> IF i = 0 THEN start ELSE Call(g[i - 1], calls[i])]
           Good == {k \in 0 .. n : \E g : Def(g, k)}
<1>1. n \in Nat
  OBVIOUS
<1> HIDE DEF n
<1>2. 0 \in Good
  <2> DEFINE g == [i \in 0 .. 0 |-> start]
  <2>1. g = [i \in 0 .. 0 |-> IF i = 0 THEN start ELSE Call(g[i - 1], calls[i])]
    OBVIOUS
  <2> HIDE DEF g
  <2>2. Def(g, 0)
    BY <2>1
  <2> HIDE DEF Def
  <2>3. QED BY <1>1, <2>2
<1>3. ASSUME NEW k \in 0 .. n - 1, k \in Good
      PROVE  k + 1 \in Good
  <2>1. PICK g : Def(g, k)
    BY <1>3
  <2> DEFINE h == [i \in 0 .. k + 1 |-> IF i = k + 1 THEN Call(g[k], calls[k + 1]) ELSE g[i]]
  <2>2. \A i \in 0 .. k + 1 : h[i] = IF i = 0 THEN start ELSE Call(h[i - 1], calls[i])
    <3> SUFFICES ASSUME NEW i \in 0 .. k + 1
                 PROVE  h[i] = IF i = 0 THEN start ELSE Call(h[i - 1], calls[i])
      OBVIOUS
    <3>1. CASE i = k + 1
      <4>1. i # 0 /\ i - 1 = k /\ k \in 0 .. k + 1 /\ k # k + 1
        BY <1>1, <3>1
      <4>2. h[i] = Call(g[k], calls[i]) /\ h[k] = g[k]
        BY <3>1, <4>1
      <4> HIDE DEF h
      <4>3. QED BY <4>1, <4>2
    <3>2. CASE i # k + 1
      <4>1. i \in 0 .. k /\ (i # 0 => i - 1 \in 0 .. k + 1 /\ i - 1 # k + 1)
        BY <1>1, <3>2
      <4>2. h[i] = g[i] /\ (i # 0 => h[i - 1] = g[i - 1])
        BY <3>2, <4>1
      <4>3. g[i] = IF i = 0 THEN start ELSE Call(g[i - 1], calls[i])
        BY <2>1, <4>1
      <4> HIDE DEF h
      <4>4. QED BY <4>2, <4>3
    <3>3. QED BY <3>1, <3>2
  <2>3. h = [i \in 0 .. k + 1 |-> h[i]]
    OBVIOUS
  <2> HIDE DEF h
  <2>4. Def(h, k + 1)
    BY <2>2, <2>3
  <2> HIDE DEF Def
  <2>5. k + 1 \in 0 .. n
    BY <1>1
  <2>6. QED BY <2>4, <2>5
<1>4. n \in Good
  <2> HIDE DEF Good
  <2>1. \A k \in 0 .. n - 1 : k \in Good => k + 1 \in Good
    BY <1>3
  <2>2. 0 \in Int /\ n \in Int /\ (0 <= n => 0 \in Good)
    BY <1>1, <1>2
  <2>3. 0 .. n \subseteq Good
    BY <2>1, <2>2, Upward, Zenon
  <2>4. QED BY <1>1, <2>3
<1> DEFINE after == CHOOSE g : Def(g, n)
<1>5. Def(after, n)
  BY <1>4
<1>6. AfterCalls(start, calls) = after[n]
  BY DEF AfterCalls, n
<1> HIDE DEF after
<1>7. after[0] = start /\ \A i \in 1 .. n : after[i] = Call(after[i - 1], calls[i])
  <2>1. \A i \in 0 .. n : after[i] = IF i = 0 THEN start ELSE Call(after[i - 1], calls[i])
    BY <1>5
  <2>2. 0 \in 0 .. n /\ \A i \in 1 .. n : i \in 0 .. n /\ i # 0
    BY <1>1
  <2> HIDE DEF Def
  <2>3. QED BY <2>1, <2>2
<1>8. QED BY <1>6, <1>7 DEF n

(* What a record calls.                                                    *)
CallKinds == {<<"begin">>, <<"end">>} \cup {"field"} \X Slots

(* The calls of a record are those of its plan between the two of its own. *)
LEMMA RecordCalls ==
  ASSUME NEW plan \in Plans
  PROVE  LET n == Len(plan)
             calls == << <<"begin">> >> \o plan \o << <<"end">> >>
         IN
         /\ n \in Nat /\ DOMAIN plan = 1 .. n
         /\ \A i \in 1 .. n : Open(plan, i) >= 1
         /\ Open(plan, n) = 1
         /\ Len(calls) = n + 2 /\ calls[1] = <<"begin">> /\ calls[n + 2] = <<"end">>
         /\ \A i \in 1 .. n : calls[i + 1] = plan[i] /\ plan[i] \in CallKinds
<1> DEFINE n == Len(plan)
           calls == << <<"begin">> >> \o plan \o << <<"end">> >>
<1>1. /\ plan \in Seq(CallKinds) /\ n \in Nat /\ DOMAIN plan = 1 .. n
      /\ \A i \in 1 .. n : Open(plan, i) >= 1
      /\ Open(plan, n) = 1
  BY RowStreamAssumption DEF CallKinds
<1>2. /\ Len(calls) = n + 2 /\ calls[1] = <<"begin">> /\ calls[n + 2] = <<"end">>
      /\ \A i \in 1 .. n : calls[i + 1] = plan[i] /\ plan[i] \in CallKinds
  <2>1. << <<"begin">> >> \in Seq(CallKinds) /\ << <<"end">> >> \in Seq(CallKinds)
    BY DEF CallKinds
  <2> DEFINE front == << <<"begin">> >> \o plan
  <2>2. /\ front \in Seq(CallKinds) /\ Len(front) = n + 1 /\ front[1] = <<"begin">>
        /\ \A i \in 1 .. n : front[i + 1] = plan[i]
    BY <1>1, <2>1
  <2> HIDE DEF front
  <2>3. /\ Len(front \o << <<"end">> >>) = n + 2
        /\ \A i \in 1 .. n + 1 : (front \o << <<"end">> >>)[i] = front[i]
        /\ (front \o << <<"end">> >>)[n + 2] = <<"end">>
    BY <1>1, <2>1, <2>2
  <2>4. calls = front \o << <<"end">> >>
    BY DEF front
  <2>5. 1 \in 1 .. n + 1 /\ \A i \in 1 .. n : i + 1 \in 1 .. n + 1
    BY <1>1
  <2>6. \A i \in 1 .. n : plan[i] \in CallKinds
    BY <1>1
  <2> HIDE DEF calls
  <2>7. QED BY <2>2, <2>3, <2>4, <2>5, <2>6
<1>3. QED BY <1>1, <1>2

(* What a call makes of the writer and the history.                        *)
LEMMA CallIs ==
  ASSUME NEW st, st = [w |-> st.w, written |-> st.written], NEW c \in CallKinds
  PROVE  LET nx == Call(st, c)
             f == Last(st.w.frames)
         IN
         /\ nx = [w |-> nx.w, written |-> nx.written]
         /\ c[1] \in {"begin", "end", "field"}
         /\ c[1] = "begin" => nx.w = BeginObject(st.w) /\ nx.written = st.written
         /\ c[1] = "end" => /\ nx.w = EndObject(st.w)
                            /\ nx.written = st.written \cup
                                 {[at |-> DataStart + f.start,
                                   fields |-> {<<f.places[i][1], DataStart + f.places[i][2],
                                                 st.w.buf[f.places[i][2] + 1][2]>> : i \in DOMAIN f.places}]}
         /\ c[1] = "field" => /\ c = <<"field", c[2]>> /\ c[2] \in Slots
                              /\ nx.w = WriteField(st.w, c[2], Value(c[2], Len(st.w.frames)))
                              /\ nx.written = st.written
<1>1. CASE c[1] = "begin"
  BY <1>1 DEF Call
<1>2. CASE c[1] = "end"
  BY <1>2 DEF Call
<1>3. CASE c[1] = "field"
  <2>1. c[2] \in Slots /\ c = <<"field", c[2]>>
    BY <1>3 DEF CallKinds
  <2>2. QED BY <1>3, <2>1 DEF Call
<1>4. c[1] \in {"begin", "end", "field"}
  BY DEF CallKinds
<1>5. QED BY <1>1, <1>2, <1>3, <1>4

(* The calls of a record leave one in the buffer, with its end behind all  *)
(* that was written.                                                       *)
LEMMA RecordBuilt ==
  ASSUME NEW u, u = [buf |-> u.buf, frames |-> << >>, offsets |-> u.offsets], Buffer(u.buf),
         NEW done, NEW plan \in Plans
  PROVE  LET st == AfterCalls([w |-> u, written |-> done], << <<"begin">> >> \o plan \o << <<"end">> >>)
         IN  Built(st.w, u.buf)
<1> DEFINE n == Len(plan)
           calls == << <<"begin">> >> \o plan \o << <<"end">> >>
           start == [w |-> u, written |-> done]
<1>1. /\ n \in Nat
      /\ \A i \in 1 .. n : Open(plan, i) >= 1
      /\ Open(plan, n) = 1
  BY RecordCalls
<1>2. /\ Len(calls) = n + 2 /\ calls[1] = <<"begin">> /\ calls[n + 2] = <<"end">>
      /\ \A i \in 1 .. n : calls[i + 1] = plan[i] /\ plan[i] \in CallKinds
  BY RecordCalls
<1>3. PICK after : /\ after[0] = start
                   /\ \A i \in 1 .. Len(calls) : after[i] = Call(after[i - 1], calls[i])
                   /\ AfterCalls(start, calls) = after[Len(calls)]
  <2>1. Len(calls) \in Nat
    BY <1>1, <1>2
  <2> HIDE DEF calls, start
  <2>2. QED BY ZenonT(60), <2>1, CallByCall
<1> HIDE DEF calls
<1> DEFINE Shape(st) == st = [w |-> st.w, written |-> st.written]
<1>4. ASSUME NEW st, Shape(st), NEW c \in CallKinds
      PROVE  /\ Shape(Call(st, c))
             /\ c[1] \in {"begin", "end", "field"}
             /\ c[1] = "begin" => Call(st, c).w = BeginObject(st.w)
             /\ c[1] = "end" => Call(st, c).w = EndObject(st.w)
             /\ c[1] = "field" => c[2] \in Slots
                                  /\ Call(st, c).w = WriteField(st.w, c[2], Value(c[2], Len(st.w.frames)))
  BY <1>4, CallIs
<1>5. Len(u.buf) \in Nat
  BY DEF Buffer, IsSeq
<1> DEFINE Step(i) == Shape(after[i]) /\ Open(plan, i - 1) >= 1 /\ Building(after[i].w, u.buf, Open(plan, i - 1))
           Steps == {i \in 1 .. n + 1 : Step(i)}
<1>6. Step(1)
  <2>1. after[1] = Call(after[1 - 1], calls[1])
    <3>1. 1 \in 1 .. Len(calls)
      BY <1>1, <1>2
    <3>2. QED BY <1>3, <3>1
  <2>2. after[1] = Call(start, <<"begin">>)
    BY <1>2, <1>3, <2>1
  <2>3. Shape(after[1]) /\ after[1].w = BeginObject(u)
    <3>1. Shape(start) /\ start.w = u /\ <<"begin">> \in CallKinds /\ <<"begin">>[1] = "begin"
      BY DEF CallKinds
    <3> HIDE DEF Shape, start
    <3>2. QED BY <1>4, <2>2, <3>1
  <2>4. Open(plan, 1 - 1) = 1
    BY OpenSteps
  <2>5. Building(BeginObject(u), u.buf, 1)
    BY RecordBegins
  <2>6. QED BY <2>3, <2>4, <2>5
<1> HIDE DEF start
<1>7. ASSUME NEW i \in 1 .. n, Step(i)
      PROVE  Step(i + 1)
  <2> DEFINE d == Open(plan, i - 1)
             c == plan[i]
             v == after[i].w
  <2>1. after[i + 1] = Call(after[i], c) /\ c \in CallKinds
    <3>1. i + 1 \in 1 .. n + 2 /\ (i + 1) - 1 = i
      BY <1>1
    <3>2. QED BY <1>2, <1>3, <3>1
  <2>2. d \in Nat \ {0} /\ Open(plan, i) >= 1 /\ Open(plan, i) \in Int /\ (i + 1) - 1 = i
    BY <1>1, <1>7, OpenSteps
  <2>3. Shape(after[i]) /\ Building(v, u.buf, d)
    BY <1>7
  <2> DEFINE nx == Call(after[i], c)
  <2> HIDE DEF Shape
  <2>4. /\ Shape(nx) /\ c[1] \in {"begin", "end", "field"}
        /\ c[1] = "begin" => nx.w = BeginObject(v)
        /\ c[1] = "end" => nx.w = EndObject(v)
        /\ c[1] = "field" => c[2] \in Slots /\ nx.w = WriteField(v, c[2], Value(c[2], Len(v.frames)))
    BY <1>4, <2>1, <2>3
  <2>5. nx = after[i + 1]
    BY <2>1
  <2> HIDE DEF nx, v, c, d
  <2>6. CASE c[1] = "begin"
    <3>1. Open(plan, i) = d + 1
      BY <2>6, OpenSteps DEF c, d
    <3>2. Building(nx.w, u.buf, d + 1)
      BY <1>5, <2>2, <2>3, <2>4, <2>6, BuildBegins
    <3>3. QED BY <2>2, <2>4, <2>5, <3>1, <3>2
  <2>7. CASE c[1] = "end"
    <3>1. Open(plan, i) = d - 1
      BY <2>7, OpenSteps DEF c, d
    <3>2. d # 1
      BY <2>2, <3>1
    <3>3. Building(nx.w, u.buf, d - 1)
      BY <1>5, <2>2, <2>3, <2>4, <2>7, <3>2, BuildEnds
    <3>4. QED BY <2>2, <2>4, <2>5, <3>1, <3>3
  <2>8. CASE c[1] = "field"
    <3>1. Open(plan, i) = d
      BY <2>8, OpenSteps DEF c, d
    <3>2. Building(nx.w, u.buf, d)
      BY <1>5, <2>2, <2>3, <2>4, <2>8, BuildWrites
    <3>3. QED BY <2>2, <2>4, <2>5, <3>1, <3>2
  <2>9. QED BY <2>4, <2>6, <2>7, <2>8
<1>8. Step(n + 1)
  <2>1. 1 \in Steps
    BY <1>1, <1>6
  <2>2. \A i \in 1 .. (n + 1) - 1 : i \in Steps => i + 1 \in Steps
    <3> HIDE DEF Step
    <3>1. \A i \in 1 .. (n + 1) - 1 : i \in 1 .. n /\ i + 1 \in 1 .. n + 1
      BY <1>1
    <3>2. QED BY <1>7, <3>1
  <2>3. 1 \in Int /\ n + 1 \in Int /\ (1 <= n + 1 => 1 \in Steps)
    BY <1>1, <2>1
  <2> HIDE DEF Steps
  <2>4. 1 .. n + 1 \subseteq Steps
    BY <2>2, <2>3, Upward, Zenon
  <2>5. n + 1 \in Steps
    BY <1>1, <2>4
  <2> HIDE DEF Step
  <2>6. QED BY <2>5 DEF Steps
<1>9. after[n + 2] = Call(after[n + 1], <<"end">>)
  <2>1. n + 2 \in 1 .. n + 2 /\ (n + 2) - 1 = n + 1
    BY <1>1
  <2>2. QED BY <1>2, <1>3, <2>1
<1>10. Building(after[n + 1].w, u.buf, 1) /\ Shape(after[n + 1])
  <2>1. (n + 1) - 1 = n
    BY <1>1
  <2>2. QED BY <1>1, <1>8, <2>1
<1>11. after[n + 2].w = EndObject(after[n + 1].w)
  <2>1. <<"end">> \in CallKinds /\ <<"end">>[1] = "end"
    BY DEF CallKinds
  <2> HIDE DEF Shape
  <2>2. QED BY <1>4, <1>9, <1>10, <2>1
<1>12. Built(after[n + 2].w, u.buf)
  BY <1>5, <1>10, <1>11, BuildEnds
<1>13. QED BY <1>2, <1>3, <1>12 DEF calls, start

----------------------------------------------------------------------------
(* A file and what is still to be written.                                 *)

(* Of objects laid one behind the other a cut shows the first ones; what   *)
(* is behind the last is no object.                                        *)
LEMMA CutPolls ==
  ASSUME NEW whole, IsSeq(whole), Lengths(whole), NEW n \in Nat, NEW edge \in [0 .. n -> Nat],
         \A k \in 1 .. n : Object(whole, edge[k - 1], edge[k]),
         edge[n] + 1 <= Len(whole) => whole[edge[n] + 1][1] # "nyxo",
         NEW cut \in Nat, cut <= Len(whole),
         NEW m \in 0 .. n, edge[m] <= cut, m < n => cut < edge[m + 1]
  PROVE  /\ \A k \in 0 .. m :
              PollAll(SubSeq(whole, 1, cut), edge[k]) = Positions(edge, k, m)
         /\ \A k \in 1 .. m : CompleteEnd(SubSeq(whole, 1, cut), edge[k - 1]) = edge[k]
<1> DEFINE data == SubSeq(whole, 1, cut)
<1>1. IsSeq(data) /\ Len(data) = cut /\ \A i \in 1 .. cut : data[i] = whole[i]
  BY FirstWords
<1> HIDE DEF data
<1>2. Len(whole) \in Nat
  BY DEF IsSeq
<1>3. Lengths(data)
  <2>1. \A i \in 1 .. cut - 1 : i \in 1 .. Len(whole) - 1 /\ i \in 1 .. cut /\ i + 1 \in 1 .. cut
    BY <1>2
  <2>2. QED BY <1>1, <2>1 DEF Lengths
<1>4. ASSUME NEW at, NEW end, Object(whole, at, end), at + 2 <= cut
      PROVE  Object(data, at, end)
  <2>1. at + 1 \in 1 .. cut /\ at + 2 \in 1 .. cut
    BY SMTT(60), <1>4 DEF Object
  <2>2. QED BY <1>1, <1>4, <2>1 DEF Object
<1> DEFINE Below == {k \in 0 .. m : edge[k] <= cut}
<1>5. \A k \in 0 .. m : edge[k] <= cut
  <2>1. m \in Int /\ 0 \in Int /\ (0 <= m => m \in Below)
    OBVIOUS
  <2>2. \A k \in 0 + 1 .. m : k \in Below => k - 1 \in Below
    <3> SUFFICES ASSUME NEW k \in 0 + 1 .. m, k \in Below
                 PROVE  k - 1 \in Below
      OBVIOUS
    <3>1. k \in 1 .. n /\ k - 1 \in 0 .. m /\ k - 1 \in 0 .. n /\ k \in 0 .. n
      OBVIOUS
    <3>2. edge[k - 1] \in Nat /\ edge[k] \in Nat /\ edge[k - 1] + 2 <= edge[k] /\ edge[k] <= cut
      BY <3>1 DEF Object
    <3>3. QED BY <3>1, <3>2
  <2> HIDE DEF Below
  <2>3. 0 .. m \subseteq Below
    BY <2>1, <2>2, Downward, Zenon
  <2>4. QED BY <2>3 DEF Below
<1>6. \A k \in 1 .. m : Object(data, edge[k - 1], edge[k])
  <2> SUFFICES ASSUME NEW k \in 1 .. m
               PROVE  Object(data, edge[k - 1], edge[k])
    OBVIOUS
  <2>1. Object(whole, edge[k - 1], edge[k]) /\ edge[k] <= cut
    BY <1>5
  <2>2. edge[k - 1] + 2 <= cut
    BY <2>1 DEF Object
  <2>3. QED BY <1>4, <2>1, <2>2
<1>7. CompleteEnd(data, edge[m]) = Nowhere
  <2>1. edge[m] \in Nat
    OBVIOUS
  <2>2. CASE edge[m] + 2 > cut
    BY <1>1, <2>2 DEF CompleteEnd
  <2>3. CASE edge[m] + 2 <= cut /\ m < n
    <3>1. m + 1 \in 1 .. n /\ (m + 1) - 1 = m /\ edge[m + 1] \in Nat
      BY <2>3
    <3>2. Object(whole, edge[m], edge[m + 1])
      BY <3>1
    <3>3. Object(data, edge[m], edge[m + 1])
      BY <1>4, <2>3, <3>2
    <3>4. CompleteEnd(data, edge[m]) = IF edge[m + 1] <= Len(data) THEN edge[m + 1] ELSE Nowhere
      BY <1>1, <3>3, EndOfObject
    <3>5. QED BY <1>1, <2>3, <3>1, <3>4
  <2>4. CASE edge[m] + 2 <= cut /\ m = n
    <3>1. edge[m] + 1 \in 1 .. cut /\ edge[n] + 1 <= Len(whole)
      BY <1>2, <2>1, <2>4
    <3>2. data[edge[m] + 1][1] # "nyxo"
      BY <1>1, <2>4, <3>1
    <3>3. QED BY <3>2 DEF CompleteEnd
  <2>5. QED BY <2>1, <2>2, <2>3, <2>4
<1> DEFINE few == [k \in 0 .. m |-> edge[k]]
<1>8. few \in [0 .. m -> Nat] /\ \A k \in 0 .. m : few[k] = edge[k]
  OBVIOUS
<1> HIDE DEF few
<1>9. \A k \in 1 .. m : Object(data, few[k - 1], few[k])
  <2>1. \A k \in 1 .. m : k \in 0 .. m /\ k - 1 \in 0 .. m
    OBVIOUS
  <2>2. QED BY <1>6, <1>8, <2>1
<1>10. \A k \in 0 .. m : PollAll(data, few[k]) = Positions(few, k, m)
  <2>1. /\ IsSeq(data) /\ Lengths(data) /\ m \in Nat /\ few \in [0 .. m -> Nat]
        /\ few[m] <= Len(data) /\ CompleteEnd(data, few[m]) = Nowhere
    BY <1>1, <1>3, <1>5, <1>7, <1>8
  <2>2. QED BY <1>9, <2>1, PollsObjects
<1>11. ASSUME NEW k \in 0 .. m
       PROVE  PollAll(data, edge[k]) = Positions(edge, k, m)
  <2>1. \A i \in 1 .. m - k : k + i - 1 \in 0 .. m
    OBVIOUS
  <2>2. Positions(few, k, m) = Positions(edge, k, m)
    BY <1>8, <2>1 DEF Positions
  <2>3. QED BY <1>8, <1>10, <2>2
<1>12. ASSUME NEW k \in 1 .. m
       PROVE  CompleteEnd(data, edge[k - 1]) = edge[k]
  <2>1. CompleteEnd(data, edge[k - 1]) = IF edge[k] <= Len(data) THEN edge[k] ELSE Nowhere
    BY <1>1, <1>6, EndOfObject
  <2>2. k \in 0 .. m
    OBVIOUS
  <2>3. QED BY <1>1, <1>5, <2>1, <2>2
<1>13. QED BY <1>11, <1>12 DEF data

(* The header.                                                             *)
LEMMA HeaderIs ==
  /\ DataStart \in Nat /\ DataStart >= Preamble + SchemaText /\ DataStart > 0
  /\ IsSeq(HeaderBytes) /\ Buffer(HeaderBytes) /\ Len(HeaderBytes) = DataStart
  /\ \A i \in 1 .. DataStart : HeaderBytes[i][1] # "nyxo"
<1> DEFINE a == [i \in 1 .. Preamble |-> <<"preamble", i>>]
           b == [i \in 1 .. SchemaWords |-> IF i <= SchemaText THEN <<"schema", i>> ELSE <<"pad", 0>>]
           W == {"preamble", "schema", "pad"} \X Nat
<1>1. SchemaWords \in Nat /\ SchemaText \in Nat /\ SchemaText <= SchemaWords
  BY RowStreamAssumption
<1>2. a \in Seq(W) /\ Len(a) = 8
  BY DEF Preamble
<1>3. b \in Seq(W) /\ Len(b) = SchemaWords
  <2>1. \A i \in 1 .. SchemaWords :
          (IF i <= SchemaText THEN <<"schema", i>> ELSE <<"pad", 0>>) \in W
    BY <1>1
  <2> HIDE DEF W
  <2>2. QED BY <1>1, <2>1
<1>4. HeaderBytes = a \o b
  BY DEF HeaderBytes
<1> HIDE DEF a, b
<1>5. HeaderBytes \in Seq(W) /\ Len(HeaderBytes) = 8 + SchemaWords
  <2> HIDE DEF W
  <2>1. \A x \in Seq(W), y \in Seq(W) : x \o y \in Seq(W) /\ Len(x \o y) = Len(x) + Len(y)
    OBVIOUS
  <2>2. QED BY <1>1, <1>2, <1>3, <1>4, <2>1
<1>6. \A i \in 1 .. Len(HeaderBytes) : HeaderBytes[i] \in W
  BY <1>5
<1>7. \A i \in 1 .. Len(HeaderBytes) : HeaderBytes[i][1] # "nyxo" /\ HeaderBytes[i][1] # "foot"
  BY <1>6
<1>8. IsSeq(HeaderBytes) /\ Buffer(HeaderBytes)
  BY <1>5, <1>7 DEF IsSeq, Buffer
<1>9. DataStart = 8 + SchemaWords /\ Preamble = 8
  BY DEF DataStart, Preamble
<1>10. QED BY <1>1, <1>5, <1>7, <1>8, <1>9

(* The footer.                                                             *)
LEMMA FooterIs ==
  ASSUME NEW offsets, offsets \in Seq(Nat), NEW tail \in Nat
  PROVE  LET f == Footer(offsets, tail)
             n == Len(offsets)
         IN
         /\ IsSeq(f) /\ n \in Nat /\ Len(f) = 2 * n + 4
         /\ f[1] = <<"count", n>> /\ f[2 * n + 2] = <<"ptr", tail>>
         /\ f[2 * n + 3] = <<"pad", 0>> /\ f[2 * n + 4] = <<"foot", 0>>
         /\ \A i \in 1 .. n : f[2 * i] = <<"entry", offsets[i]>>
         /\ \A i \in 1 .. Len(f) : f[i][1] # "nyxo" /\ (i < Len(f) => f[i][1] # "foot")
<1> DEFINE n == Len(offsets)
           f == Footer(offsets, tail)
           W == {"count", "entry", "pad", "ptr"} \X Nat
           U == W \cup {<<"foot", 0>>}
           entries == [i \in DOMAIN offsets |-> << <<"entry", offsets[i]>>, <<"pad", 0>> >>]
           count == << <<"count", n>> >>
           end == << <<"ptr", tail>>, <<"pad", 0>>, <<"foot", 0>> >>
<1>1. n \in Nat
  OBVIOUS
<1>2. entries \in Seq(Seq(W)) /\ Len(entries) = n
      /\ \A i \in 1 .. n : /\ Len(entries[i]) = 2 /\ entries[i][1] = <<"entry", offsets[i]>>
                           /\ i \in DOMAIN offsets
  <2>1. \A i \in 1 .. n : i \in DOMAIN offsets /\ offsets[i] \in Nat
    OBVIOUS
  <2>2. \A x \in Nat : << <<"entry", x>>, <<"pad", 0>> >> \in Seq(W)
    OBVIOUS
  <2>3. DOMAIN offsets = 1 .. n
    OBVIOUS
  <2>4. \A i \in 1 .. n : entries[i] = << <<"entry", offsets[i]>>, <<"pad", 0>> >>
    BY <2>1
  <2>5. entries = [i \in 1 .. n |-> entries[i]]
    BY <2>3
  <2> HIDE DEF W, entries
  <2>6. \A i \in 1 .. n : entries[i] \in Seq(W)
    BY <2>1, <2>2, <2>4
  <2>7. entries \in Seq(Seq(W)) /\ Len(entries) = n
    BY <1>1, <2>5, <2>6
  <2>8. QED BY SMTT(60), <2>1, <2>4, <2>7
<1>3. f = count \o FlattenSeq(entries) \o end
  BY DEF Footer
<1> HIDE DEF entries, f
<1> DEFINE flat == FlattenSeq(entries)
<1>4. flat \in Seq(W) /\ Len(flat) = 2 * n /\ \A i \in 1 .. n : flat[2 * (i - 1) + 1] = <<"entry", offsets[i]>>
  <2> HIDE DEF W
  <2>1. /\ flat \in Seq(W)
        /\ \E start \in [1 .. Len(entries) + 1 -> Nat] :
             /\ start[1] = 0 /\ Len(flat) = start[Len(entries) + 1]
             /\ \A i \in 1 .. Len(entries) :
                  /\ start[i + 1] = start[i] + Len(entries[i])
                  /\ start[i + 1] <= start[Len(entries) + 1]
                  /\ \A j \in 1 .. Len(entries[i]) : flat[start[i] + j] = entries[i][j]
    <3>1. entries \in Seq(Seq(W))
      BY <1>2
    <3>2. QED BY ZenonT(60), <3>1, FlattenFacts
  <2> HIDE DEF flat
  <2>8. PICK start \in [1 .. Len(entries) + 1 -> Nat] :
             /\ start[1] = 0 /\ Len(flat) = start[Len(entries) + 1]
             /\ \A i \in 1 .. Len(entries) :
                  /\ start[i + 1] = start[i] + Len(entries[i])
                  /\ start[i + 1] <= start[Len(entries) + 1]
                  /\ \A j \in 1 .. Len(entries[i]) : flat[start[i] + j] = entries[i][j]
    BY <2>1, Zenon
  <2>2. /\ start \in [1 .. n + 1 -> Nat] /\ start[1] = 0 /\ Len(flat) = start[n + 1]
        /\ \A i \in 1 .. n : /\ start[i + 1] = start[i] + Len(entries[i])
                             /\ \A j \in 1 .. Len(entries[i]) : flat[start[i] + j] = entries[i][j]
    BY <1>2, <2>8
  <2>3. \A i \in 1 .. n : start[i + 1] = start[i] + 2
    BY <1>2, <2>2
  <2> HIDE DEF n
  <2>4. \A i \in 1 .. n + 1 : start[i] = 2 * (i - 1)
    BY <1>1, <2>2, <2>3, EvenSteps
  <2>5. Len(flat) = 2 * n
    <3>1. n + 1 \in 1 .. n + 1 /\ (n + 1) - 1 = n
      BY <1>1
    <3>2. QED BY <2>2, <2>4, <3>1
  <2>6. ASSUME NEW i \in 1 .. n
        PROVE  flat[2 * (i - 1) + 1] = <<"entry", offsets[i]>>
    <3>1. start[i] = 2 * (i - 1)
      BY <1>1, <2>4
    <3>2. 1 \in 1 .. Len(entries[i])
      BY <1>2
    <3>3. flat[start[i] + 1] = entries[i][1]
      BY <2>2, <3>2
    <3>4. QED BY <1>2, <3>1, <3>3
  <2>7. QED BY <2>1, <2>5, <2>6
<1> HIDE DEF flat
<1> DEFINE front == count \o flat
<1>5. /\ front \in Seq(W) /\ Len(front) = 2 * n + 1 /\ front[1] = <<"count", n>>
      /\ \A i \in 1 .. n : front[2 * i] = <<"entry", offsets[i]>>
  <2>1. count \in Seq(W) /\ Len(count) = 1 /\ count[1] = <<"count", n>>
    BY <1>1
  <2> HIDE DEF W, count
  <2>2. \A a \in Seq(W), b \in Seq(W) :
          /\ a \o b \in Seq(W) /\ Len(a \o b) = Len(a) + Len(b)
          /\ \A i \in 1 .. Len(a) : (a \o b)[i] = a[i]
          /\ \A i \in 1 .. Len(b) : (a \o b)[Len(a) + i] = b[i]
    BY Behind
  <2>3. /\ front \in Seq(W) /\ Len(front) = Len(count) + Len(flat)
        /\ \A i \in 1 .. Len(count) : front[i] = count[i]
        /\ \A i \in 1 .. Len(flat) : front[Len(count) + i] = flat[i]
    BY <1>4, <2>1, <2>2
  <2> HIDE DEF front
  <2>4. ASSUME NEW i \in 1 .. n
        PROVE  front[2 * i] = <<"entry", offsets[i]>>
    <3>1. 2 * (i - 1) + 1 \in 1 .. Len(flat) /\ 1 + (2 * (i - 1) + 1) = 2 * i
      BY <1>1, <1>4
    <3>2. QED BY <1>4, <2>1, <2>3, <3>1
  <2>5. QED BY <1>1, <1>4, <2>1, <2>3, <2>4
<1> HIDE DEF front
<1>6. /\ IsSeq(f) /\ Len(f) = 2 * n + 4
      /\ \A i \in 1 .. 2 * n + 1 : f[i] = front[i]
      /\ f[2 * n + 2] = <<"ptr", tail>> /\ f[2 * n + 3] = <<"pad", 0>> /\ f[2 * n + 4] = <<"foot", 0>>
  <2>1. end \in Seq(U) /\ Len(end) = 3 /\ front \in Seq(U)
    BY <1>5
  <2>2. f = front \o end
    BY <1>3 DEF front, flat
  <2> HIDE DEF U
  <2>3. /\ f \in Seq(U) /\ Len(f) = (2 * n + 1) + 3
        /\ \A i \in 1 .. 2 * n + 1 : f[i] = front[i]
        /\ \A i \in 1 .. 3 : f[(2 * n + 1) + i] = end[i]
    <3> HIDE DEF end
    <3>1. \A x \in Seq(U), y \in Seq(U) :
            /\ x \o y \in Seq(U) /\ Len(x \o y) = Len(x) + Len(y)
            /\ \A i \in 1 .. Len(x) : (x \o y)[i] = x[i]
            /\ \A i \in 1 .. Len(y) : (x \o y)[Len(x) + i] = y[i]
      BY Behind
    <3>2. /\ f \in Seq(U) /\ Len(f) = Len(front) + Len(end)
          /\ \A i \in 1 .. Len(front) : f[i] = front[i]
          /\ \A i \in 1 .. Len(end) : f[Len(front) + i] = end[i]
      BY <2>1, <2>2, <3>1
    <3> HIDE DEF n
    <3>3. Len(front) = 2 * n + 1 /\ Len(end) = 3
      BY <1>5, <2>1
    <3>4. QED BY <3>2, <3>3
  <2>4. end[1] = <<"ptr", tail>> /\ end[2] = <<"pad", 0>> /\ end[3] = <<"foot", 0>>
    OBVIOUS
  <2>5. (2 * n + 1) + 1 = 2 * n + 2 /\ (2 * n + 1) + 2 = 2 * n + 3 /\ (2 * n + 1) + 3 = 2 * n + 4
    BY <1>1
  <2> HIDE DEF end
  <2>6. f[(2 * n + 1) + 1] = end[1] /\ f[(2 * n + 1) + 2] = end[2] /\ f[(2 * n + 1) + 3] = end[3]
    BY <2>3
  <2>7. QED BY <2>3, <2>4, <2>5, <2>6 DEF IsSeq
<1>7. ASSUME NEW i \in 1 .. Len(f)
      PROVE  f[i][1] # "nyxo" /\ (i < Len(f) => f[i][1] # "foot")
  <2>1. CASE i <= 2 * n + 1
    <3>1. i \in 1 .. 2 * n + 1
      BY <1>1, <2>1
    <3>2. front[i] \in W
      BY <1>5, <3>1
    <3>3. f[i] = front[i]
      BY <1>6, <3>1
    <3>4. QED BY <3>2, <3>3
  <2>2. CASE ~(i <= 2 * n + 1)
    <3>1. i = 2 * n + 2 \/ i = 2 * n + 3 \/ i = 2 * n + 4
      <4> HIDE DEF n
      <4>1. i \in 1 .. 2 * n + 4
        BY <1>6
      <4>2. QED BY <1>1, <2>2, <4>1
    <3>2. QED BY <1>6, <3>1
  <2>3. QED BY <2>1, <2>2
<1>8. f[1] = <<"count", n>> /\ \A i \in 1 .. n : f[2 * i] = <<"entry", offsets[i]>>
  <2>1. 1 \in 1 .. 2 * n + 1 /\ \A i \in 1 .. n : 2 * i \in 1 .. 2 * n + 1
    BY <1>1
  <2>2. QED BY <1>5, <1>6, <2>1
<1>9. QED BY <1>1, <1>6, <1>7, <1>8 DEF f, n

----------------------------------------------------------------------------
(* The inductive invariant.                                                *)

(* Where the k-th record ends and the next begins.                         *)
Edge(k) == IF k = 0 THEN DataStart ELSE laid[k][2]

Places == [i \in DOMAIN laid |-> laid[i][1]]

(* The positions of the first k records.                                   *)
Given(k) == [i \in 1 .. k |-> Edge(i - 1)]

(* The writer has no object open, and what it holds comes in whole records *)
(* of which all but the last are in the file.                              *)
WriterInv ==
  /\ w = [buf |-> w.buf, frames |-> << >>, offsets |-> w.offsets]
  /\ Buffer(w.buf) /\ flushed \in Nat /\ flushed <= Len(w.buf)
  /\ pc \in {"ready", "seal", "end"} => flushed = Len(w.buf)
  /\ pc = "header" => w.buf = << >> /\ laid = << >>

(* The file and what is still to be written are header, data and footer.   *)
FileInv ==
  /\ IsSeq(file) /\ IsSeq(todo)
  /\ file \o todo = IF pc = "end" THEN (HeaderBytes \o w.buf) \o Footer(Places, DataStart + Len(w.buf))
                    ELSE HeaderBytes \o w.buf
  /\ pc \in {"ready", "seal"} => todo = << >>
  /\ pc # "header" => Len(file) >= DataStart + flushed

(* Each record lies where the producer has noted it, behind the one before.*)
LaidInv ==
  /\ laid \in Seq(Nat \X Nat) /\ Len(laid) <= Records
  /\ \A k \in 1 .. Len(laid) : laid[k][1] = Edge(k - 1) /\ Object(file \o todo, Edge(k - 1), Edge(k))
  /\ Edge(Len(laid)) = DataStart + Len(w.buf)

(* The producer writes so many records, then says so, then seals the file. *)
PhaseInv ==
  /\ pc \in {"header", "ready", "flush", "seal", "end"}
  /\ wd = (pc \in {"seal", "end"})
  /\ pc \in {"header", "ready"} => Len(laid) < Records
  /\ pc \in {"seal", "end"} => Len(laid) = Records

(* The reader has been given the first records, and scans on behind them.  *)
ReaderInv ==
  /\ rpc \in {"poll", "scan", "check", "return"} /\ ds \in {0, DataStart}
  /\ view \in Nat /\ view <= Len(file)
  /\ \E k \in 0 .. Len(laid) :
       /\ got = Given(k)
       /\ k # 0 => Edge(k) <= Len(file)
       /\ (scan = 0 /\ k = 0) \/ (scan = Edge(k) /\ ds = DataStart)

RowInv == WriterInv /\ FileInv /\ LaidInv /\ PhaseInv /\ ReaderInv

(* What the file and the rest consist of.                                  *)
LEMMA WholeIs ==
  ASSUME RowInv
  PROVE  LET whole == file \o todo
             data == DataStart + Len(w.buf)
         IN
         /\ IsSeq(whole) /\ Len(file) \in Nat /\ Len(todo) \in Nat /\ Len(w.buf) \in Nat
         /\ Len(whole) = Len(file) + Len(todo) /\ \A i \in 1 .. Len(file) : whole[i] = file[i]
         /\ Lengths(whole)
         /\ pc # "end" => Len(whole) = data
         /\ pc = "end" => Len(whole) = data + 2 * Len(laid) + 4
         /\ \A i \in 1 .. data : whole[i][1] # "foot"
         /\ \A i \in 1 .. DataStart : whole[i][1] # "nyxo"
         /\ \A i \in data + 1 .. Len(whole) : whole[i][1] # "nyxo"
         /\ pc = "end" => \A i \in 1 .. 2 * Len(laid) + 4 : whole[data + i] = Footer(Places, data)[i]
<1> DEFINE whole == file \o todo
           head == HeaderBytes \o w.buf
           data == DataStart + Len(w.buf)
           foot == Footer(Places, data)
           n == Len(laid)
<1>1. /\ IsSeq(whole) /\ Len(file) \in Nat /\ Len(todo) \in Nat
      /\ Len(whole) = Len(file) + Len(todo) /\ \A i \in 1 .. Len(file) : whole[i] = file[i]
  BY Joined DEF RowInv, FileInv
<1>2. whole = IF pc = "end" THEN head \o foot ELSE head
  BY DEF RowInv, FileInv
<1>3. /\ DataStart \in Nat /\ DataStart > 0 /\ IsSeq(HeaderBytes) /\ Buffer(HeaderBytes)
      /\ Len(HeaderBytes) = DataStart /\ \A i \in 1 .. DataStart : HeaderBytes[i][1] # "nyxo"
  BY HeaderIs
<1>4. Buffer(w.buf) /\ IsSeq(w.buf)
  BY DEF RowInv, WriterInv, Buffer
<1>5. /\ Buffer(head) /\ Len(head) = data /\ Len(w.buf) \in Nat
      /\ \A i \in 1 .. DataStart : head[i] = HeaderBytes[i]
  BY <1>3, <1>4, BufferGrows
<1>6. data \in Nat
  BY <1>3, <1>5
<1>7. n \in Nat /\ Places \in Seq(Nat) /\ Len(Places) = n
  <2>1. laid \in Seq(Nat \X Nat)
    BY DEF RowInv, LaidInv
  <2>2. \A i \in DOMAIN laid : laid[i][1] \in Nat
    BY <2>1
  <2>3. DOMAIN laid = 1 .. n /\ n \in Nat
    BY <2>1
  <2>4. Places = [i \in 1 .. n |-> laid[i][1]]
    BY <2>3 DEF Places
  <2> HIDE DEF n
  <2>5. QED BY <2>2, <2>3, <2>4
<1> HIDE DEF data
<1>8. /\ IsSeq(foot) /\ Len(foot) = 2 * n + 4 /\ \A i \in 1 .. Len(foot) : foot[i][1] # "nyxo"
  BY <1>6, <1>7, FooterIs
<1> HIDE DEF whole, head, foot
<1>9. /\ \A i \in 1 .. data : head[i][1] # "foot"
      /\ \A i \in 1 .. data : head[i][1] = "nyxo" => i + 1 <= data /\ head[i + 1][2] \in Nat
      /\ IsSeq(head)
  BY <1>5 DEF Buffer
<1>10. CASE pc # "end"
  <2>1. whole = head
    BY <1>2, <1>10
  <2>2. Lengths(whole)
    BY <1>5, <1>6, <1>9, <2>1 DEF Lengths
  <2>3. Len(whole) = data /\ \A i \in 1 .. data : whole[i][1] # "foot"
    BY <1>5, <1>9, <2>1
  <2>4. \A i \in 1 .. DataStart : whole[i][1] # "nyxo"
    BY <1>3, <1>5, <2>1
  <2>5. \A i \in data + 1 .. Len(whole) : whole[i][1] # "nyxo"
    BY <1>6, <2>3
  <2>6. QED BY <1>1, <1>5, <1>10, <2>2, <2>3, <2>4, <2>5 DEF whole, data
<1>11. CASE pc = "end"
  <2>1. whole = head \o foot
    BY <1>2, <1>11
  <2>2. /\ Len(whole) = data + (2 * n + 4) /\ \A i \in 1 .. data : whole[i] = head[i]
        /\ \A i \in 1 .. 2 * n + 4 : whole[data + i] = foot[i]
    <3>0. IsSeq(head) /\ IsSeq(foot)
      BY <1>8, <1>9
    <3>1. /\ Len(head \o foot) = Len(head) + Len(foot)
          /\ \A i \in 1 .. Len(head) : (head \o foot)[i] = head[i]
          /\ \A i \in 1 .. Len(foot) : (head \o foot)[Len(head) + i] = foot[i]
      BY <3>0, Joined
    <3> HIDE DEF n
    <3>2. QED BY <1>5, <1>8, <2>1, <3>1
  <2>3. ASSUME NEW i \in data + 1 .. Len(whole)
        PROVE  whole[i][1] # "nyxo"
    <3>1. i - data \in 1 .. 2 * n + 4 /\ data + (i - data) = i
      BY <1>6, <1>7, <2>2
    <3>2. QED BY <1>8, <2>2, <3>1
  <2>4. Lengths(whole)
    <3> SUFFICES ASSUME NEW i \in 1 .. Len(whole) - 1, whole[i][1] = "nyxo"
                 PROVE  whole[i + 1][2] \in Int
      BY DEF Lengths
    <3>1. i \in 1 .. data
      BY <1>1, <1>6, <2>3
    <3>2. i + 1 \in 1 .. data /\ head[i + 1][2] \in Nat
      BY <1>6, <1>9, <2>2, <3>1
    <3>3. QED BY <2>2, <3>2
  <2>5. \A i \in 1 .. DataStart : i \in 1 .. data
    BY <1>3, <1>5 DEF data
  <2>6. \A i \in 1 .. DataStart : whole[i][1] # "nyxo"
    BY <1>3, <1>5, <2>2, <2>5
  <2>7. data + (2 * n + 4) = data + 2 * n + 4
    BY <1>6, <1>7
  <2>8. QED BY <1>1, <1>5, <1>9, <1>11, <2>2, <2>3, <2>4, <2>6, <2>7 DEF whole, data, foot
<1>12. QED BY <1>10, <1>11

(* The records lie one behind the other.                                   *)
LEMMA EdgesAre ==
  ASSUME RowInv
  PROVE  /\ Len(laid) \in Nat /\ Edge(0) = DataStart
         /\ [k \in 0 .. Len(laid) |-> Edge(k)] \in [0 .. Len(laid) -> Nat]
         /\ \A k \in 0 .. Len(laid) : Edge(k) \in Nat
         /\ \A k \in 1 .. Len(laid) : Edge(k - 1) + 2 <= Edge(k) /\ laid[k] = <<Edge(k - 1), Edge(k)>>
         /\ \A k \in 0 .. Len(laid) : Edge(k) <= DataStart + Len(w.buf) /\ DataStart <= Edge(k)
         /\ \A j, k \in 0 .. Len(laid) : j <= k => Edge(j) <= Edge(k)
<1> DEFINE n == Len(laid)
<1>1. n \in Nat /\ laid \in Seq(Nat \X Nat)
  BY DEF RowInv, LaidInv
<1>2. DataStart \in Nat
  BY HeaderIs
<1>3. Edge(0) = DataStart
  BY DEF Edge
<1>4. \A k \in 0 .. n : Edge(k) \in Nat
  BY <1>1, <1>2 DEF Edge
<1>5. ASSUME NEW k \in 1 .. n
      PROVE  Edge(k - 1) + 2 <= Edge(k) /\ laid[k] = <<Edge(k - 1), Edge(k)>>
  <2>1. laid[k][1] = Edge(k - 1) /\ Object(file \o todo, Edge(k - 1), Edge(k))
    BY DEF RowInv, LaidInv
  <2>2. Edge(k) = laid[k][2] /\ laid[k] \in Nat \X Nat
    BY <1>1 DEF Edge
  <2>3. QED BY SMTT(60), <2>1, <2>2 DEF Object
<1> HIDE DEF n
<1>6. ASSUME NEW j \in 0 .. n
      PROVE  \A k \in j .. n : Edge(j) <= Edge(k)
  <2> DEFINE S == {k \in j .. n : Edge(j) <= Edge(k)}
  <2>1. j \in Int /\ n \in Int /\ (j <= n => j \in S)
    BY <1>1, <1>4
  <2>2. \A k \in j .. n - 1 : k \in S => k + 1 \in S
    <3> SUFFICES ASSUME NEW k \in j .. n - 1, k \in S
                 PROVE  k + 1 \in S
      OBVIOUS
    <3>1. k \in 0 .. n /\ k + 1 \in 1 .. n /\ k + 1 \in 0 .. n /\ (k + 1) - 1 = k /\ k + 1 \in j .. n
      BY <1>1
    <3>2. Edge(k) + 2 <= Edge(k + 1) /\ Edge(j) <= Edge(k)
      BY <1>5, <3>1
    <3>3. Edge(j) <= Edge(k + 1)
      BY <1>4, <3>1, <3>2
    <3>4. QED BY <3>1, <3>3
  <2> HIDE DEF S
  <2>3. j .. n \subseteq S
    BY <2>1, <2>2, Upward, Zenon
  <2>4. QED BY <2>3 DEF S
<1>7. \A j, k \in 0 .. n : j <= k => Edge(j) <= Edge(k)
  <2>1. \A j, k \in 0 .. n : j <= k => k \in j .. n
    BY <1>1
  <2>2. QED BY <1>6, <2>1
<1>8. Edge(n) = DataStart + Len(w.buf)
  BY DEF RowInv, LaidInv, n
<1>9. ASSUME NEW k \in 0 .. n
      PROVE  Edge(k) <= DataStart + Len(w.buf) /\ DataStart <= Edge(k)
  <2>1. 0 \in 0 .. n /\ n \in 0 .. n /\ 0 <= k /\ k <= n
    BY <1>1
  <2>2. QED BY <1>3, <1>7, <1>8, <2>1
<1>10. QED BY <1>1, <1>3, <1>4, <1>5, <1>7, <1>9 DEF n

(* What is in the file of an object remains.                               *)
LEMMA ObjectKept ==
  ASSUME NEW a, NEW b, NEW at, NEW end, Object(a, at, end), \A i \in 1 .. end : b[i] = a[i]
  PROVE  Object(b, at, end)
<1>1. at + 1 \in 1 .. end /\ at + 2 \in 1 .. end
  BY DEF Object
<1>2. QED BY <1>1 DEF Object

(* The number of records that are complete in the first words.             *)
Seen(cut) == Cardinality({i \in DOMAIN laid : laid[i][2] <= cut})

(* These are the first records.                                            *)
LEMMA SeenIs ==
  ASSUME RowInv, NEW cut \in Nat
  PROVE  /\ Seen(cut) \in 0 .. Len(laid)
         /\ \A k \in 1 .. Len(laid) : (k <= Seen(cut)) = (Edge(k) <= cut)
         /\ Seen(cut) < Len(laid) => cut < Edge(Seen(cut) + 1)
<1> DEFINE n == Len(laid)
           P == {i \in 1 .. n : Edge(i) <= cut}
<1>1. /\ n \in Nat /\ \A k \in 0 .. n : Edge(k) \in Nat
      /\ \A j, k \in 0 .. n : j <= k => Edge(j) <= Edge(k)
  BY EdgesAre
<1>2. {i \in DOMAIN laid : laid[i][2] <= cut} = P
  <2>1. DOMAIN laid = 1 .. n
    BY DEF RowInv, LaidInv
  <2>2. \A i \in 1 .. n : laid[i][2] = Edge(i)
    BY DEF Edge
  <2>3. QED BY <2>1, <2>2
<1>3. Seen(cut) = Cardinality(P)
  BY <1>2 DEF Seen
<1>4. \A i \in P : \A j \in 1 .. i : j \in P
  <2> SUFFICES ASSUME NEW i \in P, NEW j \in 1 .. i
               PROVE  j \in P
    OBVIOUS
  <2>1. i \in 0 .. n /\ j \in 0 .. n /\ j \in 1 .. n /\ j <= i /\ Edge(i) <= cut
    BY <1>1
  <2>2. Edge(j) <= cut
    BY <1>1, <2>1
  <2>3. QED BY <2>1, <2>2
<1>5. P \in SUBSET (1 .. n)
  OBVIOUS
<1>6. Cardinality(P) \in 0 .. n /\ P = 1 .. Cardinality(P)
  <2> HIDE DEF P, n
  <2>1. QED BY <1>1, <1>4, <1>5, FirstOnes
<1>7. \A k \in 1 .. n : (k <= Cardinality(P)) = (Edge(k) <= cut)
  <2>1. \A k \in 1 .. n : (k \in P) = (Edge(k) <= cut)
    OBVIOUS
  <2> HIDE DEF P
  <2>2. \A k \in 1 .. n : (k \in P) = (k <= Cardinality(P))
    BY <1>6
  <2>3. QED BY <2>1, <2>2
<1> HIDE DEF P
<1>8. ASSUME Cardinality(P) < n
      PROVE  cut < Edge(Cardinality(P) + 1)
  <2>1. Cardinality(P) + 1 \in 1 .. n /\ ~(Cardinality(P) + 1 <= Cardinality(P)) /\ Cardinality(P) + 1 \in 0 .. n
    BY <1>1, <1>6, <1>8
  <2>2. ~(Edge(Cardinality(P) + 1) <= cut)
    BY <1>7, <2>1
  <2>3. QED BY <1>1, <2>1, <2>2
<1>9. QED BY <1>3, <1>6, <1>7, <1>8

(* The positions of the records from the (k + 1)-st to the m-th.           *)
Starts(k, m) == [i \in 1 .. m - k |-> Edge(k + i - 1)]

(* What the first words of the file show a reader.                         *)
LEMMA ScanIs ==
  ASSUME RowInv, NEW cut \in Nat, cut <= Len(file)
  PROVE  /\ PollAll(SubSeq(file, 1, cut), 0) = << >>
         /\ \A k \in 0 .. Len(laid) : Edge(k) > cut => PollAll(SubSeq(file, 1, cut), Edge(k)) = << >>
         /\ \A k \in 0 .. Len(laid) :
              Edge(k) <= cut => /\ k <= Seen(cut)
                                /\ PollAll(SubSeq(file, 1, cut), Edge(k)) = Starts(k, Seen(cut))
         /\ \A k \in 1 .. Seen(cut) : CompleteEnd(SubSeq(file, 1, cut), Edge(k - 1)) = Edge(k)
<1> DEFINE whole == file \o todo
           data == SubSeq(file, 1, cut)
           n == Len(laid)
           m == Seen(cut)
           edge == [k \in 0 .. n |-> Edge(k)]
<1>1. /\ IsSeq(whole) /\ Len(file) \in Nat /\ Len(todo) \in Nat /\ Lengths(whole)
      /\ Len(whole) = Len(file) + Len(todo)
      /\ \A i \in 1 .. DataStart : whole[i][1] # "nyxo"
      /\ \A i \in DataStart + Len(w.buf) + 1 .. Len(whole) : whole[i][1] # "nyxo"
      /\ Len(w.buf) \in Nat
  BY WholeIs
<1>2. /\ n \in Nat /\ Edge(0) = DataStart /\ edge \in [0 .. n -> Nat]
      /\ \A k \in 0 .. n : Edge(k) \in Nat
      /\ \A j, k \in 0 .. n : j <= k => Edge(j) <= Edge(k)
  BY EdgesAre
<1>3. m \in 0 .. n /\ (\A k \in 1 .. n : (k <= m) = (Edge(k) <= cut)) /\ (m < n => cut < Edge(m + 1))
  BY SeenIs
<1>4. data = SubSeq(whole, 1, cut)
  <2>1. IsSeq(file) /\ IsSeq(todo)
    BY DEF RowInv, FileInv
  <2>2. QED BY <2>1, CutOfWhole
<1>5. cut <= Len(whole)
  BY <1>1
<1>6. \A k \in 0 .. n : edge[k] = Edge(k)
  OBVIOUS
<1>7. DataStart \in Nat /\ DataStart > 0
  BY HeaderIs
<1> HIDE DEF whole, data, n, m, edge
<1>8. IsSeq(data) /\ Len(data) = cut /\ \A i \in 1 .. cut : data[i] = whole[i]
  BY <1>1, <1>4, <1>5, FirstWords
<1>9. Lengths(data)
  <2>1. \A i \in 1 .. cut - 1 : i \in 1 .. Len(whole) - 1 /\ i \in 1 .. cut /\ i + 1 \in 1 .. cut
    BY <1>1, <1>5
  <2>2. QED BY <1>1, <1>8, <2>1 DEF Lengths
<1>10. PollAll(data, 0) = << >>
  <2>1. CompleteEnd(data, 0) = Nowhere
    <3>1. CASE cut = 0
      BY <1>8, <3>1 DEF CompleteEnd
    <3>2. CASE cut # 0
      <4>1. 1 \in 1 .. cut /\ 1 \in 1 .. DataStart /\ 0 + 1 = 1
        BY <1>7, <3>2
      <4>2. data[1][1] # "nyxo"
        BY <1>1, <1>8, <4>1
      <4>3. QED BY <4>1, <4>2 DEF CompleteEnd
    <3>3. QED BY <3>1, <3>2
  <2>2. QED BY <1>8, <1>9, <2>1, NoPolls
<1>11. ASSUME NEW k \in 0 .. n, Edge(k) > cut
       PROVE  PollAll(data, Edge(k)) = << >>
  <2>1. Edge(k) \in Nat /\ Edge(k) > Len(data)
    BY <1>2, <1>8, <1>11
  <2>2. QED BY <1>8, <1>9, <2>1, NoPolls
<1>12. \A k \in 1 .. n : Object(whole, edge[k - 1], edge[k])
  <2>1. \A k \in 1 .. n : Object(whole, Edge(k - 1), Edge(k))
    BY DEF RowInv, LaidInv, whole, n
  <2>2. \A k \in 1 .. n : k \in 0 .. n /\ k - 1 \in 0 .. n
    BY <1>2
  <2>3. QED BY <1>6, <2>1, <2>2
<1>13. edge[n] + 1 <= Len(whole) => whole[edge[n] + 1][1] # "nyxo"
  <2>1. edge[n] = DataStart + Len(w.buf)
    <3>1. n \in 0 .. n
      BY <1>2
    <3>2. Edge(n) = DataStart + Len(w.buf)
      BY DEF RowInv, LaidInv, n
    <3>3. QED BY <1>6, <3>1, <3>2
  <2>2. QED BY <1>1, <1>7, <2>1
<1>14. ASSUME edge[m] <= cut
       PROVE  /\ \A k \in 0 .. m : PollAll(data, edge[k]) = Positions(edge, k, m)
              /\ \A k \in 1 .. m : CompleteEnd(data, edge[k - 1]) = edge[k]
  <2>1. m < n => cut < edge[m + 1]
    <3>1. m < n => m + 1 \in 0 .. n
      BY <1>2, <1>3
    <3>2. QED BY <1>3, <1>6, <3>1
  <2>2. IsSeq(whole) /\ Lengths(whole) /\ n \in Nat /\ edge \in [0 .. n -> Nat] /\ m \in 0 .. n
    BY <1>1, <1>2, <1>3
  <2>3. /\ \A k \in 0 .. m : PollAll(SubSeq(whole, 1, cut), edge[k]) = Positions(edge, k, m)
        /\ \A k \in 1 .. m : CompleteEnd(SubSeq(whole, 1, cut), edge[k - 1]) = edge[k]
    BY <1>5, <1>12, <1>13, <1>14, <2>1, <2>2, CutPolls, ZenonT(30)
  <2>4. QED BY <1>4, <2>3
<1>15. ASSUME NEW k \in 0 .. n, Edge(k) <= cut
       PROVE  k <= m /\ PollAll(data, Edge(k)) = Starts(k, m)
  <2>1. k <= m
    <3>1. CASE k = 0
      BY <1>3, <3>1
    <3>2. CASE k # 0
      <4>1. k \in 1 .. n
        BY <3>2
      <4>2. QED BY <1>3, <1>15, <4>1
    <3>3. QED BY <3>1, <3>2
  <2>2. edge[m] <= cut
    <3>1. CASE m = 0
      <4>1. k = 0 /\ 0 \in 0 .. n
        BY <1>2, <2>1, <3>1
      <4>2. QED BY <1>6, <1>15, <3>1, <4>1
    <3>2. CASE m # 0
      <4>1. m \in 1 .. n /\ m <= m
        BY <1>3, <3>2
      <4>2. Edge(m) <= cut
        BY <1>3, <4>1
      <4>3. QED BY <1>3, <1>6, <4>2
    <3>3. QED BY <3>1, <3>2
  <2>3. k \in 0 .. m
    BY <1>3, <2>1
  <2>4. PollAll(data, edge[k]) = Positions(edge, k, m)
    BY <1>14, <2>2, <2>3
  <2>5. Positions(edge, k, m) = Starts(k, m)
    <3>1. \A i \in 1 .. m - k : k + i - 1 \in 0 .. n
      BY <1>2, <1>3, <2>3
    <3>2. \A i \in 1 .. m - k : edge[k + i - 1] = Edge(k + i - 1)
      BY <1>6, <3>1
    <3>3. QED BY <3>2 DEF Positions, Starts
  <2>6. QED BY <1>6, <2>1, <2>4, <2>5
<1>16. ASSUME NEW k \in 1 .. m
       PROVE  CompleteEnd(data, Edge(k - 1)) = Edge(k)
  <2>1. k \in 0 .. n /\ k - 1 \in 0 .. n /\ m \in 1 .. n /\ m <= m
    BY <1>2, <1>3
  <2>2. edge[m] <= cut
    BY <1>3, <1>6, <2>1
  <2>3. CompleteEnd(data, edge[k - 1]) = edge[k]
    BY <1>14, <2>2
  <2>4. QED BY <1>6, <2>1, <2>3
<1>17. QED BY <1>10, <1>11, <1>15, <1>16 DEF data, n, m

----------------------------------------------------------------------------
(* Every step keeps it.                                                    *)

(* The reader's part, when the producer goes on.                           *)
LEMMA ReaderKept ==
  ASSUME RowInv, UNCHANGED readVars, ds' = ds \/ ds' = DataStart,
         Len(file') \in Nat, Len(file) <= Len(file'),
         Len(laid') \in Nat, Len(laid) <= Len(laid'), \A k \in 1 .. Len(laid) : laid'[k] = laid[k]
  PROVE  ReaderInv'
<1>1. /\ rpc \in {"poll", "scan", "check", "return"} /\ ds \in {0, DataStart}
      /\ view \in Nat /\ view <= Len(file)
  BY DEF RowInv, ReaderInv
<1>2. PICK k \in 0 .. Len(laid) :
        /\ got = Given(k)
        /\ k # 0 => Edge(k) <= Len(file)
        /\ (scan = 0 /\ k = 0) \/ (scan = Edge(k) /\ ds = DataStart)
  BY DEF RowInv, ReaderInv
<1>3. Len(laid) \in Nat /\ Len(file) \in Nat /\ \A j \in 0 .. Len(laid) : Edge(j) \in Nat
  BY EdgesAre, WholeIs
<1>4. \A j \in 0 .. Len(laid) : Edge(j)' = Edge(j)
  <2>1. \A j \in 0 .. Len(laid) : j = 0 \/ j \in 1 .. Len(laid)
    BY <1>3
  <2>2. QED BY <2>1 DEF Edge
<1>5. k \in 0 .. Len(laid') /\ Edge(k)' = Edge(k) /\ \A i \in 1 .. k : Edge(i - 1)' = Edge(i - 1)
  <2>1. k \in 0 .. Len(laid') /\ \A i \in 1 .. k : i - 1 \in 0 .. Len(laid)
    BY <1>3
  <2>2. QED BY <1>4, <2>1
<1>6. got' = Given(k)'
  <2>1. Given(k)' = Given(k)
    BY <1>5 DEF Given
  <2>2. QED BY <1>2, <2>1 DEF readVars
<1>7. k # 0 => Edge(k)' <= Len(file')
  BY <1>2, <1>3, <1>5
<1>8. (scan' = 0 /\ k = 0) \/ (scan' = Edge(k)' /\ ds' = DataStart)
  BY <1>2, <1>5 DEF readVars
<1>9. rpc' \in {"poll", "scan", "check", "return"} /\ ds' \in {0, DataStart} /\ view' \in Nat /\ view' <= Len(file')
  BY <1>1, <1>3 DEF readVars
<1>10. QED BY <1>5, <1>6, <1>7, <1>8, <1>9 DEF ReaderInv

(* The records' part, when none is begun.                                  *)
LEMMA LaidKept ==
  ASSUME RowInv, UNCHANGED <<w, laid>>,
         \A i \in 1 .. Len(file \o todo) : (file' \o todo')[i] = (file \o todo)[i]
  PROVE  LaidInv'
<1> DEFINE a == file \o todo
           b == file' \o todo'
<1>1. /\ laid \in Seq(Nat \X Nat) /\ Len(laid) <= Records
      /\ \A k \in 1 .. Len(laid) : laid[k][1] = Edge(k - 1) /\ Object(a, Edge(k - 1), Edge(k))
      /\ Edge(Len(laid)) = DataStart + Len(w.buf)
  BY DEF RowInv, LaidInv
<1>2. Len(laid) \in Nat /\ \A k \in 0 .. Len(laid) : Edge(k) \in Nat /\ Edge(k) <= DataStart + Len(w.buf)
  BY EdgesAre
<1>3. Len(a) \in Nat /\ DataStart + Len(w.buf) <= Len(a) /\ DataStart + Len(w.buf) \in Nat
  <2>1. Len(w.buf) \in Nat /\ DataStart \in Nat
    BY WholeIs, HeaderIs
  <2>2. /\ pc # "end" => Len(a) = DataStart + Len(w.buf)
        /\ pc = "end" => Len(a) = DataStart + Len(w.buf) + 2 * Len(laid) + 4
    BY WholeIs
  <2> HIDE DEF a
  <2>3. CASE pc = "end"
    <3>1. Len(laid) \in Nat
      BY <1>2
    <3>2. Len(a) = DataStart + Len(w.buf) + 2 * Len(laid) + 4
      BY <2>2, <2>3
    <3>3. \A x, y \in Nat : x + 2 * y + 4 \in Nat /\ x <= x + 2 * y + 4
      OBVIOUS
    <3>4. DataStart + Len(w.buf) \in Nat
      BY <2>1
    <3>5. Len(a) \in Nat /\ DataStart + Len(w.buf) <= Len(a)
      BY <3>1, <3>2, <3>3, <3>4
    <3>6. QED BY <3>4, <3>5
  <2>4. CASE pc # "end"
    BY <2>1, <2>2, <2>4
  <2>5. QED BY <2>3, <2>4
<1> HIDE DEF a, b
<1>4. \A k : Edge(k)' = Edge(k)
  BY DEF Edge
<1>5. ASSUME NEW k \in 1 .. Len(laid)
      PROVE  Object(b, Edge(k - 1), Edge(k))
  <2>1. Edge(k) \in Nat /\ Edge(k) <= Len(a)
    BY <1>2, <1>3
  <2>2. \A i \in 1 .. Edge(k) : i \in 1 .. Len(a)
    BY <1>3, <2>1
  <2>3. \A i \in 1 .. Edge(k) : b[i] = a[i]
    BY <2>2 DEF a, b
  <2>4. QED BY ZenonT(60), <1>1, <2>3, ObjectKept
<1>6. QED BY <1>1, <1>4, <1>5 DEF LaidInv, b

(* The file is empty and the header to be written.                         *)
LEMMA RowInitial == Init => RowInv
<1> SUFFICES ASSUME Init PROVE RowInv
  OBVIOUS
<1>1. /\ w = [buf |-> << >>, frames |-> << >>, offsets |-> << >>] /\ flushed = 0
      /\ file = << >> /\ todo = HeaderBytes /\ pc = "header" /\ ds = 0 /\ wd = FALSE
      /\ view = 0 /\ scan = 0 /\ got = << >> /\ rpc = "poll" /\ laid = << >>
  BY DEF Init, NewWriter
<1>2. IsSeq(<< >>) /\ Len(<< >>) = 0
  BY DEF IsSeq
<1>3. Buffer(<< >>)
  BY <1>2 DEF Buffer
<1>4. IsSeq(HeaderBytes) /\ DataStart \in Nat
  BY HeaderIs
<1>5. WriterInv
  BY <1>1, <1>2, <1>3 DEF WriterInv
<1>6. FileInv
  <2>1. << >> \o HeaderBytes = HeaderBytes \o << >>
    <3>1. PICK W : HeaderBytes \in Seq(W)
      BY <1>4 DEF IsSeq
    <3>2. QED BY <3>1
  <2>2. w.buf = << >>
    BY <1>1
  <2>3. QED BY <1>1, <1>2, <1>4, <2>1, <2>2 DEF FileInv
<1>7. LaidInv
  <2>1. Len(laid) = 0 /\ Len(w.buf) = 0 /\ laid \in Seq(Nat \X Nat)
    BY <1>1
  <2>2. 0 <= Records
    BY RowStreamAssumption
  <2>3. QED BY <1>4, <2>1, <2>2 DEF LaidInv, Edge
<1>8. PhaseInv
  <2>1. wd = (pc \in {"seal", "end"})
    <3>1. pc \notin {"seal", "end"} /\ wd = FALSE
      BY <1>1
    <3>2. (pc \in {"seal", "end"}) = FALSE
      BY <3>1
    <3>3. QED BY <3>1, <3>2, Zenon
  <2>2. Len(laid) < Records
    <3>1. Len(laid) = 0
      BY <1>1
    <3>2. QED BY <3>1, RowStreamAssumption
  <2>3. QED BY <1>1, <2>1, <2>2 DEF PhaseInv
<1>9. ReaderInv
  <2>1. Len(laid) = 0 /\ Len(file) = 0 /\ got = Given(0)
    BY <1>1 DEF Given
  <2>2. 0 \in 0 .. Len(laid) /\ view = 0 /\ scan = 0 /\ ds = 0 /\ rpc = "poll"
    BY <1>1, <2>1
  <2>3. QED BY <2>1, <2>2 DEF ReaderInv
<1>10. QED BY <1>5, <1>6, <1>7, <1>8, <1>9 DEF RowInv

(* A word is written.                                                      *)
LEMMA WritePartKeeps == RowInv /\ WritePart => RowInv'
<1> SUFFICES ASSUME RowInv, WritePart PROVE RowInv'
  OBVIOUS
<1>1. /\ todo # << >> /\ file' = Append(file, Head(todo)) /\ todo' = Tail(todo)
      /\ UNCHANGED <<w, flushed, pc, ds, wd, laid>> /\ UNCHANGED readVars
  BY DEF WritePart
<1>2. IsSeq(file) /\ IsSeq(todo)
  BY DEF RowInv, FileInv
<1>3. /\ IsSeq(file') /\ IsSeq(todo') /\ Len(file') = Len(file) + 1 /\ file' \o todo' = file \o todo
  BY <1>1, <1>2, PartWritten
<1>4. Len(file) \in Nat /\ Len(laid) \in Nat /\ DataStart \in Nat /\ flushed \in Nat
  BY WholeIs, EdgesAre, HeaderIs DEF RowInv, WriterInv
<1>5. WriterInv'
  BY <1>1 DEF RowInv, WriterInv
<1>6. FileInv'
  <2>1. Places' = Places
    BY <1>1 DEF Places
  <2>2. pc \notin {"ready", "seal"}
    BY <1>1 DEF RowInv, FileInv
  <2>3. pc # "header" => Len(file') >= DataStart + flushed
    BY <1>3, <1>4 DEF RowInv, FileInv
  <2>4. QED BY <1>1, <1>3, <2>1, <2>2, <2>3 DEF RowInv, FileInv
<1>7. LaidInv'
  BY <1>1, <1>3, LaidKept
<1>8. PhaseInv'
  BY <1>1 DEF RowInv, PhaseInv
<1>9. ReaderInv'
  BY <1>1, <1>3, <1>4, ReaderKept
<1>10. QED BY <1>5, <1>6, <1>7, <1>8, <1>9 DEF RowInv

(* The header is in the file.                                              *)
LEMMA HeaderWrittenKeeps == RowInv /\ HeaderWritten => RowInv'
<1> SUFFICES ASSUME RowInv, HeaderWritten PROVE RowInv'
  OBVIOUS
<1>1. /\ pc = "header" /\ todo = << >> /\ ds' = DataStart /\ pc' = "ready"
      /\ UNCHANGED <<w, flushed, file, todo, wd, laid>> /\ UNCHANGED readVars
  BY DEF HeaderWritten
<1>2. w.buf = << >> /\ laid = << >> /\ flushed \in Nat /\ flushed <= Len(w.buf)
  BY <1>1 DEF RowInv, WriterInv
<1>3. Len(w.buf) = 0 /\ flushed = 0
  BY <1>2
<1>4. Len(file) \in Nat /\ Len(laid) \in Nat /\ DataStart \in Nat
  BY WholeIs, EdgesAre, HeaderIs
<1>5. Len(file) = DataStart
  <2> DEFINE whole == file \o todo
  <2>1. Len(whole) = Len(file) + Len(todo) /\ Len(whole) = DataStart + Len(w.buf)
    BY <1>1, WholeIs
  <2>2. Len(todo) = 0
    BY <1>1
  <2> HIDE DEF whole
  <2>3. QED BY <1>3, <1>4, <2>1, <2>2
<1>6. WriterInv'
  BY <1>1, <1>3 DEF RowInv, WriterInv
<1>7. FileInv'
  BY <1>1, <1>3, <1>4, <1>5 DEF RowInv, FileInv
<1>8. LaidInv'
  BY <1>1, LaidKept
<1>9. PhaseInv'
  BY <1>1 DEF RowInv, PhaseInv
<1>10. ReaderInv'
  BY <1>1, <1>4, ReaderKept
<1>11. QED BY <1>6, <1>7, <1>8, <1>9, <1>10 DEF RowInv

(* What a buffer has grown by is put behind what was written of it.        *)
LEMMA GrownBy ==
  ASSUME NEW h, NEW b, NEW d, IsSeq(h), IsSeq(b), IsSeq(d), Len(b) <= Len(d),
         \A i \in 1 .. Len(b) : d[i] = b[i]
  PROVE  (h \o b) \o SubSeq(d, Len(b) + 1, Len(d)) = h \o d
<1> DEFINE t == SubSeq(d, Len(b) + 1, Len(d))
           hb == h \o b
           x == hb \o t
           y == h \o d
           nh == Len(h)
           nb == Len(b)
           nd == Len(d)
<1>1. /\ IsSeq(hb) /\ nh \in Nat /\ nb \in Nat /\ Len(hb) = nh + nb
      /\ \A i \in 1 .. nh : hb[i] = h[i]
      /\ \A i \in 1 .. nb : hb[nh + i] = b[i]
  BY Joined
<1>2. /\ IsSeq(y) /\ nd \in Nat /\ Len(y) = nh + nd
      /\ \A i \in 1 .. nh : y[i] = h[i]
      /\ \A i \in 1 .. nd : y[nh + i] = d[i]
  BY Joined
<1>3. nb <= nd /\ \A i \in 1 .. nb : d[i] = b[i]
  OBVIOUS
<1>4. IsSeq(t) /\ Len(t) = nd - nb /\ \A i \in 1 .. nd - nb : t[i] = d[nb + i]
  BY <1>1, LastWords
<1> HIDE DEF t, hb
<1>5. /\ IsSeq(x) /\ Len(x) = Len(hb) + Len(t)
      /\ \A i \in 1 .. Len(hb) : x[i] = hb[i]
      /\ \A i \in 1 .. Len(t) : x[Len(hb) + i] = t[i]
  <2>1. IsSeq(hb) /\ IsSeq(t)
    BY <1>1, <1>4
  <2>2. QED BY <2>1, Joined
<1> HIDE DEF x, y, nh, nb, nd
<1>6. Len(x) = nh + nd /\ Len(x) = Len(y)
  BY <1>1, <1>2, <1>3, <1>4, <1>5
<1>7. ASSUME NEW i \in 1 .. Len(x)
      PROVE  x[i] = y[i]
  <2>1. CASE i <= nh
    <3>1. i \in 1 .. nh /\ i \in 1 .. Len(hb)
      BY <1>1, <2>1
    <3>2. QED BY <1>1, <1>2, <1>5, <3>1
  <2>2. CASE nh < i /\ i <= nh + nb
    <3> DEFINE j == i - nh
    <3>1. j \in 1 .. nb /\ j \in 1 .. nd /\ nh + j = i /\ i \in 1 .. Len(hb)
      BY <1>1, <1>2, <1>3, <2>2
    <3> HIDE DEF j
    <3>2. x[i] = hb[i] /\ hb[nh + j] = b[j] /\ y[nh + j] = d[j] /\ d[j] = b[j]
      BY <1>1, <1>2, <1>3, <1>5, <3>1
    <3>3. QED BY <3>1, <3>2
  <2>3. CASE nh + nb < i
    <3> DEFINE j == i - (nh + nb)
    <3>1. j \in 1 .. nd - nb /\ nb + j \in 1 .. nd /\ nh + (nb + j) = i /\ (nh + nb) + j = i
      BY <1>1, <1>2, <1>3, <1>6, <2>3
    <3> HIDE DEF j
    <3>2. x[Len(hb) + j] = t[j] /\ t[j] = d[nb + j] /\ y[nh + (nb + j)] = d[nb + j]
      BY <1>2, <1>4, <1>5, <3>1
    <3>3. QED BY <1>1, <3>1, <3>2
  <2>4. QED BY <1>1, <1>6, <2>1, <2>2, <2>3
<1>8. x = y
  BY <1>2, <1>5, <1>6, <1>7, SameWords
<1>9. QED BY <1>8 DEF x, y, hb, t

(* A record is built in the writer's buffer and is to be written.          *)
LEMMA PutRecordKeeps == RowInv /\ PutRecord => RowInv'
<1> SUFFICES ASSUME RowInv, PutRecord PROVE RowInv'
  OBVIOUS
<1> DEFINE b == w.buf
           d == w'.buf
<1>0. PICK n \in Nat : n = Len(laid)
  BY EdgesAre
<1>1. /\ pc = "ready" /\ pc' = "flush"
      /\ laid' = Append(laid, <<Len(file), Len(file) + Len(todo')>>)
      /\ UNCHANGED <<flushed, file, ds, wd>> /\ UNCHANGED readVars
  BY DEF PutRecord
<1>2. w = [buf |-> w.buf, frames |-> << >>, offsets |-> w.offsets] /\ Buffer(b) /\ flushed = Len(b) /\ flushed \in Nat
  BY <1>1 DEF RowInv, WriterInv
<1>3. Built(w', b) /\ todo' = SubSeq(d, flushed + 1, Len(d))
  <2>1. PICK plan \in Plans :
          LET st == AfterCalls([w |-> w, written |-> written], << <<"begin">> >> \o plan \o << <<"end">> >>)
          IN  w' = st.w /\ written' = st.written /\ todo' = SubSeq(st.w.buf, flushed + 1, Len(st.w.buf))
    BY DEF PutRecord
  <2> DEFINE st == AfterCalls([w |-> w, written |-> written], << <<"begin">> >> \o plan \o << <<"end">> >>)
  <2>2. Built(st.w, w.buf)
    <3>1. w = [buf |-> w.buf, frames |-> << >>, offsets |-> w.offsets] /\ Buffer(w.buf)
      BY <1>2
    <3>2. QED BY <3>1, RecordBuilt
  <2>3. w' = st.w /\ todo' = SubSeq(st.w.buf, flushed + 1, Len(st.w.buf))
    BY <2>1
  <2> HIDE DEF st
  <2>4. QED BY <2>2, <2>3
<1>4. /\ w' = [buf |-> d, frames |-> << >>, offsets |-> w'.offsets] /\ Buffer(d)
      /\ \A i \in 1 .. Len(b) : d[i] = b[i]
      /\ Len(b) + HeadWords <= Len(d)
      /\ d[Len(b) + 1][1] = "nyxo" /\ d[Len(b) + 2][2] = Len(d) - Len(b)
  BY <1>3 DEF Built
<1> HIDE DEF b, d
<1>5. IsSeq(b) /\ IsSeq(d) /\ Len(b) \in Nat /\ Len(d) \in Nat /\ HeadWords \in Nat /\ HeadWords >= 4
      /\ Len(b) + 4 <= Len(d)
  BY <1>2, <1>4, HeadIsLong DEF Buffer, IsSeq
<1>6. DataStart \in Nat /\ IsSeq(HeaderBytes) /\ Len(HeaderBytes) = DataStart
  BY HeaderIs
<1>7. file = HeaderBytes \o b /\ todo = << >>
  <2>1. file \o todo = HeaderBytes \o b /\ todo = << >> /\ IsSeq(file)
    BY <1>1 DEF RowInv, FileInv, b
  <2>2. file \o << >> = file
    BY <2>1 DEF IsSeq
  <2>3. QED BY <2>1, <2>2
<1>8. /\ IsSeq(file) /\ Len(file) = DataStart + Len(b)
      /\ file \o todo = file
  <2>1. IsSeq(HeaderBytes \o b) /\ Len(HeaderBytes \o b) = Len(HeaderBytes) + Len(b)
    BY <1>5, <1>6, Joined
  <2>2. file \o << >> = file
    BY <1>7, <2>1 DEF IsSeq
  <2>3. QED BY <1>6, <1>7, <2>1, <2>2
<1>9. IsSeq(todo') /\ Len(todo') = Len(d) - Len(b) /\ file \o todo' = HeaderBytes \o d
  <2>1. todo' = SubSeq(d, Len(b) + 1, Len(d)) /\ Len(b) <= Len(d)
    BY <1>2, <1>3, <1>5
  <2>2. IsSeq(todo') /\ Len(todo') = Len(d) - Len(b)
    BY <1>5, <2>1, LastWords
  <2>3. (HeaderBytes \o b) \o SubSeq(d, Len(b) + 1, Len(d)) = HeaderBytes \o d
    BY <1>4, <1>5, <1>6, <2>1, GrownBy
  <2>4. QED BY <1>7, <2>1, <2>2, <2>3
<1>10. WriterInv'
  <2>1. flushed' \in Nat /\ flushed' <= Len(d)
    BY <1>1, <1>2, <1>5
  <2>2. QED BY <1>1, <1>4, <2>1 DEF WriterInv, d
<1>11. FileInv'
  <2>1. Len(file) >= DataStart + flushed
    BY <1>2, <1>5, <1>6, <1>8
  <2>2. file' \o todo' = HeaderBytes \o w'.buf
    BY <1>1, <1>9 DEF d
  <2>3. QED BY <1>1, <1>8, <1>9, <2>1, <2>2 DEF FileInv
<1>12. LaidInv'
  <2>1. /\ n \in Nat /\ \A k \in 0 .. n : Edge(k) \in Nat /\ Edge(k) <= DataStart + Len(b)
    BY <1>0, EdgesAre DEF b
  <2>2. /\ laid \in Seq(Nat \X Nat) /\ n < Records
        /\ \A k \in 1 .. n : laid[k][1] = Edge(k - 1) /\ Object(file, Edge(k - 1), Edge(k))
        /\ Edge(n) = DataStart + Len(b)
    BY <1>0, <1>1, <1>8 DEF RowInv, LaidInv, PhaseInv, b
  <2> DEFINE new == <<Len(file), Len(file) + Len(todo')>>
  <2>3. new \in Nat \X Nat /\ new[1] = DataStart + Len(b) /\ new[2] = DataStart + Len(d)
    BY <1>5, <1>6, <1>8, <1>9
  <2> HIDE DEF new
  <2>4. /\ laid' \in Seq(Nat \X Nat) /\ Len(laid') = n + 1
        /\ \A k \in 1 .. n : laid'[k] = laid[k]
        /\ laid'[n + 1] = new
    BY <1>0, <1>1, <2>2, <2>3 DEF new
  <2>5. \A k \in 0 .. n : Edge(k)' = Edge(k)
    <3>1. \A k \in 0 .. n : k = 0 \/ k \in 1 .. n
      BY <2>1
    <3>2. QED BY <2>4, <3>1 DEF Edge
  <2>6. Edge(n + 1)' = DataStart + Len(d)
    <3>1. n + 1 # 0
      BY <2>1
    <3>2. QED BY <2>3, <2>4, <3>1 DEF Edge
  <2> DEFINE whole == file \o todo'
  <2>7. /\ IsSeq(whole)
        /\ \A i \in 1 .. Len(file) : whole[i] = file[i]
        /\ \A i \in 1 .. Len(d) : whole[DataStart + i] = d[i]
    <3>1. /\ IsSeq(file \o todo') /\ \A i \in 1 .. Len(file) : (file \o todo')[i] = file[i]
      BY <1>8, <1>9, Joined
    <3>2. \A i \in 1 .. Len(d) : (HeaderBytes \o d)[Len(HeaderBytes) + i] = d[i]
      BY <1>5, <1>6, Joined
    <3>3. QED BY <1>6, <1>9, <3>1, <3>2
  <2> HIDE DEF whole
  <2>8. ASSUME NEW k \in 1 .. n
        PROVE  Object(whole, Edge(k - 1), Edge(k))
    <3>1. Object(file, Edge(k - 1), Edge(k)) /\ k \in 0 .. n
      BY <2>1, <2>2
    <3>2. \A i \in 1 .. Edge(k) : i \in 1 .. Len(file)
      BY <1>5, <1>6, <1>8, <2>1, <3>1
    <3>3. \A i \in 1 .. Edge(k) : whole[i] = file[i]
      BY <2>7, <3>2
    <3>4. QED BY <3>1, <3>3, ObjectKept
  <2>9. Object(whole, DataStart + Len(b), DataStart + Len(d))
    <3>1. Len(b) + 1 \in 1 .. Len(d) /\ Len(b) + 2 \in 1 .. Len(d)
      BY <1>5
    <3>2. /\ DataStart + (Len(b) + 1) = (DataStart + Len(b)) + 1
          /\ DataStart + (Len(b) + 2) = (DataStart + Len(b)) + 2
          /\ (DataStart + Len(d)) - (DataStart + Len(b)) = Len(d) - Len(b)
          /\ DataStart + Len(b) + 2 <= DataStart + Len(d)
          /\ DataStart + Len(b) \in Nat /\ DataStart + Len(d) \in Nat
      BY <1>5, <1>6
    <3>3. whole[(DataStart + Len(b)) + 1] = d[Len(b) + 1] /\ whole[(DataStart + Len(b)) + 2] = d[Len(b) + 2]
      BY <2>7, <3>1, <3>2
    <3>4. QED BY <1>4, <3>2, <3>3 DEF Object
  <2>10. ASSUME NEW k \in 1 .. n + 1
         PROVE  laid'[k][1] = Edge(k - 1)' /\ Object(file' \o todo', Edge(k - 1)', Edge(k)')
    <3>1. file' \o todo' = whole
      BY <1>1 DEF whole
    <3>2. CASE k = n + 1
      <4>1. k - 1 = n /\ n \in 0 .. n
        BY <2>1, <3>2
      <4>2. Edge(k - 1)' = DataStart + Len(b) /\ Edge(k)' = DataStart + Len(d)
        BY <2>2, <2>5, <2>6, <3>2, <4>1
      <4>3. QED BY <2>3, <2>4, <2>9, <3>1, <3>2, <4>2
    <3>3. CASE k # n + 1
      <4>1. k \in 1 .. n /\ k \in 0 .. n /\ k - 1 \in 0 .. n
        BY <2>1, <3>3
      <4>2. Edge(k - 1)' = Edge(k - 1) /\ Edge(k)' = Edge(k)
        BY <2>5, <4>1
      <4>3. QED BY <2>2, <2>4, <2>8, <3>1, <4>1, <4>2
    <3>4. QED BY <3>2, <3>3
  <2>11. Len(laid') <= Records
    BY <2>1, <2>2, <2>4, RowStreamAssumption
  <2>12. Edge(Len(laid))' = DataStart + Len(w'.buf)
    BY <2>4, <2>6 DEF d, Edge
  <2>13. \A k \in 1 .. Len(laid') : laid'[k][1] = Edge(k - 1)' /\ Object(file' \o todo', Edge(k - 1)', Edge(k)')
    BY <2>4, <2>10
  <2>14. QED BY <2>4, <2>11, <2>12, <2>13 DEF LaidInv
<1>13. PhaseInv'
  <2>1. wd = FALSE
    <3>1. wd = (pc \in {"seal", "end"})
      BY DEF RowInv, PhaseInv
    <3>2. (pc \in {"seal", "end"}) = FALSE
      BY <1>1
    <3>3. QED BY <3>1, <3>2, Zenon
  <2>2. (pc' \in {"seal", "end"}) = FALSE
    BY <1>1
  <2>3. wd' = (pc' \in {"seal", "end"})
    BY <1>1, <2>1, <2>2, Zenon
  <2>4. QED BY <1>1, <2>3 DEF PhaseInv
<1>14. ReaderInv'
  <2>1. laid \in Seq(Nat \X Nat) /\ n \in Nat /\ Len(file) \in Nat
    BY <1>0, WholeIs DEF RowInv, LaidInv
  <2>2. Len(laid') = n + 1 /\ \A k \in 1 .. n : laid'[k] = laid[k]
    <3> DEFINE new == <<Len(file), Len(file) + Len(todo')>>
    <3>1. laid' = Append(laid, new) /\ new \in Nat \X Nat
      BY <1>1, <1>5, <1>9, <2>1
    <3> HIDE DEF new
    <3>2. QED BY <1>0, <2>1, <3>1
  <2>3. QED BY <1>0, <1>1, <2>1, <2>2, ReaderKept
<1>15. QED BY <1>10, <1>11, <1>12, <1>13, <1>14 DEF RowInv

(* The record is in the file.                                              *)
LEMMA FlushedKeeps == RowInv /\ Flushed => RowInv'
<1> SUFFICES ASSUME RowInv, Flushed PROVE RowInv'
  OBVIOUS
<1>1. /\ pc = "flush" /\ todo = << >> /\ flushed' = Len(w.buf)
      /\ wd' = (Len(laid) = Records) /\ pc' = IF wd' THEN "seal" ELSE "ready"
      /\ UNCHANGED <<w, file, todo, ds, laid>> /\ UNCHANGED readVars
  BY DEF Flushed
<1>2. Len(file) \in Nat /\ Len(laid) \in Nat /\ DataStart \in Nat /\ Len(w.buf) \in Nat
  BY WholeIs, EdgesAre, HeaderIs
<1>3. Len(file) = DataStart + Len(w.buf)
  <2> DEFINE whole == file \o todo
  <2>1. Len(whole) = Len(file) + Len(todo) /\ Len(whole) = DataStart + Len(w.buf)
    BY <1>1, WholeIs
  <2>2. Len(todo) = 0
    BY <1>1
  <2> HIDE DEF whole
  <2>3. QED BY <1>2, <2>1, <2>2
<1>4. /\ wd' = (pc' \in {"seal", "end"}) /\ pc' \in {"ready", "seal"}
      /\ pc' = "ready" => Len(laid) # Records
      /\ pc' = "seal" => Len(laid) = Records
  <2>1. CASE Len(laid) = Records
    <3>1. wd' = TRUE /\ pc' = "seal"
      BY <1>1, <2>1
    <3>2. (pc' \in {"seal", "end"}) = TRUE
      BY <3>1
    <3>3. wd' = (pc' \in {"seal", "end"})
      BY <3>1, <3>2, Zenon
    <3>4. QED BY <2>1, <3>1, <3>3
  <2>2. CASE Len(laid) # Records
    <3>1. wd' = FALSE /\ pc' = "ready"
      BY <1>1, <2>2
    <3>2. (pc' \in {"seal", "end"}) = FALSE
      BY <3>1
    <3>3. wd' = (pc' \in {"seal", "end"})
      BY <3>1, <3>2, Zenon
    <3>4. QED BY <2>2, <3>1, <3>3
  <2>3. QED BY <2>1, <2>2
<1>5. WriterInv'
  BY <1>1, <1>2, <1>4 DEF RowInv, WriterInv
<1>6. FileInv'
  BY <1>1, <1>2, <1>3, <1>4 DEF RowInv, FileInv
<1>7. LaidInv'
  BY <1>1, LaidKept
<1>8. PhaseInv'
  <2>1. Len(laid) <= Records /\ Records \in Nat
    BY RowStreamAssumption DEF RowInv, LaidInv
  <2>2. Len(laid) # Records => Len(laid) < Records
    BY <1>2, <2>1
  <2>3. QED BY <1>1, <1>4, <2>2 DEF PhaseInv
<1>9. ReaderInv'
  BY <1>1, <1>2, ReaderKept
<1>10. QED BY <1>5, <1>6, <1>7, <1>8, <1>9 DEF RowInv

(* What the footer is given.                                               *)
LEMMA PlacesAre ==
  ASSUME RowInv
  PROVE  /\ Places \in Seq(Nat) /\ Len(Places) = Len(laid)
         /\ \A i \in 1 .. Len(laid) : Places[i] = Edge(i - 1)
<1>1. laid \in Seq(Nat \X Nat)
  BY DEF RowInv, LaidInv
<1>2. DOMAIN laid = 1 .. Len(laid) /\ Len(laid) \in Nat
  BY <1>1
<1>3. \A i \in 1 .. Len(laid) : laid[i][1] \in Nat /\ laid[i][1] = Edge(i - 1)
  BY <1>1 DEF RowInv, LaidInv
<1>4. Places = [i \in 1 .. Len(laid) |-> laid[i][1]]
  BY <1>2 DEF Places
<1>5. QED BY <1>2, <1>3, <1>4

(* The footer is to be written.                                            *)
LEMMA SealKeeps == RowInv /\ Seal => RowInv'
<1> SUFFICES ASSUME RowInv, Seal PROVE RowInv'
  OBVIOUS
<1>1. /\ pc = "seal" /\ pc' = "end" /\ todo' = Footer(Places, Len(file))
      /\ UNCHANGED <<w, flushed, file, ds, wd, laid>> /\ UNCHANGED readVars
  BY DEF Seal, Places
<1>2. Len(file) \in Nat /\ Len(laid) \in Nat /\ DataStart \in Nat /\ Len(w.buf) \in Nat
  BY WholeIs, EdgesAre, HeaderIs
<1>3. todo = << >> /\ IsSeq(file) /\ file \o todo = HeaderBytes \o w.buf
  BY <1>1 DEF RowInv, FileInv
<1>4. file \o todo = file
  BY <1>3 DEF IsSeq
<1>5. Len(file) = DataStart + Len(w.buf)
  <2> DEFINE whole == file \o todo
  <2>1. Len(whole) = DataStart + Len(w.buf)
    BY <1>1, WholeIs
  <2>2. QED BY <1>4, <2>1
<1>6. IsSeq(todo')
  BY <1>1, <1>2, PlacesAre, FooterIs
<1>7. WriterInv'
  BY <1>1 DEF RowInv, WriterInv
<1>8. FileInv'
  <2>1. Places' = Places
    BY <1>1 DEF Places
  <2>2. file' \o todo' = (HeaderBytes \o w'.buf) \o Footer(Places', DataStart + Len(w'.buf))
    BY <1>1, <1>3, <1>4, <1>5, <2>1
  <2>3. Len(file') >= DataStart + flushed'
    BY <1>1 DEF RowInv, FileInv
  <2>4. QED BY <1>1, <1>3, <1>6, <2>2, <2>3 DEF FileInv
<1>9. LaidInv'
  <2>1. \A i \in 1 .. Len(file) : (file \o todo')[i] = file[i]
    BY <1>3, <1>6, Joined
  <2>2. \A i \in 1 .. Len(file \o todo) : (file' \o todo')[i] = (file \o todo)[i]
    BY <1>1, <1>4, <2>1
  <2>3. UNCHANGED <<w, laid>>
    BY <1>1
  <2>4. QED BY <2>2, <2>3, LaidKept
<1>10. PhaseInv'
  <2>1. wd = TRUE
    <3>1. wd = (pc \in {"seal", "end"})
      BY DEF RowInv, PhaseInv
    <3>2. (pc \in {"seal", "end"}) = TRUE
      BY <1>1
    <3>3. QED BY <3>1, <3>2, Zenon
  <2>2. (pc' \in {"seal", "end"}) = TRUE
    BY <1>1
  <2>3. wd' = (pc' \in {"seal", "end"})
    BY <1>1, <2>1, <2>2, Zenon
  <2>4. QED BY <1>1, <2>3 DEF RowInv, PhaseInv
<1>11. ReaderInv'
  BY <1>1, <1>2, ReaderKept
<1>12. QED BY <1>7, <1>8, <1>9, <1>10, <1>11 DEF RowInv

(* The producer's part, when the reader goes on.                           *)
LEMMA ProducerKept ==
  ASSUME RowInv, UNCHANGED prodVars
  PROVE  WriterInv' /\ FileInv' /\ LaidInv' /\ PhaseInv' /\ \A k : Edge(k)' = Edge(k) /\ Given(k)' = Given(k)
<1>1. UNCHANGED <<w, flushed, file, todo, pc, wd, laid>>
  BY DEF prodVars
<1>2. \A k : Edge(k)' = Edge(k)
  BY <1>1 DEF Edge
<1>3. \A k : Given(k)' = Given(k)
  BY <1>2 DEF Given
<1>4. Places' = Places
  BY <1>1 DEF Places
<1>5. LaidInv'
  BY <1>1, LaidKept
<1>6. QED BY <1>1, <1>2, <1>3, <1>4, <1>5 DEF RowInv, WriterInv, FileInv, PhaseInv

(* Polling the file.                                                       *)
LEMMA PollKeeps == RowInv /\ Poll => RowInv'
<1> SUFFICES ASSUME RowInv, Poll PROVE RowInv'
  OBVIOUS
<1>1. view' = Len(file) /\ rpc' = "scan" /\ UNCHANGED <<ds, scan, got>> /\ UNCHANGED prodVars
  BY DEF Poll
<1>2. WriterInv' /\ FileInv' /\ LaidInv' /\ PhaseInv' /\ \A k : Edge(k)' = Edge(k) /\ Given(k)' = Given(k)
  BY <1>1, ProducerKept
<1>3. Len(file) \in Nat /\ file' = file /\ laid' = laid
  BY <1>1, WholeIs DEF prodVars
<1>4. ReaderInv'
  BY <1>1, <1>2, <1>3 DEF RowInv, ReaderInv
<1>5. QED BY <1>2, <1>4 DEF RowInv

(* Whether all was read.                                                   *)
LEMMA CheckKeeps == RowInv /\ Check => RowInv'
<1> SUFFICES ASSUME RowInv, Check PROVE RowInv'
  OBVIOUS
<1>1. rpc' \in {"poll", "return"} /\ UNCHANGED <<ds, view, scan, got>> /\ UNCHANGED prodVars
  BY DEF Check
<1>2. WriterInv' /\ FileInv' /\ LaidInv' /\ PhaseInv' /\ \A k : Edge(k)' = Edge(k) /\ Given(k)' = Given(k)
  BY <1>1, ProducerKept
<1>3. file' = file /\ laid' = laid
  BY <1>1 DEF prodVars
<1>4. ReaderInv'
  BY <1>1, <1>2, <1>3 DEF RowInv, ReaderInv
<1>5. QED BY <1>2, <1>4 DEF RowInv

(* A scan gives the reader the records that have become complete.          *)
LEMMA ScanStep ==
  ASSUME RowInv, Scan
  PROVE  \E k, m \in 0 .. Len(laid) :
           /\ got = Given(k) /\ got' = Given(m) /\ k <= m
           /\ m # 0 => Edge(m) <= Len(file)
           /\ ds' \in {0, DataStart}
           /\ (scan' = 0 /\ m = 0) \/ (scan' = Edge(m) /\ ds' = DataStart)
<1> DEFINE data == SubSeq(file, 1, view)
           opened == ds = 0 /\ Opens(data)
           from == IF opened THEN DataStart ELSE IF ds # 0 /\ scan = 0 THEN ds ELSE scan
           more == PollAll(data, from)
<1>1. /\ ds' = IF opened THEN DataStart ELSE ds
      /\ got' = got \o more
      /\ scan' = IF more = << >> THEN from ELSE CompleteEnd(data, Last(more))
  BY DEF Scan
<1>2. view \in Nat /\ view <= Len(file) /\ ds \in {0, DataStart}
  BY DEF RowInv, ReaderInv
<1>3. PICK k \in 0 .. Len(laid) :
        /\ got = Given(k)
        /\ k # 0 => Edge(k) <= Len(file)
        /\ (scan = 0 /\ k = 0) \/ (scan = Edge(k) /\ ds = DataStart)
  BY DEF RowInv, ReaderInv
<1>4. /\ Len(laid) \in Nat /\ Edge(0) = DataStart /\ \A j \in 0 .. Len(laid) : Edge(j) \in Nat /\ DataStart <= Edge(j)
  BY EdgesAre
<1>5. DataStart \in Nat /\ DataStart > 0 /\ Len(file) \in Nat
  BY HeaderIs, WholeIs
<1>6. /\ PollAll(data, 0) = << >>
      /\ \A j \in 0 .. Len(laid) : Edge(j) > view => PollAll(data, Edge(j)) = << >>
      /\ \A j \in 0 .. Len(laid) :
           Edge(j) <= view => j <= Seen(view) /\ PollAll(data, Edge(j)) = Starts(j, Seen(view))
      /\ \A j \in 1 .. Seen(view) : CompleteEnd(data, Edge(j - 1)) = Edge(j)
  BY <1>2, ScanIs
<1>7. PICK m \in 0 .. Len(laid) : m = Seen(view)
  BY <1>2, SeenIs
<1>8. \A j \in 1 .. Len(laid) : (j <= m) = (Edge(j) <= view)
  BY <1>2, <1>7, SeenIs
<1>9. got \o << >> = got
  <2>1. Given(k) \in Seq(Nat)
    <3>1. \A i \in 1 .. k : i - 1 \in 0 .. Len(laid)
      BY <1>4
    <3>2. QED BY <1>4, <3>1 DEF Given
  <2>2. QED BY <1>3, <2>1
<1> HIDE DEF data, opened
<1>10. CASE ~opened /\ ds = 0
  <2>1. scan = 0 /\ k = 0
    BY <1>3, <1>5, <1>10
  <2>2. from = 0
    BY <1>10, <2>1
  <2>3. more = << >>
    BY <1>6, <2>2
  <2> HIDE DEF from, more
  <2>4. ds' = 0 /\ scan' = 0 /\ got' = Given(0)
    BY <1>1, <1>3, <1>9, <1>10, <2>1, <2>2, <2>3
  <2>5. 0 \in 0 .. Len(laid) /\ 0 <= 0
    BY <1>4
  <2>6. QED BY <1>3, <2>1, <2>4, <2>5
<1>11. CASE opened \/ ds # 0
  <2>1. from = Edge(k) /\ ds' = DataStart
    <3>1. CASE opened
      <4>1. ds = 0
        BY <3>1 DEF opened
      <4>2. k = 0
        BY <1>3, <1>5, <4>1
      <4>3. QED BY <1>1, <1>4, <3>1, <4>2
    <3>2. CASE ~opened /\ ds # 0
      <4>1. ds = DataStart
        BY <1>2, <3>2
      <4>2. Edge(k) # 0
        BY <1>4, <1>5
      <4>3. from = Edge(k)
        BY <1>3, <1>4, <3>2, <4>1, <4>2
      <4> HIDE DEF from
      <4>4. QED BY <1>1, <3>2, <4>1, <4>3
    <3>3. QED BY <1>11, <3>1, <3>2
  <2>2. more = PollAll(data, Edge(k))
    BY <2>1
  <2> HIDE DEF from, more
  <2>3. ASSUME more = << >>
        PROVE  got' = Given(k) /\ scan' = Edge(k)
    BY <1>1, <1>3, <1>9, <2>1, <2>3
  <2>4. CASE more = << >>
    <3>1. k <= k
      BY <1>4
    <3>2. QED BY <1>3, <2>1, <2>3, <2>4, <3>1
  <2>5. CASE more # << >>
    <3>1. Edge(k) <= view
      BY <1>2, <1>4, <1>6, <2>2, <2>5
    <3>2. k <= m /\ more = Starts(k, m)
      BY <1>6, <1>7, <2>2, <3>1
    <3>3. k # m
      <4>1. Starts(m, m) = << >>
        BY <1>4 DEF Starts
      <4>2. QED BY <2>5, <3>2, <4>1
    <3>4. /\ m - k \in Nat /\ m - k >= 1 /\ m \in 1 .. Len(laid) /\ m \in 1 .. m
          /\ \A i \in 1 .. m - k : k + i - 1 \in 0 .. Len(laid)
          /\ k + (m - k) - 1 = m - 1
      BY <1>4, <3>2, <3>3
    <3>5. /\ more \in Seq(Nat) /\ Len(more) = m - k /\ \A i \in 1 .. m - k : more[i] = Edge(k + i - 1)
      BY <1>4, <3>2, <3>4 DEF Starts
    <3>6. Last(more) = Edge(m - 1)
      <4>1. Last(more) = more[m - k] /\ m - k \in 1 .. m - k
        BY <3>4, <3>5 DEF Last
      <4>2. QED BY <3>4, <3>5, <4>1
    <3>7. scan' = Edge(m)
      BY <1>1, <1>6, <1>7, <2>5, <3>4, <3>6
    <3>8. Edge(m) <= Len(file)
      <4>1. Edge(m) <= view /\ Edge(m) \in Nat
        BY <1>4, <1>8, <3>4
      <4>2. QED BY <1>2, <1>5, <4>1
    <3>9. Given(k) \o more = Given(m)
      <4>1. /\ Given(k) \in Seq(Nat) /\ Len(Given(k)) = k /\ \A i \in 1 .. k : Given(k)[i] = Edge(i - 1)
        <5>1. \A i \in 1 .. k : i - 1 \in 0 .. Len(laid)
          BY <1>4
        <5>2. QED BY <1>4, <5>1 DEF Given
      <4>2. /\ Given(m) \in Seq(Nat) /\ Len(Given(m)) = m /\ \A i \in 1 .. m : Given(m)[i] = Edge(i - 1)
        <5>1. \A i \in 1 .. m : i - 1 \in 0 .. Len(laid)
          BY <1>4
        <5>2. QED BY <1>4, <5>1 DEF Given
      <4> DEFINE both == Given(k) \o more
      <4>3. /\ both \in Seq(Nat) /\ Len(both) = Len(Given(k)) + Len(more)
            /\ \A i \in 1 .. Len(Given(k)) : both[i] = Given(k)[i]
            /\ \A i \in 1 .. Len(more) : both[Len(Given(k)) + i] = more[i]
        <5>1. \A a \in Seq(Nat), b \in Seq(Nat) :
                /\ a \o b \in Seq(Nat) /\ Len(a \o b) = Len(a) + Len(b)
                /\ \A i \in 1 .. Len(a) : (a \o b)[i] = a[i]
                /\ \A i \in 1 .. Len(b) : (a \o b)[Len(a) + i] = b[i]
          BY Behind
        <5>2. Given(k) \in Seq(Nat) /\ more \in Seq(Nat)
          BY <3>5, <4>1
        <5>3. QED BY <5>1, <5>2
      <4> HIDE DEF both
      <4>4. Len(both) = m
        BY <1>4, <3>4, <3>5, <4>1, <4>3
      <4>5. ASSUME NEW i \in 1 .. m
            PROVE  both[i] = Edge(i - 1)
        <5>1. CASE i <= k
          <6>1. i \in 1 .. k
            BY <5>1
          <6>2. QED BY <4>1, <4>3, <6>1
        <5>2. CASE ~(i <= k)
          <6>1. i - k \in 1 .. m - k /\ k + (i - k) = i /\ k + (i - k) - 1 = i - 1
            BY <5>2
          <6>2. both[k + (i - k)] = more[i - k] /\ more[i - k] = Edge(k + (i - k) - 1)
            BY <3>5, <4>1, <4>3, <6>1
          <6>3. QED BY <6>1, <6>2
        <5>3. QED BY <5>1, <5>2
      <4>6. both = Given(m)
        BY <4>2, <4>3, <4>4, <4>5, SameSeq
      <4>7. QED BY <4>6 DEF both
    <3>10. got' = Given(m)
      BY <1>1, <1>3, <3>9
    <3>11. QED BY <1>3, <2>1, <3>2, <3>7, <3>8, <3>10
  <2>6. QED BY <2>4, <2>5
<1>12. QED BY <1>10, <1>11

(* The reader takes what it was given.                                     *)
LEMMA ScanKeeps == RowInv /\ Scan => RowInv'
<1> SUFFICES ASSUME RowInv, Scan PROVE RowInv'
  OBVIOUS
<1>1. rpc' = "check" /\ view' = 0 /\ UNCHANGED prodVars
  BY DEF Scan
<1>2. WriterInv' /\ FileInv' /\ LaidInv' /\ PhaseInv' /\ \A k : Edge(k)' = Edge(k) /\ Given(k)' = Given(k)
  BY <1>1, ProducerKept
<1>3. Len(file) \in Nat /\ file' = file /\ laid' = laid
  BY <1>1, WholeIs DEF prodVars
<1>4. PICK m \in 0 .. Len(laid) :
        /\ got' = Given(m) /\ (m # 0 => Edge(m) <= Len(file))
        /\ ds' \in {0, DataStart} /\ ((scan' = 0 /\ m = 0) \/ (scan' = Edge(m) /\ ds' = DataStart))
  BY ScanStep
<1>5. ReaderInv'
  BY <1>1, <1>2, <1>3, <1>4 DEF ReaderInv
<1>6. QED BY <1>2, <1>5 DEF RowInv

(* Every state of the stream has it.                                       *)
THEOREM RowInvariant == SafetySpec => []RowInv
<1>1. ASSUME RowInv, UNCHANGED vars
      PROVE  RowInv'
  <2>1. UNCHANGED prodVars /\ UNCHANGED <<ds, view, scan, got, rpc>>
    BY <1>1 DEF vars, prodVars
  <2>2. WriterInv' /\ FileInv' /\ LaidInv' /\ PhaseInv' /\ \A k : Edge(k)' = Edge(k) /\ Given(k)' = Given(k)
    BY <1>1, <2>1, ProducerKept
  <2>3. file' = file /\ laid' = laid
    BY <2>1 DEF prodVars
  <2>4. ReaderInv'
    BY <1>1, <2>1, <2>2, <2>3 DEF RowInv, ReaderInv
  <2>5. QED BY <2>2, <2>4 DEF RowInv
<1>2. RowInv /\ [Next]_vars => RowInv'
  BY <1>1, WritePartKeeps, HeaderWrittenKeeps, PutRecordKeeps, FlushedKeeps, SealKeeps, PollKeeps,
     ScanKeeps, CheckKeeps DEF Next, Produce, Read
<1>3. QED BY <1>2, RowInitial, PTL DEF SafetySpec

----------------------------------------------------------------------------
(* What it says of the stream.                                             *)

(* The writer is left with no object open, the flushed part and the        *)
(* reader's view lie within what there is, and the reader scans from       *)
(* within the file or the start of its data.                               *)
THEOREM RowTypeCorrect == SafetySpec => []TypeOK
<1>1. RowInv => TypeOK
  <2> SUFFICES ASSUME RowInv PROVE TypeOK
    OBVIOUS
  <2>1. w = [buf |-> w.buf, frames |-> << >>, offsets |-> w.offsets] /\ flushed \in Nat /\ flushed <= Len(w.buf)
    BY DEF RowInv, WriterInv
  <2>2. /\ Len(w.buf) \in Nat /\ Len(file) \in Nat /\ DataStart \in Nat
    BY WholeIs, HeaderIs
  <2>3. w.frames = << >> /\ flushed \in 0 .. Len(w.buf)
    BY <2>1, <2>2
  <2>4. pc \in {"header", "ready", "flush", "seal", "end"} /\ wd \in BOOLEAN
    BY DEF RowInv, PhaseInv
  <2>5. rpc \in {"poll", "scan", "check", "return"} /\ ds \in {0, DataStart} /\ view \in 0 .. Len(file)
    BY <2>2 DEF RowInv, ReaderInv
  <2>6. scan \in 0 .. Len(file) + DataStart
    <3>1. PICK k \in 0 .. Len(laid) :
            /\ k # 0 => Edge(k) <= Len(file)
            /\ (scan = 0 /\ k = 0) \/ (scan = Edge(k) /\ ds = DataStart)
      BY DEF RowInv, ReaderInv
    <3>2. Edge(k) \in Nat /\ Edge(0) = DataStart
      BY EdgesAre
    <3>3. Edge(k) <= Len(file) + DataStart
      BY <2>2, <3>1, <3>2
    <3>4. QED BY <2>2, <3>1, <3>2, <3>3
  <2>7. QED BY <2>3, <2>4, <2>5, <2>6 DEF TypeOK
<1>2. QED BY <1>1, RowInvariant, PTL

(* The whole file opens as sealed.                                         *)
LEMMA WholeIsSealed ==
  ASSUME RowInv, pc = "end", todo = << >>
  PROVE  Sealed(file)
<1> DEFINE whole == file \o todo
           data == DataStart + Len(w.buf)
           r == Len(laid)
           n == Len(file)
           foot == Footer(Places, data)
<1>1. /\ n \in Nat /\ Len(todo) \in Nat /\ Len(w.buf) \in Nat
      /\ Len(whole) = n + Len(todo) /\ \A i \in 1 .. n : whole[i] = file[i]
      /\ Len(whole) = data + 2 * r + 4
      /\ \A i \in 1 .. 2 * r + 4 : whole[data + i] = foot[i]
  BY WholeIs
<1>2. Len(todo) = 0 /\ r \in Nat
  BY EdgesAre
<1>3. DataStart \in Nat /\ DataStart > 0
  BY HeaderIs
<1>4. data \in Nat /\ data > 0
  BY <1>1, <1>3
<1>5. Places \in Seq(Nat) /\ Len(Places) = r
  BY PlacesAre
<1>6. /\ foot[2 * r + 2] = <<"ptr", data>> /\ foot[2 * r + 3] = <<"pad", 0>>
      /\ foot[2 * r + 4] = <<"foot", 0>>
  <2> HIDE DEF data
  <2>1. data \in Nat
    BY <1>4
  <2>2. /\ foot[2 * Len(Places) + 2] = <<"ptr", data>> /\ foot[2 * Len(Places) + 3] = <<"pad", 0>>
        /\ foot[2 * Len(Places) + 4] = <<"foot", 0>>
    BY <1>5, <2>1, FooterIs, Zenon
  <2>3. r = Len(Places)
    BY <1>5
  <2> HIDE DEF foot, r
  <2>4. QED BY <2>2, <2>3
<1> HIDE DEF whole, data, r, n, foot
<1>7. n = data + (2 * r + 4)
  BY <1>1, <1>2, <1>4
<1>8. /\ n \in 1 .. n /\ n = data + (2 * r + 4) /\ 2 * r + 4 \in 1 .. 2 * r + 4
      /\ n - 1 \in 1 .. n /\ n - 1 = data + (2 * r + 3) /\ 2 * r + 3 \in 1 .. 2 * r + 4
      /\ n - 2 \in 1 .. n /\ n - 2 = data + (2 * r + 2) /\ 2 * r + 2 \in 1 .. 2 * r + 4
  BY <1>1, <1>2, <1>4, <1>7
<1>9. file[n] = <<"foot", 0>> /\ file[n - 1] = <<"pad", 0>> /\ file[n - 2] = <<"ptr", data>>
  BY <1>1, <1>6, <1>8
<1>10. SpellsFooter(file[n]) /\ Number(file[n - 1]) = 0 /\ Number(file[n - 2]) = 4 * data
  BY <1>9 DEF SpellsFooter, Number
<1>11. n >= 4 /\ 4 * data > 0 /\ 4 * data < 4 * n /\ 4 * n - 4 * data >= 16
  BY <1>2, <1>4, <1>7
<1>12. QED BY <1>10, <1>11 DEF Sealed, n

(* A file that opens as sealed and does not end in a value is all of the   *)
(* whole, and what it gives is every record.                               *)
LEMMA SealedWhole == RowInv => SealedIsComplete
<1> SUFFICES ASSUME RowInv, Sealed(file), ~EndsInValue(file)
             PROVE  LET n     == Len(file)
                        tail  == file[n - 2][2]
                        count == file[tail + 1][2]
                    IN  /\ Opens(file) /\ count = Records
                        /\ PollAll(file, DataStart) = [i \in 1 .. count |-> file[tail + 2 * i][2]]
                        /\ PollAll(file, DataStart) = [i \in DOMAIN laid |-> laid[i][1]]
  BY WholeIsSealed DEF SealedIsComplete
<1> DEFINE whole == file \o todo
           data == DataStart + Len(w.buf)
           r == Len(laid)
           n == Len(file)
           foot == Footer(Places, data)
<1>1. /\ n \in Nat /\ Len(todo) \in Nat /\ Len(w.buf) \in Nat
      /\ Len(whole) = n + Len(todo) /\ \A i \in 1 .. n : whole[i] = file[i]
      /\ pc # "end" => Len(whole) = data
      /\ pc = "end" => Len(whole) = data + 2 * r + 4
      /\ \A i \in 1 .. data : whole[i][1] # "foot"
      /\ pc = "end" => \A i \in 1 .. 2 * r + 4 : whole[data + i] = foot[i]
  BY WholeIs
<1>2. /\ r \in Nat /\ Edge(0) = DataStart /\ \A k \in 0 .. r : Edge(k) \in Nat /\ Edge(k) <= data
      /\ \A k \in 1 .. r : laid[k] = <<Edge(k - 1), Edge(k)>>
  BY EdgesAre
<1>3. DataStart \in Nat /\ DataStart >= Preamble + SchemaText
  BY HeaderIs
<1>4. data \in Nat /\ DataStart <= data
  BY <1>1, <1>3
<1>5. Places \in Seq(Nat) /\ Len(Places) = r /\ \A i \in 1 .. r : Places[i] = Edge(i - 1)
  BY PlacesAre
<1> HIDE DEF whole, data, r
<1>6. /\ foot[1] = <<"count", r>> /\ foot[2 * r + 2] = <<"ptr", data>>
      /\ Len(foot) = 2 * r + 4
      /\ \A i \in 1 .. r : foot[2 * i] = <<"entry", Places[i]>>
      /\ \A i \in 1 .. Len(foot) : i < Len(foot) => foot[i][1] # "foot"
  BY <1>4, <1>5, FooterIs
<1>7. n >= 4 /\ file[n][1] = "foot"
  <2>1. n >= 4 /\ SpellsFooter(file[n])
    BY DEF Sealed
  <2>2. file # << >> /\ Last(file) = file[n]
    BY <2>1 DEF Last
  <2>3. file[n][1] \notin {"val", "data"}
    BY <2>2 DEF EndsInValue
  <2>4. QED BY <2>1, <2>3 DEF SpellsFooter
<1> HIDE DEF n, foot
<1>8. whole[n][1] = "foot" /\ n > data
  <2>1. n \in 1 .. n
    BY <1>1, <1>7
  <2>2. whole[n][1] = "foot"
    BY <1>1, <1>7, <2>1
  <2>3. n \notin 1 .. data
    BY <1>1, <2>2
  <2>4. QED BY <1>1, <1>4, <1>7, <2>2, <2>3
<1>9. pc = "end"
  BY <1>1, <1>4, <1>8
<1>10. Len(whole) = data + (2 * r + 4) /\ \A i \in 1 .. 2 * r + 4 : whole[data + i] = foot[i]
  <2>1. data + 2 * r + 4 = data + (2 * r + 4)
    BY <1>2, <1>4
  <2>2. QED BY <1>1, <1>9, <2>1
<1>11. n = data + (2 * r + 4)
  <2> DEFINE j == n - data
  <2>1. j \in 1 .. 2 * r + 4 /\ data + j = n
    BY <1>1, <1>2, <1>4, <1>8, <1>10
  <2> HIDE DEF j
  <2>2. foot[j][1] = "foot"
    BY <1>8, <1>10, <2>1
  <2>3. ~(j < 2 * r + 4)
    BY <1>6, <2>1, <2>2
  <2>4. QED BY <1>2, <2>1, <2>3
<1>12. \A i \in 1 .. 2 * r + 4 : file[data + i] = foot[i]
  <2>1. \A i \in 1 .. 2 * r + 4 : data + i \in 1 .. n
    BY <1>2, <1>4, <1>11
  <2>2. QED BY <1>1, <1>10, <2>1
<1>13. file[n - 2][2] = data
  <2>1. n - 2 = data + (2 * r + 2) /\ 2 * r + 2 \in 1 .. 2 * r + 4
    BY <1>2, <1>4, <1>11
  <2>2. QED BY <1>6, <1>12, <2>1
<1>14. file[data + 1][2] = r /\ \A i \in 1 .. r : file[data + 2 * i][2] = Edge(i - 1)
  <2>1. 1 \in 1 .. 2 * r + 4 /\ \A i \in 1 .. r : 2 * i \in 1 .. 2 * r + 4
    BY <1>2
  <2>2. QED BY <1>5, <1>6, <1>12, <2>1
<1>15. r = Records
  BY <1>9 DEF RowInv, PhaseInv, r
<1>16. Opens(file)
  <2>1. Preamble + SchemaText \in Nat
    BY RowStreamAssumption DEF Preamble
  <2>2. QED BY <1>1, <1>3, <1>4, <1>8, <2>1 DEF Opens, n
<1>17. PollAll(file, DataStart) = Starts(0, r)
  <2>1. SubSeq(file, 1, n) = file
    <3>1. IsSeq(file)
      BY DEF RowInv, FileInv
    <3>2. QED BY <3>1 DEF IsSeq, n
  <2>2. n \in Nat /\ n <= Len(file)
    BY <1>1 DEF n
  <2>3. Edge(0) <= n /\ 0 \in 0 .. r
    BY <1>1, <1>2, <1>3, <1>4, <1>8
  <2>4. PollAll(SubSeq(file, 1, n), Edge(0)) = Starts(0, Seen(n))
    BY <2>2, <2>3, ScanIs DEF r
  <2>5. Seen(n) = r
    <3>1. Seen(n) \in 0 .. r /\ (Seen(n) < r => n < Edge(Seen(n) + 1))
      BY <1>1, SeenIs DEF r
    <3>2. Seen(n) < r => Seen(n) + 1 \in 0 .. r
      BY <1>2, <3>1
    <3>3. Seen(n) < r => Edge(Seen(n) + 1) \in Nat /\ Edge(Seen(n) + 1) <= data
      BY <1>2, <3>2
    <3>4. QED BY <1>1, <1>2, <1>4, <1>8, <3>1, <3>3
  <2>6. QED BY <1>2, <2>1, <2>4, <2>5
<1>18. Starts(0, r) = [i \in 1 .. r |-> Edge(i - 1)]
  <2>1. r - 0 = r /\ \A i \in 1 .. r : 0 + i - 1 = i - 1
    BY <1>2
  <2>2. QED BY <2>1 DEF Starts
<1>19. [i \in DOMAIN laid |-> laid[i][1]] = [i \in 1 .. r |-> Edge(i - 1)]
  <2>1. DOMAIN laid = 1 .. r
    BY DEF RowInv, LaidInv, r
  <2>2. QED BY <1>2, <2>1
<1>20. [i \in 1 .. r |-> file[data + 2 * i][2]] = [i \in 1 .. r |-> Edge(i - 1)]
  BY <1>14
<1>21. QED BY <1>13, <1>14, <1>15, <1>16, <1>17, <1>18, <1>19, <1>20 DEF n

(* The whole file opens as sealed; a cut of it that does, and does not end *)
(* within a value, has every record: polling it returns exactly those, and *)
(* the tail-index points at each.                                          *)
THEOREM SealedHasEveryRecord == SafetySpec => []SealedIsComplete
BY SealedWhole, RowInvariant, PTL

----------------------------------------------------------------------------
(* The reader follows the producer.                                        *)

(* The records given are the first ones.                                   *)
LEMMA GivenIs ==
  ASSUME RowInv, NEW m \in 0 .. Len(laid)
  PROVE  /\ Given(m) \in Seq(Nat) /\ Len(Given(m)) = m
         /\ \A i \in 1 .. m : Given(m)[i] = Edge(i - 1)
<1>1. Len(laid) \in Nat /\ \A k \in 0 .. Len(laid) : Edge(k) \in Nat
  BY EdgesAre
<1>2. \A i \in 1 .. m : i - 1 \in 0 .. Len(laid)
  BY <1>1
<1>3. QED BY <1>1, <1>2 DEF Given

(* Fewer of them are a prefix.                                             *)
LEMMA GivenGrows ==
  ASSUME RowInv, NEW m \in 0 .. Len(laid), NEW k \in 0 .. m
  PROVE  IsPrefix(Given(k), Given(m))
<1>1. Len(laid) \in Nat /\ k \in 0 .. Len(laid) /\ k \in Nat /\ m \in Nat /\ k <= m
  BY EdgesAre
<1>2. Given(m) \in Seq(Nat) /\ Len(Given(m)) = m /\ \A i \in 1 .. m : Given(m)[i] = Edge(i - 1)
  BY GivenIs
<1>3. Given(k) \in Seq(Nat) /\ Len(Given(k)) = k /\ \A i \in 1 .. k : Given(k)[i] = Edge(i - 1)
  BY <1>1, GivenIs
<1> DEFINE a == SubSeq(Given(k), 1, k)
           b == SubSeq(Given(m), 1, k)
<1>4. a \in Seq(Nat) /\ Len(a) = k /\ \A i \in 1 .. k : a[i] = Edge(i - 1)
  BY <1>1, <1>3
<1>5. b \in Seq(Nat) /\ Len(b) = k /\ \A i \in 1 .. k : b[i] = Edge(i - 1)
  <2>1. b \in Seq(Nat) /\ Len(b) = k /\ \A i \in 1 .. k : b[i] = Given(m)[i] /\ i \in 1 .. m
    BY <1>1, <1>2
  <2>2. QED BY <1>2, <2>1
<1> HIDE DEF a, b
<1>6. a = b
  BY <1>4, <1>5, SameSeq
<1>7. QED BY <1>1, <1>2, <1>3, <1>6 DEF IsPrefix, a, b

(* What the mapping takes as made are the records complete in the file.    *)
Mapped ==
  /\ Seen(Len(file)) \in 0 .. Len(laid)
  /\ CompleteAt = Given(Seen(Len(file)))
  /\ \A k \in 1 .. Len(laid) : (k <= Seen(Len(file))) = (Edge(k) <= Len(file))
  /\ \A k \in 1 .. Len(laid) : Edge(k) \in Nat /\ Edge(k - 1) + 2 <= Edge(k)

(* This holds in every state of the stream.                                *)
LEMMA MappedIs == RowInv => Mapped
<1> SUFFICES ASSUME RowInv PROVE Mapped
  OBVIOUS
<1>1. Len(file) \in Nat
  BY WholeIs
<1>2. PICK m \in 0 .. Len(laid) : m = Seen(Len(file))
  BY <1>1, SeenIs
<1>3. \A k \in 1 .. Len(laid) : (k <= Seen(Len(file))) = (Edge(k) <= Len(file))
  BY <1>1, SeenIs
<1>4. /\ Len(laid) \in Nat /\ \A k \in 1 .. Len(laid) : k \in 0 .. Len(laid)
      /\ \A k \in 0 .. Len(laid) : Edge(k) \in Nat
      /\ \A k \in 1 .. Len(laid) : Edge(k - 1) + 2 <= Edge(k) /\ laid[k] = <<Edge(k - 1), Edge(k)>>
  BY EdgesAre
<1>5. CompleteAt = Given(m)
  <2>1. Complete = SubSeq(laid, 1, m)
    BY <1>2 DEF Complete, Seen
  <2>2. laid \in Seq(Nat \X Nat)
    BY DEF RowInv, LaidInv
  <2>3. Complete \in Seq(Nat \X Nat) /\ Len(Complete) = m /\ \A i \in 1 .. m : Complete[i] = laid[i]
    BY <1>4, <2>1, <2>2
  <2>4. DOMAIN Complete = 1 .. m
    BY <2>3
  <2>5. \A i \in 1 .. m : i \in 1 .. Len(laid)
    BY <1>4
  <2>6. \A i \in 1 .. m : Complete[i][1] = Edge(i - 1)
    <3> SUFFICES ASSUME NEW i \in 1 .. m
                 PROVE  Complete[i][1] = Edge(i - 1)
      OBVIOUS
    <3>1. Complete[i] = laid[i] /\ i \in 1 .. Len(laid)
      BY <2>3, <2>5
    <3>2. laid[i] = <<Edge(i - 1), Edge(i)>>
      BY <1>4, <3>1
    <3>3. QED BY <3>1, <3>2
  <2>7. QED BY <2>4, <2>6 DEF CompleteAt, Given
<1>6. QED BY <1>2, <1>3, <1>4, <1>5 DEF Mapped

(* A word makes at most one more record complete, and only while the       *)
(* producer has not said that it is done.                                  *)
LEMMA WriteMakes ==
  ASSUME RowInv, Mapped, Mapped', WritePart
  PROVE  UNCHANGED <<got, wd>> /\ (CompleteAt' = CompleteAt \/ Items!Make)
<1>1. /\ todo # << >> /\ file' = Append(file, Head(todo))
      /\ UNCHANGED <<w, flushed, pc, ds, wd, laid, got>>
  BY DEF WritePart, readVars
<1>2. Len(file) \in Nat /\ Len(file') = Len(file) + 1
  <2>1. IsSeq(file) /\ IsSeq(todo)
    BY DEF RowInv, FileInv
  <2>2. QED BY <1>1, <2>1, WholeIs, PartWritten
<1>3. PICK n \in Nat : n = Len(laid)
  BY EdgesAre
<1>4. PICK m \in 0 .. n : m = Seen(Len(file))
  BY <1>3 DEF Mapped
<1>5. PICK p \in 0 .. n : p = Seen(Len(file))'
  BY <1>1, <1>3 DEF Mapped
<1>6. /\ \A k \in 1 .. n : (k <= m) = (Edge(k) <= Len(file))
      /\ \A k \in 1 .. n : Edge(k) \in Nat /\ Edge(k - 1) + 2 <= Edge(k)
  BY <1>3, <1>4 DEF Mapped
<1>7. \A k : Edge(k)' = Edge(k)
  BY <1>1 DEF Edge
<1>8. \A k \in 1 .. n : (k <= p) = (Edge(k) <= Len(file) + 1)
  <2>1. \A k \in 1 .. n : (k <= Seen(Len(file))') = (Edge(k)' <= Len(file'))
    BY <1>1, <1>3 DEF Mapped
  <2>2. QED BY <1>2, <1>5, <1>7, <2>1
<1>9. CompleteAt = Given(m) /\ CompleteAt' = Given(p)
  <2>1. CompleteAt = Given(m)
    BY <1>4 DEF Mapped
  <2>2. \A k : Given(k)' = Given(k)
    BY <1>7 DEF Given
  <2>3. Given(Seen(Len(file)))' = Given(p)
    BY <1>5, <1>7 DEF Given
  <2>4. QED BY <2>1, <2>3 DEF Mapped
<1>10. m <= p
  <2>1. CASE m = 0
    BY <2>1
  <2>2. CASE m # 0
    <3>1. m \in 1 .. n /\ m <= m
      BY <2>2
    <3>2. Edge(m) \in Nat /\ Edge(m) <= Len(file)
      BY <1>6, <3>1
    <3>3. Edge(m) <= Len(file) + 1
      BY <1>2, <3>2
    <3>4. QED BY <1>8, <3>1, <3>3
  <2>3. QED BY <2>1, <2>2
<1>11. p <= m + 1
  <2>1. SUFFICES ASSUME p >= m + 2 PROVE FALSE
    OBVIOUS
  <2>2. p \in 1 .. n /\ p <= p /\ p - 1 \in 1 .. n /\ ~(p - 1 <= m)
    BY <2>1
  <2>3. Edge(p) \in Nat /\ Edge(p - 1) \in Nat /\ Edge(p - 1) + 2 <= Edge(p) /\ Edge(p) <= Len(file) + 1
    BY <1>6, <1>8, <2>2
  <2>4. Edge(p - 1) <= Len(file)
    BY <1>2, <2>3
  <2>5. QED BY <1>6, <2>2, <2>4
<1>12. CASE p = m
  BY <1>1, <1>9, <1>12
<1>13. CASE p = m + 1
  <2>1. p \in 1 .. n /\ p <= p /\ ~(p <= m)
    BY <1>13
  <2>2. Edge(p) \in Nat /\ ~(Edge(p) <= Len(file))
    BY <1>6, <2>1
  <2>3. pc = "flush"
    <3>1. pc \in {"header", "ready", "flush", "seal", "end"} /\ pc \notin {"ready", "seal"}
      BY <1>1 DEF RowInv, PhaseInv, FileInv
    <3>2. pc # "header"
      <4>1. pc = "header" => Len(laid) = 0
        BY DEF RowInv, WriterInv
      <4>2. QED BY <1>3, <2>1, <4>1
    <3>3. pc # "end"
      <4>1. SUFFICES ASSUME pc = "end" PROVE FALSE
        OBVIOUS
      <4>2. Len(file) >= DataStart + Len(w.buf)
        BY <4>1 DEF RowInv, FileInv, WriterInv
      <4>3. Edge(p) <= DataStart + Len(w.buf) /\ DataStart \in Nat /\ Len(w.buf) \in Nat
        BY <1>3, <2>1, EdgesAre, HeaderIs, WholeIs
      <4>4. QED BY <1>2, <2>2, <4>2, <4>3
    <3>4. QED BY <3>1, <3>2, <3>3
  <2>4. wd = FALSE
    <3>1. wd = (pc \in {"seal", "end"})
      BY DEF RowInv, PhaseInv
    <3>2. (pc \in {"seal", "end"}) = FALSE
      BY <2>3
    <3>3. QED BY <3>1, <3>2, Zenon
  <2>5. /\ Len(Given(m)) = m /\ Len(Given(p)) = m + 1
    BY <1>3, <1>13, GivenIs
  <2>6. IsPrefix(Given(m), Given(p))
    BY <1>3, <1>10, GivenGrows
  <2>7. Items!Make
    <3>1. CompleteAt' # CompleteAt /\ IsPrefix(CompleteAt, CompleteAt') /\ Len(CompleteAt') = Len(CompleteAt) + 1
      BY <1>9, <2>5, <2>6
    <3>2. QED BY <1>1, <2>4, <3>1 DEF Items!Make, Items!IsPrefix, IsPrefix
  <2>8. QED BY <1>1, <2>7
<1>14. QED BY <1>10, <1>11, <1>12, <1>13

(* A record that is begun is not complete in the file.                     *)
LEMMA PutMakesNothing ==
  ASSUME RowInv, RowInv', Mapped, Mapped', PutRecord
  PROVE  UNCHANGED <<CompleteAt, got, wd>>
<1>1. /\ pc = "ready" /\ laid' = Append(laid, <<Len(file), Len(file) + Len(todo')>>)
      /\ UNCHANGED <<flushed, file, ds, wd, got>>
  BY DEF PutRecord, readVars
<1>2. Len(file) \in Nat /\ laid \in Seq(Nat \X Nat)
  BY WholeIs DEF RowInv, LaidInv
<1>3. PICK n \in Nat : n = Len(laid)
  BY EdgesAre
<1>4. laid' \in Seq(Nat \X Nat)
  BY DEF RowInv, LaidInv
<1>5. Len(laid') = n + 1 /\ (\A k \in 1 .. n : laid'[k] = laid[k]) /\ laid'[n + 1][1] = Len(file)
  <2> DEFINE new == <<Len(file), Len(file) + Len(todo')>>
  <2>1. laid' = Append(laid, new) /\ new[1] = Len(file)
    BY <1>1
  <2> HIDE DEF new
  <2>2. Len(laid') = n + 1 /\ (\A k \in 1 .. n : laid'[k] = laid[k]) /\ laid'[n + 1] = new
    BY <1>2, <1>3, <2>1
  <2>3. QED BY <2>1, <2>2
<1>6. \A k \in 0 .. n : Edge(k)' = Edge(k)
  <2>1. \A k \in 0 .. n : k = 0 \/ k \in 1 .. n
    OBVIOUS
  <2>2. QED BY <1>5, <2>1 DEF Edge
<1>7. PICK m \in 0 .. n : m = Seen(Len(file))
  BY <1>3 DEF Mapped
<1>8. PICK p \in 0 .. n + 1 : p = Seen(Len(file))'
  BY <1>5 DEF Mapped
<1>9. /\ \A k \in 1 .. n : (k <= m) = (Edge(k) <= Len(file))
  BY <1>3, <1>7 DEF Mapped
<1>10. /\ \A k \in 1 .. n + 1 : (k <= p) = (Edge(k)' <= Len(file))
       /\ \A k \in 1 .. n + 1 : Edge(k)' \in Nat /\ Edge(k - 1)' + 2 <= Edge(k)'
  BY <1>1, <1>5, <1>8 DEF Mapped
<1>11. Edge(n)' = Len(file)
  <2>1. \A k \in 1 .. Len(laid') : laid'[k][1] = Edge(k - 1)'
    BY DEF RowInv, LaidInv
  <2>2. n + 1 \in 1 .. Len(laid') /\ (n + 1) - 1 = n
    BY <1>5
  <2>3. laid'[n + 1][1] = Edge((n + 1) - 1)'
    BY <2>1, <2>2
  <2>4. QED BY <1>5, <2>2, <2>3
<1>12. p # n + 1
  <2>1. SUFFICES ASSUME p = n + 1 PROVE FALSE
    OBVIOUS
  <2>2. n + 1 \in 1 .. n + 1 /\ n + 1 <= p /\ (n + 1) - 1 = n
    BY <2>1
  <2>3. Edge(n + 1)' <= Len(file) /\ Edge(n + 1)' \in Nat /\ Edge((n + 1) - 1)' + 2 <= Edge(n + 1)'
    BY <1>10, <2>2
  <2>4. Edge((n + 1) - 1)' = Edge(n)'
    BY <2>2
  <2>5. QED BY <1>2, <1>11, <2>3, <2>4
<1>13. \A k \in 1 .. n : (k <= p) = (k <= m)
  <2>1. \A k \in 1 .. n : k \in 1 .. n + 1 /\ k \in 0 .. n
    OBVIOUS
  <2>2. QED BY <1>6, <1>9, <1>10, <2>1
<1>14. p = m
  <2>1. p \in 0 .. n
    BY <1>12
  <2>2. CASE p < m
    <3>1. m \in 1 .. n /\ m <= m /\ ~(m <= p)
      BY <2>1, <2>2
    <3>2. QED BY <1>13, <3>1
  <2>3. CASE m < p
    <3>1. p \in 1 .. n /\ p <= p /\ ~(p <= m)
      BY <2>1, <2>3
    <3>2. QED BY <1>13, <3>1
  <2>4. QED BY <2>1, <2>2, <2>3
<1>15. CompleteAt' = CompleteAt
  <2>1. CompleteAt = Given(m)
    BY <1>7 DEF Mapped
  <2>2. \A i \in 1 .. m : i - 1 \in 0 .. n
    OBVIOUS
  <2>3. CompleteAt' = [i \in 1 .. m |-> Edge(i - 1)']
    BY <1>8, <1>14 DEF Mapped, Given
  <2>4. QED BY <1>6, <2>1, <2>2, <2>3 DEF Given
<1>16. QED BY <1>1, <1>15

(* A scan shows the reader records that are complete, behind those it has. *)
LEMMA ScanSees ==
  ASSUME RowInv, Mapped, Scan
  PROVE  UNCHANGED <<CompleteAt, wd>> /\ (got' = got \/ Items!See)
<1>1. UNCHANGED <<file, laid, wd>>
  BY DEF Scan, prodVars
<1>2. CompleteAt' = CompleteAt
  BY <1>1 DEF CompleteAt, Complete
<1>3. PICK k \in 0 .. Len(laid), m \in 0 .. Len(laid) :
        got = Given(k) /\ got' = Given(m) /\ k <= m /\ (m # 0 => Edge(m) <= Len(file))
  BY ScanStep
<1>4. Len(laid) \in Nat
  BY EdgesAre
<1>5. PICK s \in 0 .. Len(laid) : s = Seen(Len(file)) /\ CompleteAt = Given(s)
  BY DEF Mapped
<1>6. m <= s
  <2>1. CASE m = 0
    BY <1>4, <2>1
  <2>2. CASE m # 0
    <3>1. m \in 1 .. Len(laid)
      BY <1>4, <2>2
    <3>2. QED BY <1>3, <1>5, <2>2, <3>1 DEF Mapped
  <2>3. QED BY <2>1, <2>2
<1>7. CASE k = m
  BY <1>1, <1>2, <1>3, <1>7
<1>8. CASE k # m
  <2>1. k < m /\ k < s /\ k \in 0 .. m /\ m \in 0 .. s
    BY <1>3, <1>4, <1>6, <1>8
  <2>2. Len(Given(k)) = k /\ Len(Given(m)) = m /\ Len(Given(s)) = s
    BY GivenIs
  <2>3. IsPrefix(Given(k), Given(m)) /\ IsPrefix(Given(m), Given(s))
    BY <2>1, GivenGrows
  <2>4. Len(CompleteAt) > Len(got) /\ got' # got /\ IsPrefix(got, got') /\ IsPrefix(got', CompleteAt)
    BY <1>3, <1>4, <1>5, <2>1, <2>2, <2>3
  <2>5. Items!See
    BY <1>1, <1>2, <2>4 DEF Items!See, Items!IsPrefix, IsPrefix
  <2>6. QED BY <1>1, <1>2, <2>5
<1>9. QED BY <1>7, <1>8

(* In the end the producer says that it is done.                           *)
LEMMA FlushCloses ==
  ASSUME RowInv, Flushed
  PROVE  UNCHANGED <<CompleteAt, got>> /\ (wd' = wd \/ Items!Close)
<1>1. pc = "flush" /\ UNCHANGED <<file, laid, got>> /\ wd' = (Len(laid) = Records)
  BY DEF Flushed, readVars
<1>2. CompleteAt' = CompleteAt
  BY <1>1 DEF CompleteAt, Complete
<1>3. wd = FALSE
  <2>1. wd = (pc \in {"seal", "end"})
    BY DEF RowInv, PhaseInv
  <2>2. (pc \in {"seal", "end"}) = FALSE
    BY <1>1
  <2>3. QED BY <2>1, <2>2, Zenon
<1>4. wd' = FALSE \/ wd' = TRUE
  BY <1>1
<1>5. QED BY <1>1, <1>2, <1>3, <1>4 DEF Items!Close

(* A reader that polls the growing file is given whole records, all of     *)
(* them, in order and once: the stream implements ItemStream.              *)
THEOREM ReaderIsGivenRecords == SafetySpec => ReaderFollows
<1>1. Init => Items!Init
  <2> SUFFICES ASSUME Init PROVE Items!Init
    OBVIOUS
  <2>1. laid = << >> /\ got = << >> /\ wd = FALSE
    BY DEF Init
  <2>2. RowInv
    BY RowInitial
  <2>3. PICK m \in 0 .. Len(laid) : CompleteAt = Given(m)
    BY <2>2, MappedIs DEF Mapped
  <2>4. CompleteAt = << >>
    <3>1. m = 0
      BY <2>1
    <3>2. QED BY <2>3, <3>1 DEF Given
  <2>5. QED BY <2>1, <2>4 DEF Items!Init
<1>2. ASSUME RowInv, RowInv', Mapped, Mapped', [Next]_vars
      PROVE  [Items!Next]_(Items!vars)
  <2>1. CASE WritePart
    BY <1>2, <2>1, WriteMakes DEF Items!Next, Items!vars
  <2>2. CASE PutRecord
    BY <1>2, <2>2, PutMakesNothing DEF Items!vars
  <2>3. CASE Flushed
    BY <1>2, <2>3, FlushCloses DEF Items!Next, Items!vars
  <2>4. CASE Scan
    BY <1>2, <2>4, ScanSees DEF Items!Next, Items!vars
  <2>5. CASE HeaderWritten \/ Seal \/ Poll \/ Check \/ UNCHANGED vars
    <3>1. UNCHANGED <<file, laid, got, wd>>
      BY <2>5 DEF HeaderWritten, Seal, Poll, Check, vars, readVars, prodVars
    <3>2. QED BY <3>1 DEF Items!vars, CompleteAt, Complete
  <2>6. QED BY <1>2, <2>1, <2>2, <2>3, <2>4, <2>5 DEF Next, Produce, Read
<1>3. QED BY <1>1, <1>2, RowInvariant, MappedIs, PTL DEF SafetySpec, ReaderFollows, Items!Safe

----------------------------------------------------------------------------
(* The slots of an object, in the order of its offset table.               *)

(* So many different values as there are arguments.                        *)
LEMMA AsMany ==
  ASSUME NEW D, IsFiniteSet(D), NEW f, \A x, y \in D : f[x] = f[y] => x = y
  PROVE  /\ IsFiniteSet({f[x] : x \in D})
         /\ Cardinality({f[x] : x \in D}) = Cardinality(D)
<1> DEFINE T == {f[x] : x \in D}
           g == [x \in D |-> f[x]]
<1>1. g \in Bijection(D, T)
  <2>1. g \in [D -> T] /\ \A t \in T : \E x \in D : g[x] = t
    OBVIOUS
  <2>2. \A x, y \in D : g[x] = g[y] => x = y
    OBVIOUS
  <2>3. QED BY <2>1, <2>2 DEF Bijection, Injection, Surjection, IsInjective
<1>2. ExistsBijection(D, T)
  BY <1>1 DEF ExistsBijection
<1>3. QED BY <1>2, FS_Bijection

(* The place of a number among those of a set.                             *)
Rank(S, t) == Cardinality({u \in S : u < t})

(* What stands at a number's rank is that number.                          *)
LEMMA InOrderIs ==
  ASSUME NEW n \in Nat, NEW S, S \subseteq 0 .. n
  PROVE  /\ Cardinality(S) \in Nat /\ DOMAIN InOrder(S) = 1 .. Cardinality(S)
         /\ \A k \in 1 .. Cardinality(S) : InOrder(S)[k] \in S /\ Rank(S, InOrder(S)[k]) = k - 1
         /\ \A t \in S : Rank(S, t) + 1 \in 1 .. Cardinality(S) /\ InOrder(S)[Rank(S, t) + 1] = t
<1> DEFINE size == Cardinality(S)
<1>1. /\ size \in Nat
      /\ \A p \in S : Rank(S, p) \in 0 .. size - 1
      /\ \A p, q \in S : Rank(S, p) = Rank(S, q) => p = q
      /\ \A k \in 0 .. size - 1 : \E p \in S : Rank(S, p) = k
  BY Ranked DEF Rank
<1>2. InOrder(S) = [k \in 1 .. size |-> CHOOSE t \in S : Rank(S, t) = k - 1]
  BY DEF InOrder, Rank
<1> HIDE DEF size
<1>3. ASSUME NEW k \in 1 .. size
      PROVE  InOrder(S)[k] \in S /\ Rank(S, InOrder(S)[k]) = k - 1
  <2>1. k - 1 \in 0 .. size - 1
    BY <1>1
  <2>2. InOrder(S)[k] = CHOOSE t \in S : Rank(S, t) = k - 1
    BY <1>2
  <2>3. QED BY <1>1, <2>1, <2>2
<1>4. ASSUME NEW t \in S
      PROVE  Rank(S, t) + 1 \in 1 .. size /\ InOrder(S)[Rank(S, t) + 1] = t
  <2> DEFINE k == Rank(S, t) + 1
  <2>1. Rank(S, t) \in 0 .. size - 1
    BY <1>1
  <2>2. k \in 1 .. size /\ k - 1 = Rank(S, t)
    BY <1>1, <2>1
  <2> HIDE DEF k
  <2>3. InOrder(S)[k] \in S /\ Rank(S, InOrder(S)[k]) = Rank(S, t)
    BY <1>3, <2>2
  <2>4. InOrder(S)[k] = t
    BY <1>1, <2>3
  <2>5. QED BY <2>2, <2>4 DEF k
<1>5. QED BY <1>1, <1>2, <1>3, <1>4 DEF size

(* The slots of places, each written once.                                 *)
SlotsOf(p) == {p[i][1] : i \in DOMAIN p}
Once(p) == \A i, j \in DOMAIN p : p[i][1] = p[j][1] => i = j

(* The rank of a place's slot counts the places of lower slots.            *)
LEMMA RankOfPlace ==
  ASSUME NEW p \in Seq(Slots \X Nat), Once(p)
  PROVE  /\ SlotsOf(p) \subseteq 0 .. Keys /\ Cardinality(SlotsOf(p)) = Len(p)
         /\ \A i \in 1 .. Len(p) :
              Rank(SlotsOf(p), p[i][1]) = Cardinality({j \in 1 .. Len(p) : p[j][1] < p[i][1]})
<1> DEFINE n == Len(p)
           D == 1 .. n
           f == [i \in D |-> p[i][1]]
<1>1. n \in Nat /\ DOMAIN p = D /\ \A i \in D : p[i][1] \in Slots
  OBVIOUS
<1>2. Keys \in Nat
  BY RowWriterAssumption
<1>3. SlotsOf(p) \subseteq 0 .. Keys
  BY <1>1, <1>2 DEF SlotsOf, Slots
<1>4. IsFiniteSet(D) /\ Cardinality(D) = n
  BY <1>1, FS_Interval
<1> HIDE DEF D
<1>5. \A x, y \in D : f[x] = f[y] => x = y
  BY <1>1 DEF Once
<1>6. ASSUME NEW E, E \subseteq D
      PROVE  Cardinality({p[x][1] : x \in E}) = Cardinality(E)
  <2>1. IsFiniteSet(E) /\ \A x, y \in E : f[x] = f[y] => x = y
    BY <1>4, <1>5, <1>6, FS_Subset
  <2>2. {f[x] : x \in E} = {p[x][1] : x \in E}
    BY <1>6
  <2> HIDE DEF f
  <2>3. Cardinality({f[x] : x \in E}) = Cardinality(E)
    BY <2>1, AsMany
  <2>4. QED BY <2>2, <2>3
<1>7. SlotsOf(p) = {p[x][1] : x \in D}
  BY <1>1 DEF SlotsOf
<1>8. Cardinality(SlotsOf(p)) = n
  BY <1>4, <1>6, <1>7
<1>9. ASSUME NEW i \in D
      PROVE  Rank(SlotsOf(p), p[i][1]) = Cardinality({j \in D : p[j][1] < p[i][1]})
  <2> DEFINE E == {j \in D : p[j][1] < p[i][1]}
  <2>1. {u \in SlotsOf(p) : u < p[i][1]} = {p[x][1] : x \in E}
    BY <1>7
  <2>2. Cardinality({p[x][1] : x \in E}) = Cardinality(E)
    BY <1>6
  <2>3. QED BY <2>1, <2>2 DEF Rank
<1>10. QED BY <1>3, <1>8, <1>9 DEF D

(* Places in the order of their slots stand at their slots' ranks.         *)
LEMMA RankWhenAscending ==
  ASSUME NEW p \in Seq(Slots \X Nat), Once(p),
         \A i, j \in 1 .. Len(p) : i < j => p[i][1] < p[j][1]
  PROVE  \A i \in 1 .. Len(p) : Rank(SlotsOf(p), p[i][1]) + 1 = i
<1> DEFINE n == Len(p)
<1> SUFFICES ASSUME NEW i \in 1 .. n
             PROVE  Rank(SlotsOf(p), p[i][1]) + 1 = i
  OBVIOUS
<1>1. n \in Nat /\ \A j \in 1 .. n : p[j][1] \in Int
  BY RowWriterAssumption DEF Slots
<1>2. {j \in 1 .. n : p[j][1] < p[i][1]} = 1 .. i - 1
  <2>1. ASSUME NEW j \in 1 .. n
        PROVE  p[j][1] < p[i][1] <=> j < i
    <3>1. i < j => p[i][1] < p[j][1]
      OBVIOUS
    <3>2. j < i => p[j][1] < p[i][1]
      OBVIOUS
    <3>3. p[j][1] \in Int /\ p[i][1] \in Int
      BY <1>1
    <3>4. j = i => ~(p[j][1] < p[i][1])
      BY <3>3
    <3>5. j \in Int /\ i \in Int
      OBVIOUS
    <3>6. QED BY <3>1, <3>2, <3>3, <3>4, <3>5
  <2>2. QED BY <1>1, <2>1
<1>3. Cardinality(1 .. i - 1) = i - 1
  BY FS_Interval
<1>4. Rank(SlotsOf(p), p[i][1]) = i - 1
  BY <1>2, <1>3, RankOfPlace
<1>5. QED BY <1>4

(* So do the sorted ones.                                                  *)
LEMMA RankWhenSorted ==
  ASSUME NEW p \in Seq(Slots \X Nat), Once(p)
  PROVE  /\ DOMAIN BySlot(p) = 1 .. Len(p)
         /\ \A i \in 1 .. Len(p) : /\ Rank(SlotsOf(p), p[i][1]) + 1 \in 1 .. Len(p)
                                   /\ BySlot(p)[Rank(SlotsOf(p), p[i][1]) + 1] = p[i]
<1> DEFINE n == Len(p)
           S == SlotsOf(p)
           Before(i) == {j \in DOMAIN p : \/ p[j][1] < p[i][1]
                                          \/ p[j][1] = p[i][1] /\ j < i}
<1>1. n \in Nat /\ DOMAIN p = 1 .. n
  OBVIOUS
<1>2. /\ S \subseteq 0 .. Keys /\ Cardinality(S) = n
      /\ \A i \in 1 .. n : Rank(S, p[i][1]) = Cardinality({j \in 1 .. n : p[j][1] < p[i][1]})
  BY RankOfPlace
<1>3. BySlot(p) = [k \in 1 .. n |-> p[CHOOSE i \in 1 .. n : Cardinality(Before(i)) = k - 1]]
  BY <1>1 DEF BySlot
<1>4. \A i \in 1 .. n : Cardinality(Before(i)) = Rank(S, p[i][1])
  <2> SUFFICES ASSUME NEW i \in 1 .. n
               PROVE  Before(i) = {j \in 1 .. n : p[j][1] < p[i][1]}
    BY <1>2
  <2>1. \A j \in 1 .. n : p[j][1] = p[i][1] => j = i
    BY <1>1 DEF Once
  <2>2. ~(i < i)
    BY <1>1
  <2>3. QED BY <1>1, <2>1, <2>2
<1>5. Keys \in Nat
  BY RowWriterAssumption
<1> HIDE DEF Before, S
<1>6. /\ \A s \in S : Rank(S, s) \in 0 .. n - 1
      /\ \A s, t \in S : Rank(S, s) = Rank(S, t) => s = t
  BY <1>2, <1>5, Ranked DEF Rank
<1>7. \A i \in 1 .. n : p[i][1] \in S
  BY <1>1 DEF S, SlotsOf
<1> HIDE DEF n
<1>8. ASSUME NEW i \in 1 .. n
      PROVE  Rank(S, p[i][1]) + 1 \in 1 .. n /\ BySlot(p)[Rank(S, p[i][1]) + 1] = p[i]
  <2> DEFINE k == Rank(S, p[i][1]) + 1
             c == CHOOSE j \in 1 .. n : Cardinality(Before(j)) = k - 1
  <2>1. Rank(S, p[i][1]) \in 0 .. n - 1
    BY <1>6, <1>7
  <2>2. k \in 1 .. n /\ k - 1 = Rank(S, p[i][1])
    BY <1>1, <2>1
  <2> HIDE DEF k
  <2>3. c \in 1 .. n /\ Cardinality(Before(c)) = k - 1
    <3>1. Cardinality(Before(i)) = k - 1
      BY <1>4, <2>2
    <3>2. QED BY <3>1
  <2>4. BySlot(p)[k] = p[c]
    BY <1>3, <2>2
  <2> HIDE DEF c
  <2>5. Rank(S, p[c][1]) = Rank(S, p[i][1])
    BY <1>4, <2>2, <2>3
  <2>6. p[c][1] = p[i][1]
    BY <1>6, <1>7, <2>3, <2>5
  <2>7. c = i
    BY <1>1, <2>3, <2>6 DEF Once
  <2>8. QED BY <2>2, <2>4, <2>7 DEF k
<1>9. DOMAIN BySlot(p) = 1 .. n
  BY <1>3
<1>10. QED BY <1>8, <1>9 DEF n, S

(* What is sorted are places.                                              *)
LEMMA SortedPlaces ==
  ASSUME NEW p \in Seq(Slots \X Nat), Once(p)
  PROVE  \A j \in 1 .. Len(p) : BySlot(p)[j] \in Slots \X Nat
<1> DEFINE n == Len(p)
           S == SlotsOf(p)
<1>1. /\ S \subseteq 0 .. Keys /\ Cardinality(S) = n /\ Keys \in Nat /\ n \in Nat
  BY RankOfPlace, RowWriterAssumption
<1> SUFFICES ASSUME NEW j \in 1 .. n
             PROVE  BySlot(p)[j] \in Slots \X Nat
  OBVIOUS
<1>2. PICK t \in S : Rank(S, t) = j - 1
  <2>1. j - 1 \in 0 .. Cardinality(S) - 1
    BY <1>1
  <2> HIDE DEF S
  <2>2. \A k \in 0 .. Cardinality(S) - 1 : \E t \in S : Rank(S, t) = k
    BY <1>1, Ranked DEF Rank
  <2>3. QED BY <2>1, <2>2
<1>3. PICK i \in 1 .. n : t = p[i][1]
  BY DEF SlotsOf
<1>4. Rank(S, p[i][1]) + 1 = j
  BY <1>2, <1>3
<1>5. BySlot(p)[j] = p[i]
  BY <1>4, RankWhenSorted
<1>6. QED BY <1>5

(* The mask has a bit for each slot.                                       *)
LEMMA MaskCovers ==
  /\ Keys <= MaskBytes * MaskBits /\ MaskBytes * MaskBits \in Nat
  /\ \A t \in 0 .. MaskBytes * MaskBits - 1 : t \div MaskBits \in 0 .. MaskBytes - 1
  /\ \A t \in Nat : t \div MaskBits \in Nat /\ t % MaskBits \in Nat
                    /\ t = MaskBits * (t \div MaskBits) + (t % MaskBits)
<1>1. PICK m \in Nat \ {0} : m = MaskBits
  BY RowWriterAssumption
<1>2. PICK k \in Nat \ {0} : k = Keys
  BY RowWriterAssumption
<1>3. PICK q \in Nat \ {0} : q = MaskBytes
  BY HeadIsLong
<1>4. \A t \in Nat : /\ t \div m \in Int /\ t % m \in 0 .. m - 1 /\ t = m * (t \div m) + (t % m)
                     /\ t \div m >= 0
  BY <1>1
<1>5. k <= m * q
  <2> DEFINE a == k + m - 1
  <2>1. a \in Nat
    OBVIOUS
  <2>2. q = a \div m
    BY <1>1, <1>2, <1>3 DEF MaskBytes
  <2>3. a = m * q + (a % m) /\ a % m \in 0 .. m - 1
    BY <1>4, <2>1, <2>2
  <2> DEFINE r == a % m
             p == m * q
  <2>4. a = p + r /\ r \in 0 .. m - 1 /\ p \in Int
    BY <2>3
  <2> HIDE DEF r, p
  <2>5. k <= p
    BY <2>4
  <2>6. QED BY <2>5 DEF p
<1>6. q * m = m * q /\ m * q \in Nat
  OBVIOUS
<1>7. ASSUME NEW t \in 0 .. m * q - 1
      PROVE  t \div m \in 0 .. q - 1
  <2> DEFINE c == t \div m
  <2>1. t \in Nat /\ t < m * q
    BY <1>6
  <2>2. c \in Nat /\ m * c <= t
    <3> DEFINE x == m * c
               y == t % m
    <3>1. c \in Int /\ c >= 0 /\ t = x + y /\ y \in 0 .. m - 1 /\ x \in Int
      BY <1>4, <2>1
    <3> HIDE DEF x, y, c
    <3>2. c \in Nat /\ x <= t
      BY <2>1, <3>1
    <3>3. QED BY <3>2 DEF x
  <2> HIDE DEF c
  <2>3. ASSUME c >= q
        PROVE  FALSE
    <3> DEFINE e == c - q
    <3>1. e \in Nat /\ c = q + e
      BY <2>2, <2>3
    <3> HIDE DEF e
    <3>2. m * (q + e) = m * q + m * e /\ m * e \in Nat
      BY <3>1
    <3>3. m * c >= m * q
      BY <1>6, <3>1, <3>2
    <3>4. QED BY <1>6, <2>1, <2>2, <3>3
  <2>4. c \in 0 .. q - 1
    BY <2>2, <2>3
  <2>5. QED BY <2>4 DEF c
<1>8. QED BY <1>1, <1>2, <1>3, <1>4, <1>5, <1>6, <1>7

(* A slot's bit is in the mask.                                            *)
LEMMA SlotHasBit ==
  ASSUME NEW s \in Slots
  PROVE  s \in 0 .. MaskBytes * MaskBits - 1 /\ s \in Nat /\ s \div MaskBits \in 0 .. MaskBytes - 1
<1>1. PICK k \in Nat : k = Keys
  BY RowWriterAssumption
<1>2. PICK n \in Nat : n = MaskBytes * MaskBits
  BY MaskCovers
<1>3. s \in 0 .. k - 1 /\ k <= n
  BY <1>1, <1>2, MaskCovers DEF Slots
<1>4. s \in 0 .. n - 1 /\ s \in Nat
  BY <1>3
<1>5. QED BY <1>2, <1>4, MaskCovers

(* A bit set in the mask is one slot more.                                 *)
LEMMA BitSet ==
  ASSUME NEW mask \in Masks, NEW s \in Slots
  PROVE  Present([mask EXCEPT ![s \div MaskBits] = [mask[s \div MaskBits] EXCEPT !.bits = @ \cup {s % MaskBits}]])
           = Present(mask) \cup {s}
<1> DEFINE b == s \div MaskBits
           new == [mask EXCEPT ![b] = [mask[b] EXCEPT !.bits = @ \cup {s % MaskBits}]]
           A == 0 .. MaskBytes * MaskBits - 1
<1>1. /\ s \in A /\ s \in Nat /\ b \in 0 .. MaskBytes - 1 /\ b \in Nat /\ s % MaskBits \in Nat
      /\ s = MaskBits * b + (s % MaskBits)
  BY SlotHasBit, MaskCovers
<1>2. \A t \in A : /\ t \div MaskBits \in 0 .. MaskBytes - 1 /\ t \in Nat
                   /\ t = MaskBits * (t \div MaskBits) + (t % MaskBits)
  <2>1. \A t \in A : t \in Nat
    BY MaskCovers
  <2>2. QED BY <2>1, MaskCovers
<1> DEFINE r == s % MaskBits
<1> HIDE DEF b, r, A
<1>3. ASSUME NEW c \in 0 .. MaskBytes - 1
      PROVE  new[c].bits = IF c = b THEN mask[c].bits \cup {r} ELSE mask[c].bits
  <2>1. mask[c] \in [bits : SUBSET Int, more : BOOLEAN] /\ new = [mask EXCEPT ![b] = [mask[b] EXCEPT !.bits = @ \cup {r}]]
    BY DEF Masks, r
  <2> DEFINE cell == [mask[b] EXCEPT !.bits = @ \cup {r}]
  <2>2. mask \in [0 .. MaskBytes - 1 -> [bits : SUBSET Int, more : BOOLEAN]]
    BY DEF Masks
  <2>3. c = b => cell.bits = mask[c].bits \cup {r}
    BY <2>1
  <2> HIDE DEF cell
  <2>4. new[c] = IF c = b THEN cell ELSE mask[c]
    BY <2>1, <2>2 DEF cell
  <2> HIDE DEF new
  <2>5. c = b => new[c].bits = mask[c].bits \cup {r}
    BY <2>3, <2>4
  <2>6. c # b => new[c].bits = mask[c].bits
    BY <2>4
  <2>7. QED BY <2>5, <2>6
<1> HIDE DEF new
<1>4. ASSUME NEW t \in A
      PROVE  (t % MaskBits) \in new[t \div MaskBits].bits
               <=> (t % MaskBits) \in mask[t \div MaskBits].bits \/ t = s
  <2> DEFINE c == t \div MaskBits
             e == t % MaskBits
  <2>1. c \in 0 .. MaskBytes - 1 /\ t = MaskBits * c + e
    BY <1>2
  <2>2. new[c].bits = IF c = b THEN mask[c].bits \cup {r} ELSE mask[c].bits
    BY <1>3, <2>1
  <2>3. s = MaskBits * b + r
    BY <1>1 DEF r
  <2>4. t = s => c = b /\ e = r
    BY DEF b, r
  <2> HIDE DEF c, e
  <2>5. c = b /\ e = r => t = s
    BY <2>1, <2>3
  <2>6. e \in new[c].bits <=> e \in mask[c].bits \/ t = s
    BY <2>2, <2>4, <2>5
  <2>7. QED BY <2>6 DEF c, e
<1>5. Present(new) = {t \in A : (t % MaskBits) \in new[t \div MaskBits].bits}
      /\ Present(mask) = {t \in A : (t % MaskBits) \in mask[t \div MaskBits].bits}
  BY DEF Present, A
<1>6. Present(new) = Present(mask) \cup {s}
  BY <1>1, <1>4, <1>5
<1>7. QED BY <1>6 DEF new, b

----------------------------------------------------------------------------
(* What a frame knows of its object.                                       *)

(* Its mask, its entries and its places say the same.                      *)
Marks(f) ==
  /\ f \in Frames /\ Once(f.places) /\ Len(f.table) = Len(f.places)
  /\ \A i \in 1 .. Len(f.places) : f.table[i] = (f.places[i][2] - f.start) % OffMod
  /\ Present(f.mask) = SlotsOf(f.places)
  /\ \A c \in 0 .. MaskBytes - 1 : f.mask[c].more = (c < MaskBytes - 1)
  /\ ~f.sort => /\ \A i, j \in 1 .. Len(f.places) : i < j => f.places[i][1] < f.places[j][1]
                /\ \A i \in 1 .. Len(f.places) : f.places[i][1] <= f.last

(* It does when the object is begun.                                       *)
LEMMA MarksBegin ==
  ASSUME NEW at \in Nat
  PROVE  Marks(NewFrame(at))
<1> DEFINE f == NewFrame(at)
<1>1. NewMask \in Masks /\ \A c \in 0 .. MaskBytes - 1 : NewMask[c].more = (c < MaskBytes - 1) /\ NewMask[c].bits = {}
  BY HeadIsLong DEF NewMask, Masks
<1>2. f = [start |-> at, mask |-> NewMask, table |-> << >>, last |-> -1, sort |-> FALSE, places |-> << >>]
  BY DEF NewFrame
<1> HIDE DEF f
<1>3. f.mask = NewMask /\ f.places = << >> /\ f.table = << >> /\ f.start = at
  BY <1>2
<1>4. Present(NewMask) = {}
  BY <1>1, MaskCovers DEF Present
<1>5. SlotsOf(f.places) = {} /\ Once(f.places) /\ Len(f.places) = 0 /\ Len(f.table) = 0
  BY <1>3 DEF SlotsOf, Once
<1>6. f \in Frames
  BY <1>1, <1>2 DEF Frames
<1>7. QED BY <1>1, <1>3, <1>4, <1>5, <1>6 DEF Marks, f

(* A slot not yet written adds its bit, its entry and its place.           *)
LEMMA MarksWritten ==
  ASSUME NEW u, u.frames \in Seq(Frames), u.frames # << >>, Len(u.buf) \in Nat, NEW s \in Slots,
         Marks(Last(u.frames)), s \notin SlotsOf(Last(u.frames).places)
  PROVE  Marks(MarkSlot(u, s))
<1> DEFINE f == Last(u.frames)
           g == MarkSlot(u, s)
           b == s \div MaskBits
           at == Len(u.buf)
           cell == [f.mask[b] EXCEPT !.bits = @ \cup {s % MaskBits}]
<1>1. /\ f \in Frames /\ g \in Frames /\ g.start = f.start
      /\ g.mask = [f.mask EXCEPT ![b] = cell]
      /\ g.table = Append(f.table, (at - f.start) % OffMod)
      /\ g.last = s /\ g.sort = (f.sort \/ s < f.last)
      /\ g.places = Append(f.places, <<s, at>>)
  BY Marked
<1> HIDE DEF g
<1>2. /\ Once(f.places) /\ Len(f.table) = Len(f.places)
      /\ \A i \in 1 .. Len(f.places) : f.table[i] = (f.places[i][2] - f.start) % OffMod
      /\ Present(f.mask) = SlotsOf(f.places)
      /\ \A c \in 0 .. MaskBytes - 1 : f.mask[c].more = (c < MaskBytes - 1)
      /\ ~f.sort => /\ \A i, j \in 1 .. Len(f.places) : i < j => f.places[i][1] < f.places[j][1]
                    /\ \A i \in 1 .. Len(f.places) : f.places[i][1] <= f.last
      /\ s \notin SlotsOf(f.places)
  BY DEF Marks
<1>3. f.mask \in Masks /\ f.table \in Seq(Int) /\ f.places \in Seq(Slots \X Nat) /\ f.start \in Nat
      /\ f.last \in Int /\ f.sort \in BOOLEAN
  BY <1>1 DEF Frames
<1> DEFINE p == f.places
           q == g.places
           n == Len(p)
<1>4. Present(g.mask) = Present(f.mask) \cup {s}
  BY <1>1, <1>3, BitSet
<1>5. \A c \in 0 .. MaskBytes - 1 : g.mask[c].more = (c < MaskBytes - 1)
  <2> SUFFICES ASSUME NEW c \in 0 .. MaskBytes - 1
               PROVE  g.mask[c].more = f.mask[c].more
    BY <1>2
  <2>1. f.mask \in [0 .. MaskBytes - 1 -> [bits : SUBSET Int, more : BOOLEAN]]
    BY <1>3 DEF Masks
  <2>2. c = b => cell.more = f.mask[c].more
    BY <2>1
  <2> HIDE DEF cell
  <2>3. g.mask[c] = IF c = b THEN cell ELSE f.mask[c]
    BY <1>1, <2>1
  <2>4. QED BY <2>2, <2>3
<1> HIDE DEF f, b, cell, at
<1>6. /\ n \in Nat /\ Len(q) = n + 1 /\ q[n + 1] = <<s, at>> /\ \A i \in 1 .. n : q[i] = p[i]
      /\ DOMAIN q = 1 .. n + 1 /\ DOMAIN p = 1 .. n
      /\ Len(g.table) = n + 1 /\ g.table[n + 1] = (at - f.start) % OffMod
      /\ \A i \in 1 .. n : g.table[i] = f.table[i]
  <2>1. <<s, at>> \in Slots \X Nat
    BY DEF at
  <2>2. (at - f.start) % OffMod \in Int
    BY SMTT(60), <1>3, RowWriterAssumption DEF at
  <2> DEFINE x == <<s, at>>
             y == (at - f.start) % OffMod
  <2> HIDE DEF x, y
  <2>3. /\ n \in Nat /\ Len(q) = n + 1 /\ q[n + 1] = x /\ \A i \in 1 .. n : q[i] = p[i]
        /\ DOMAIN q = 1 .. n + 1 /\ DOMAIN p = 1 .. n
    <3>1. q = Append(p, x) /\ p \in Seq(Slots \X Nat) /\ x \in Slots \X Nat
      BY <1>1, <1>3, <2>1 DEF x
    <3> HIDE DEF p, q
    <3>2. QED BY <3>1
  <2>4. /\ Len(g.table) = n + 1 /\ g.table[n + 1] = y
        /\ \A i \in 1 .. n : g.table[i] = f.table[i]
    <3> DEFINE a == f.table
               c == g.table
    <3>1. c = Append(a, y) /\ a \in Seq(Int) /\ y \in Int /\ Len(a) = n
      BY <1>1, <1>2, <1>3, <2>2 DEF y
    <3> HIDE DEF a, c
    <3>2. n \in Nat /\ Len(c) = n + 1 /\ c[n + 1] = y /\ \A i \in 1 .. n : c[i] = a[i]
      BY <3>1
    <3>3. QED BY <3>2 DEF a, c
  <2>5. QED BY <2>3, <2>4 DEF x, y
<1> HIDE DEF n, p, q
<1>7. \A i \in 1 .. n + 1 : i \in 1 .. n \/ i = n + 1
  BY <1>6
<1>8. q[n + 1][1] = s /\ q[n + 1][2] = at
  BY <1>6
<1>9. SlotsOf(q) = SlotsOf(p) \cup {s}
  <2>1. \A x : x \in SlotsOf(q) <=> \E i \in 1 .. n + 1 : x = q[i][1]
    BY <1>6 DEF SlotsOf
  <2>2. \A x : x \in SlotsOf(p) <=> \E i \in 1 .. n : x = p[i][1]
    BY <1>6 DEF SlotsOf
  <2>3. n + 1 \in 1 .. n + 1 /\ \A i \in 1 .. n : i \in 1 .. n + 1
    BY <1>6
  <2>4. \A x : x \in SlotsOf(q) <=> x \in SlotsOf(p) \/ x = s
    BY <1>6, <1>7, <1>8, <2>1, <2>2, <2>3
  <2>5. QED BY <2>4
<1>10. \A i \in 1 .. n : p[i][1] # s /\ p[i][1] \in Int
  <2>1. \A i \in 1 .. n : p[i][1] # s
    BY <1>2, <1>6 DEF SlotsOf, p
  <2>2. \A i \in 1 .. n : p[i] \in Slots \X Nat
    BY <1>3 DEF n, p
  <2>3. \A x \in Slots : x \in Int
    BY RowWriterAssumption DEF Slots
  <2>4. QED BY <2>1, <2>2, <2>3
<1>11. Once(q)
  <2>1. \A i, j \in 1 .. n : p[i][1] = p[j][1] => i = j
    BY <1>2, <1>6 DEF Once, p
  <2>2. QED BY <1>6, <1>7, <1>8, <1>10, <2>1 DEF Once
<1>12. \A i \in 1 .. n + 1 : g.table[i] = (q[i][2] - g.start) % OffMod
  <2>1. \A i \in 1 .. n : g.table[i] = (q[i][2] - g.start) % OffMod
    BY <1>1, <1>2, <1>6 DEF p, n
  <2>2. g.table[n + 1] = (q[n + 1][2] - g.start) % OffMod
    BY <1>1, <1>6, <1>8
  <2>3. QED BY <1>7, <2>1, <2>2
<1>13. ASSUME ~g.sort
       PROVE  /\ \A i, j \in 1 .. n + 1 : i < j => q[i][1] < q[j][1]
              /\ \A i \in 1 .. n + 1 : q[i][1] <= g.last
  <2>1. ~f.sort /\ ~(s < f.last) /\ s \in Int
    <3>1. g.sort = (f.sort \/ s < f.last)
      BY <1>1
    <3>2. ~f.sort /\ ~(s < f.last)
      BY <1>13, <3>1, Zenon
    <3>3. s \in Int
      BY RowWriterAssumption DEF Slots
    <3>4. QED BY <3>2, <3>3
  <2>2. /\ \A i, j \in 1 .. n : i < j => p[i][1] < p[j][1]
        /\ \A i \in 1 .. n : p[i][1] <= f.last
    BY <1>2, <2>1 DEF n, p
  <2>3. \A i \in 1 .. n : p[i][1] < s
    BY <1>3, <1>10, <2>1, <2>2
  <2>4. \A i, j \in 1 .. n + 1 : i < j => i \in 1 .. n
    BY <1>6
  <2>5. ASSUME NEW i \in 1 .. n + 1, NEW j \in 1 .. n + 1, i < j
        PROVE  q[i][1] < q[j][1]
    <3>1. i \in 1 .. n /\ q[i][1] = p[i][1]
      BY <1>6, <2>4, <2>5
    <3>2. CASE j \in 1 .. n
      BY <1>6, <2>2, <2>5, <3>1, <3>2
    <3>3. CASE j = n + 1
      BY <1>8, <2>3, <3>1, <3>3
    <3>4. QED BY <1>7, <3>2, <3>3
  <2>6. ASSUME NEW i \in 1 .. n + 1
        PROVE  q[i][1] <= g.last
    <3>1. g.last = s
      BY <1>1
    <3>2. CASE i \in 1 .. n
      <4>1. p[i][1] < s /\ p[i][1] \in Int /\ q[i][1] = p[i][1]
        BY <1>6, <1>10, <2>3, <3>2
      <4>2. QED BY <2>1, <3>1, <4>1
    <3>3. CASE i = n + 1
      BY <1>8, <2>1, <3>1, <3>3
    <3>4. QED BY <1>7, <3>2, <3>3
  <2>7. QED BY <2>5, <2>6
<1>14. Present(g.mask) = SlotsOf(q)
  BY <1>2, <1>4, <1>9 DEF p
<1>15. Marks(g)
  BY <1>1, <1>5, <1>6, <1>11, <1>12, <1>13, <1>14 DEF Marks, q
<1>16. QED BY <1>15 DEF g

(* The table that end_object fills in has at each slot's rank its entry.   *)
LEMMA TableIs ==
  ASSUME NEW f, Marks(f), NEW i \in 1 .. Len(f.places)
  PROVE  LET k == Rank(Present(f.mask), f.places[i][1]) + 1 IN
         k \in 1 .. Len(f.places) /\ TableOf(f)[k] = (f.places[i][2] - f.start) % OffMod
<1> DEFINE p == f.places
           n == Len(p)
           s == p[i][1]
           k == Rank(SlotsOf(p), s) + 1
           pad == [j \in 1 .. Keys - n |-> 0]
<1>1. /\ p \in Seq(Slots \X Nat) /\ f.table \in Seq(Int) /\ Len(f.table) = n /\ Once(p)
      /\ f.start \in Int /\ n \in Nat
      /\ \A j \in 1 .. n : f.table[j] = (p[j][2] - f.start) % OffMod
      /\ ~f.sort => \A j, l \in 1 .. n : j < l => p[j][1] < p[l][1]
      /\ Present(f.mask) = SlotsOf(p)
  <2>1. f \in Frames
    BY DEF Marks
  <2>2. p \in Seq(Slots \X Nat) /\ f.table \in Seq(Int) /\ f.start \in Int /\ n \in Nat
    BY <2>1 DEF Frames
  <2>3. QED BY <2>2, Zenon DEF Marks
<1>2. k \in 1 .. n
  BY <1>1, RankWhenSorted
<1> DEFINE used == IF ~f.sort THEN f.table
                   ELSE [j \in DOMAIN BySlot(p) |-> (BySlot(p)[j][2] - f.start) % OffMod]
<1>3. TableOf(f) = used \o [j \in 1 .. Keys - Len(used) |-> 0]
  BY DEF TableOf
<1>4. used \in Seq(Int) /\ Len(used) = n /\ used[k] = (p[i][2] - f.start) % OffMod
  <2>1. CASE ~f.sort
    <3>1. k = i
      BY <1>1, <2>1, RankWhenAscending
    <3> HIDE DEF k
    <3>2. QED BY <1>1, <2>1, <3>1
  <2>2. CASE f.sort
    <3>1. DOMAIN BySlot(p) = 1 .. n /\ BySlot(p)[k] = p[i]
          /\ \A j \in 1 .. n : BySlot(p)[j] \in Slots \X Nat
      <4>1. DOMAIN BySlot(p) = 1 .. n /\ BySlot(p)[k] = p[i]
        BY <1>1, RankWhenSorted
      <4>2. \A j \in 1 .. n : BySlot(p)[j] \in Slots \X Nat
        BY <1>1, SortedPlaces
      <4>3. QED BY <4>1, <4>2
    <3> DEFINE rel(x) == (x[2] - f.start) % OffMod
    <3>2. \A x \in Slots \X Nat : rel(x) \in Int
      <4>1. PICK m \in Nat \ {0} : m = OffMod
        BY RowWriterAssumption
      <4>2. \A y \in Int : y % m \in Int
        BY <4>1
      <4>3. \A x \in Slots \X Nat : x[2] - f.start \in Int
        BY <1>1
      <4>4. QED BY <4>1, <4>2, <4>3
    <3>3. used = [j \in 1 .. n |-> rel(BySlot(p)[j])]
      BY <2>2, <3>1
    <3> HIDE DEF rel, k, used
    <3>4. used \in Seq(Int) /\ Len(used) = n /\ used[k] = rel(BySlot(p)[k])
      <4>1. \A j \in 1 .. n : rel(BySlot(p)[j]) \in Int
        BY <3>1, <3>2
      <4>2. n \in Nat
        BY <1>1
      <4> HIDE DEF n
      <4>3. used \in Seq(Int) /\ Len(used) = n
        BY <3>3, <4>1, <4>2
      <4>4. QED BY <1>2, <3>3, <4>3
    <3>5. QED BY <3>1, <3>4 DEF rel
  <2>3. QED BY <2>1, <2>2
<1> HIDE DEF used, k
<1>5. Keys - n \in Int
  BY <1>1, RowWriterAssumption
<1>6. [j \in 1 .. Keys - n |-> 0] \in Seq(Int)
  <2> DEFINE m == IF Keys - n > 0 THEN Keys - n ELSE 0
  <2>1. m \in Nat /\ 1 .. Keys - n = 1 .. m
    BY <1>5
  <2> HIDE DEF m
  <2>2. [j \in 1 .. m |-> 0] \in Seq(Int)
    BY <2>1
  <2>3. QED BY <2>1, <2>2
<1>7. (used \o [j \in 1 .. Keys - n |-> 0])[k] = used[k]
  BY <1>2, <1>4, <1>6, Behind
<1>8. QED BY <1>1, <1>2, <1>3, <1>4, <1>7 DEF k

----------------------------------------------------------------------------
(* What the readers make of an object.                                     *)

(* The values of an object lie in it, where its frame has noted them.      *)
Values(f, b, end) ==
  \A i \in 1 .. Len(f.places) :
    /\ f.start + HeadWords <= f.places[i][2] /\ f.places[i][2] + 1 <= end
    /\ b[f.places[i][2] + 1] = <<"val", b[f.places[i][2] + 1][2]>>

(* The object that a frame became, of n words.                             *)
Whole(f, n, b) ==
  /\ Marks(f) /\ n \in Nat /\ HeadWords <= n /\ f.start + n <= Len(b)
  /\ b[f.start + 1][1] = "nyxo" /\ b[f.start + 2] = <<"len", n>>
  /\ b[f.start + 3] = <<"head", [mask |-> f.mask, table |-> TableOf(f)]>>
  /\ Values(f, b, f.start + n)

(* What the history says of it.                                            *)
Account(f, b) ==
  [at |-> DataStart + f.start,
   fields |-> {<<f.places[i][1], DataStart + f.places[i][2], b[f.places[i][2] + 1][2]>> :
                 i \in DOMAIN f.places}]

Kept(b, o) == \E f \in Frames, n \in Nat : Whole(f, n, b) /\ o = Account(f, b)

(* The offset of a written slot from its object, as its entry says it.     *)
Entry(f, s) == TableOf(f)[Rank(Present(f.mask), s) + 1]

(* The bits below a slot's are the slots below it.                         *)
LEMMA BelowIsRank ==
  ASSUME NEW mask, NEW s \in 0 .. MaskBytes * MaskBits - 1
  PROVE  SetBelow(mask, s) = Rank(Present(mask), s)
<1>1. PICK n \in Nat : n = MaskBytes * MaskBits
  BY MaskCovers
<1>2. \A t : t \in 0 .. s - 1 <=> t \in 0 .. n - 1 /\ t < s
  BY <1>1
<1>3. {t \in 0 .. s - 1 : (t % MaskBits) \in mask[t \div MaskBits].bits} = {u \in Present(mask) : u < s}
  BY <1>1, <1>2 DEF Present
<1>4. QED BY <1>3 DEF SetBelow, Rank

(* A slot resolves to its entry, one not written to nothing.               *)
LEMMA Resolves ==
  ASSUME NEW data, NEW off, NEW f, Marks(f), NEW s \in Slots,
         data[off + 3][2] = [mask |-> f.mask, table |-> TableOf(f)]
  PROVE  ResolveSlot(data, off, s) = IF s \in SlotsOf(f.places) THEN off + Entry(f, s) ELSE Nowhere
<1> DEFINE head == data[off + 3][2]
           b == s \div MaskBits
<1>1. head.mask = f.mask /\ head.table = TableOf(f)
  OBVIOUS
<1>2. s \in 0 .. MaskBytes * MaskBits - 1 /\ s \in Nat /\ b \in 0 .. MaskBytes - 1
  BY SlotHasBit
<1>3. MaskBytes \in Nat
  BY HeadIsLong
<1>4. Present(f.mask) = SlotsOf(f.places) /\ \A c \in 0 .. MaskBytes - 1 : f.mask[c].more = (c < MaskBytes - 1)
  BY DEF Marks
<1>5. s \in SlotsOf(f.places) <=> (s % MaskBits) \in f.mask[b].bits
  BY <1>2, <1>4 DEF Present
<1> HIDE DEF b, head
<1>6. ASSUME NEW c \in 0 .. b - 1
      PROVE  f.mask[c].more
  <2>1. c \in 0 .. MaskBytes - 1 /\ c < MaskBytes - 1
    BY <1>2, <1>3
  <2>2. f.mask[c].more = (c < MaskBytes - 1)
    BY <1>4, <2>1
  <2>3. QED BY <2>1, <2>2, Zenon
<1>7. SetBelow(f.mask, s) = Rank(Present(f.mask), s)
  BY <1>2, BelowIsRank
<1>8. ResolveSlot(data, off, s)
        = IF (\E c \in 0 .. b - 1 : ~f.mask[c].more) \/ (s % MaskBits) \notin f.mask[b].bits
          THEN Nowhere ELSE off + TableOf(f)[SetBelow(f.mask, s) + 1]
  BY <1>1, Zenon DEF ResolveSlot, head, b
<1>9. QED BY <1>5, <1>6, <1>7, <1>8, Zenon DEF Entry

(* decode_object pairs each written slot with its entry.                   *)
LEMMA Decodes ==
  ASSUME NEW data, NEW off, NEW f, Marks(f),
         data[off + 3][2] = [mask |-> f.mask, table |-> TableOf(f)]
  PROVE  DecodeObject(data, off) = {<<t, off + Entry(f, t)>> : t \in SlotsOf(f.places)}
<1> DEFINE S == Present(f.mask)
           bits == InOrder(S)
           T == TableOf(f)
<1>1. data[off + 3][2].mask = f.mask /\ data[off + 3][2].table = T
  OBVIOUS
<1>2. PICK n \in Nat : n = MaskBytes * MaskBits
  BY MaskCovers
<1>3. S \subseteq 0 .. n
  BY <1>2 DEF Present
<1>4. S = SlotsOf(f.places)
  BY DEF Marks
<1> HIDE DEF T
<1>5. DecodeObject(data, off) = {<<bits[i], off + T[i]>> : i \in DOMAIN bits}
  BY <1>1, Zenon DEF DecodeObject
<1> HIDE DEF S
<1>6. /\ Cardinality(S) \in Nat /\ DOMAIN bits = 1 .. Cardinality(S)
      /\ \A k \in 1 .. Cardinality(S) : bits[k] \in S /\ Rank(S, bits[k]) = k - 1
      /\ \A t \in S : Rank(S, t) + 1 \in 1 .. Cardinality(S) /\ bits[Rank(S, t) + 1] = t
  BY <1>3, InOrderIs
<1> HIDE DEF bits
<1>7. \A t : Entry(f, t) = T[Rank(S, t) + 1]
  BY DEF Entry, T, S
<1>8. ASSUME NEW i \in DOMAIN bits
      PROVE  <<bits[i], off + T[i]>> \in {<<t, off + Entry(f, t)>> : t \in S}
  <2>1. bits[i] \in S /\ Rank(S, bits[i]) + 1 = i
    BY <1>6
  <2>2. Entry(f, bits[i]) = T[i]
    BY <1>7, <2>1
  <2>3. QED BY <2>1, <2>2
<1>9. ASSUME NEW t \in S
      PROVE  <<t, off + Entry(f, t)>> \in {<<bits[i], off + T[i]>> : i \in DOMAIN bits}
  <2> DEFINE i == Rank(S, t) + 1
  <2>1. i \in DOMAIN bits /\ bits[i] = t /\ Entry(f, t) = T[i]
    BY <1>6, <1>7
  <2> HIDE DEF i
  <2>2. QED BY <2>1
<1>10. {<<bits[i], off + T[i]>> : i \in DOMAIN bits} = {<<t, off + Entry(f, t)>> : t \in S}
  BY <1>8, <1>9
<1>11. QED BY <1>4, <1>5, <1>10

(* Where an object is whole in the data, its readers find what was written.*)
LEMMA ObjectReads ==
  ASSUME NEW data, NEW b, NEW f, NEW n, Whole(f, n, b),
         \A i \in 1 .. f.start + n : data[DataStart + i] = b[i]
  PROVE  LET o == Account(f, b) IN
         /\ \A x \in o.fields : x[2] - o.at < OffMod =>
              ResolveSlot(data, o.at, x[1]) = x[2] /\ data[x[2] + 1] = <<"val", x[3]>>
         /\ \A s \in Slots : (\A x \in o.fields : x[1] # s) => ResolveSlot(data, o.at, s) = Nowhere
         /\ DecodeObject(data, o.at) =
              {<<s, ResolveSlot(data, o.at, s)>> : s \in {t \in Slots : ResolveSlot(data, o.at, t) # Nowhere}}
<1> DEFINE o == Account(f, b)
           off == o.at
           p == f.places
           S == SlotsOf(p)
           R(s) == ResolveSlot(data, off, s)
<1>1. /\ Marks(f) /\ n \in Nat /\ HeadWords <= n
      /\ b[f.start + 3] = <<"head", [mask |-> f.mask, table |-> TableOf(f)]>>
      /\ Values(f, b, f.start + n)
  BY DEF Whole
<1>2. f \in Frames
  BY <1>1 DEF Marks
<1>3. f.start \in Nat /\ p \in Seq(Slots \X Nat)
  BY <1>2 DEF Frames
<1>4. DataStart \in Nat /\ HeadWords \in Nat /\ HeadWords >= 4
  BY HeaderIs, HeadIsLong
<1>5. off = DataStart + f.start
      /\ o.fields = {<<p[i][1], DataStart + p[i][2], b[p[i][2] + 1][2]>> : i \in 1 .. Len(p)}
  <2>1. DOMAIN f.places = 1 .. Len(f.places)
    BY <1>3
  <2>2. /\ o.at = DataStart + f.start
        /\ o.fields = {<<f.places[i][1], DataStart + f.places[i][2], b[f.places[i][2] + 1][2]>> :
                         i \in DOMAIN f.places}
    BY DEF Account
  <2> HIDE DEF o
  <2>3. QED BY <2>1, <2>2
<1> HIDE DEF o, off, p, S
<1>6. data[off + 3][2] = [mask |-> f.mask, table |-> TableOf(f)]
  <2>1. f.start + 3 \in 1 .. f.start + n /\ off + 3 = DataStart + (f.start + 3)
    BY <1>1, <1>3, <1>4, <1>5
  <2>2. data[off + 3] = b[f.start + 3]
    BY <2>1
  <2>3. QED BY <1>1, <2>2
<1>7. \A s \in Slots : R(s) = IF s \in S THEN off + Entry(f, s) ELSE Nowhere
  BY <1>1, <1>6, Resolves DEF S, p
<1>8. DecodeObject(data, off) = {<<t, off + Entry(f, t)>> : t \in S}
  BY <1>1, <1>6, Decodes DEF S, p
<1>9. \A i \in 1 .. Len(p) : /\ p[i][1] \in Slots /\ p[i][1] \in S /\ p[i][2] \in Nat
                             /\ Entry(f, p[i][1]) = (p[i][2] - f.start) % OffMod
  <2> SUFFICES ASSUME NEW i \in 1 .. Len(p)
               PROVE  /\ p[i][1] \in Slots /\ p[i][1] \in S /\ p[i][2] \in Nat
                      /\ Entry(f, p[i][1]) = (p[i][2] - f.start) % OffMod
    OBVIOUS
  <2>1. p[i][1] \in Slots /\ p[i][2] \in Nat /\ p[i][1] \in S
    BY <1>3 DEF S, SlotsOf
  <2>2. Entry(f, p[i][1]) = (p[i][2] - f.start) % OffMod
    BY <1>1, TableIs DEF Entry, p
  <2>3. QED BY <2>1, <2>2
<1>10. S \subseteq Slots /\ \A s \in S : \E i \in 1 .. Len(p) : s = p[i][1]
  BY <1>3, <1>9 DEF S, SlotsOf
<1>11. PICK m \in Nat \ {0} : m = OffMod
  BY RowWriterAssumption
<1>12. \A s \in S : off + Entry(f, s) # Nowhere
  <2> SUFFICES ASSUME NEW s \in S PROVE off + Entry(f, s) # Nowhere
    OBVIOUS
  <2>1. PICK i \in 1 .. Len(p) : s = p[i][1]
    BY <1>10
  <2>2. Entry(f, s) = (p[i][2] - f.start) % m /\ p[i][2] - f.start \in Int
    BY <1>3, <1>9, <1>11, <2>1
  <2>3. \A y \in Int : y % m \in Nat
    BY <1>11
  <2>4. Entry(f, s) \in Nat
    BY <2>2, <2>3
  <2>5. QED BY <1>3, <1>4, <1>5, <2>4 DEF Nowhere
<1>13. ASSUME NEW x \in o.fields, x[2] - off < OffMod
       PROVE  R(x[1]) = x[2] /\ data[x[2] + 1] = <<"val", x[3]>>
  <2>1. PICK i \in 1 .. Len(p) : x = <<p[i][1], DataStart + p[i][2], b[p[i][2] + 1][2]>>
    BY <1>5
  <2>2. /\ f.start + HeadWords <= p[i][2] /\ p[i][2] + 1 <= f.start + n
        /\ b[p[i][2] + 1] = <<"val", b[p[i][2] + 1][2]>>
    BY <1>1 DEF Values, p
  <2>3. p[i][1] \in Slots /\ p[i][1] \in S /\ p[i][2] \in Nat /\ Entry(f, p[i][1]) = (p[i][2] - f.start) % m
    BY <1>9, <1>11
  <2>4. x[1] = p[i][1] /\ x[2] = DataStart + p[i][2] /\ x[3] = b[p[i][2] + 1][2]
    BY <2>1
  <2> DEFINE a == p[i][2]
             e == Entry(f, p[i][1])
             st == f.start
  <2>5. a \in Nat /\ e = (a - st) % m /\ st \in Nat /\ st <= a /\ a + 1 <= st + n
        /\ x[2] = DataStart + a /\ off = DataStart + st /\ (DataStart + a) - (DataStart + st) < m
    <3>1. a \in Nat /\ e = (a - st) % m /\ st \in Nat /\ st + HeadWords <= a /\ a + 1 <= st + n
      BY <1>3, <2>2, <2>3
    <3>2. x[2] = DataStart + a /\ off = DataStart + st
      BY <1>5, <2>4
    <3>3. x[2] - off < m
      BY <1>11, <1>13
    <3> HIDE DEF a, e, st
    <3>4. st <= a
      BY <1>4, <3>1
    <3>5. QED BY <3>1, <3>2, <3>3, <3>4
  <2> HIDE DEF a, e, st
  <2>6. a - st \in 0 .. m - 1
    <3>1. (DataStart + a) - (DataStart + st) = a - st
      BY <1>4, <2>5
    <3>2. a - st \in Nat /\ a - st < m
      BY <2>5, <3>1
    <3>3. QED BY <1>11, <3>2
  <2>7. e = a - st
    <3>1. m \in Nat \ {0} /\ \A k \in 0 .. m - 1 : k % m = k
      BY SMTT(60), <1>11
    <3>2. QED BY <2>5, <2>6, <3>1
  <2>8. R(x[1]) = x[2]
    BY <1>4, <1>7, <2>3, <2>4, <2>5, <2>7 DEF e
  <2>9. a + 1 \in 1 .. st + n /\ x[2] + 1 = DataStart + (a + 1)
    <3>1. n \in Nat /\ DataStart \in Nat
      BY <1>1, <1>4
    <3>2. a \in Nat /\ st \in Nat /\ a + 1 <= st + n /\ x[2] = DataStart + a
      BY <2>5
    <3>3. QED BY <3>1, <3>2
  <2>10. data[x[2] + 1] = b[a + 1]
    BY <2>9 DEF st
  <2>11. QED BY <2>2, <2>4, <2>8, <2>10 DEF a
<1>14. ASSUME NEW s \in Slots, \A x \in o.fields : x[1] # s
       PROVE  R(s) = Nowhere
  <2>1. \A i \in 1 .. Len(p) : p[i][1] # s
    <3>1. \A i \in 1 .. Len(p) : <<p[i][1], DataStart + p[i][2], b[p[i][2] + 1][2]>> \in o.fields
      BY <1>5
    <3>2. \A i \in 1 .. Len(p) : <<p[i][1], DataStart + p[i][2], b[p[i][2] + 1][2]>>[1] = p[i][1]
      OBVIOUS
    <3>3. QED BY <1>14, <3>1, <3>2
  <2>2. s \notin S
    BY <1>10, <2>1
  <2>3. QED BY <1>7, <2>2
<1>15. {<<t, off + Entry(f, t)>> : t \in S} = {<<s, R(s)>> : s \in {t \in Slots : R(t) # Nowhere}}
  <2>1. {t \in Slots : R(t) # Nowhere} = S
    BY <1>7, <1>10, <1>12
  <2>2. \A s \in S : R(s) = off + Entry(f, s)
    BY <1>7, <1>10
  <2> HIDE DEF R
  <2>3. QED BY <2>1, <2>2
<1>16. QED BY <1>8, <1>13, <1>14, <1>15 DEF o, off

----------------------------------------------------------------------------
(* What was written stays.                                                 *)

(* A buffer changes only behind its end and, where an object is open, in   *)
(* the length and the head of that object.                                 *)
Stays(b, c) ==
  /\ Len(b) \in Nat /\ Len(c) \in Nat /\ Len(b) <= Len(c)
  /\ \A i \in 1 .. Len(b) : \/ c[i] = b[i]
                            \/ b[i] = <<"len", 0>>
                            \/ b[i][1] = "head" /\ b[i - 1] = <<"len", 0>>

LEMMA GrownStays ==
  ASSUME NEW b, NEW c, Len(b) \in Nat, Len(c) \in Nat, Len(b) <= Len(c),
         \A i \in 1 .. Len(b) : c[i] = b[i]
  PROVE  Stays(b, c)
BY DEF Stays

LEMMA TagsStay ==
  ASSUME NEW b, NEW c, Stays(b, c), NEW i \in 1 .. Len(b), b[i][1] # "len", b[i][1] # "head"
  PROVE  c[i] = b[i]
<1>1. b[i] # <<"len", 0>>
  OBVIOUS
<1>2. QED BY <1>1 DEF Stays

(* Values stay where they are.                                             *)
LEMMA ValuesStay ==
  ASSUME NEW f \in Frames, NEW b, NEW c, Stays(b, c), NEW end \in Nat, NEW later \in Nat,
         end <= Len(b), end <= later, Values(f, b, end)
  PROVE  /\ Values(f, c, later)
         /\ \A i \in 1 .. Len(f.places) : c[f.places[i][2] + 1] = b[f.places[i][2] + 1]
<1>1. f.places \in Seq(Slots \X Nat)
  BY DEF Frames
<1>2. Len(b) \in Nat
  BY DEF Stays
<1>3. ASSUME NEW i \in 1 .. Len(f.places)
      PROVE  /\ f.start + HeadWords <= f.places[i][2] /\ f.places[i][2] + 1 <= later
             /\ c[f.places[i][2] + 1] = b[f.places[i][2] + 1]
             /\ c[f.places[i][2] + 1] = <<"val", c[f.places[i][2] + 1][2]>>
  <2> DEFINE a == f.places[i][2]
  <2>1. /\ f.start + HeadWords <= a /\ a + 1 <= end
        /\ b[a + 1] = <<"val", b[a + 1][2]>>
    BY DEF Values
  <2>2. a \in Nat
    BY <1>1
  <2> HIDE DEF a
  <2>3. a + 1 \in 1 .. Len(b) /\ a + 1 <= later
    BY <1>2, <2>1, <2>2
  <2>4. b[a + 1][1] = "val"
    BY <2>1
  <2>5. c[a + 1] = b[a + 1]
    BY <2>3, <2>4, TagsStay
  <2>6. QED BY <2>1, <2>3, <2>5 DEF a
<1>4. QED BY <1>3, Zenon DEF Values

(* So does what the history says of them.                                  *)
LEMMA AccountStays ==
  ASSUME NEW f \in Frames, NEW b, NEW c,
         \A i \in 1 .. Len(f.places) : c[f.places[i][2] + 1] = b[f.places[i][2] + 1]
  PROVE  Account(f, c) = Account(f, b)
<1>1. DOMAIN f.places = 1 .. Len(f.places)
  BY DEF Frames
<1>2. QED BY <1>1 DEF Account

(* An object that was ended stays as it is.                                *)
LEMMA KeptStays ==
  ASSUME NEW b, NEW c, Stays(b, c), NEW o, Kept(b, o)
  PROVE  Kept(c, o)
<1>1. PICK f \in Frames, n \in Nat : Whole(f, n, b) /\ o = Account(f, b)
  BY DEF Kept
<1>2. /\ Marks(f) /\ HeadWords <= n /\ f.start + n <= Len(b)
      /\ b[f.start + 1][1] = "nyxo" /\ b[f.start + 2] = <<"len", n>>
      /\ b[f.start + 3] = <<"head", [mask |-> f.mask, table |-> TableOf(f)]>>
      /\ Values(f, b, f.start + n)
  BY <1>1 DEF Whole
<1>3. f.start \in Nat /\ HeadWords \in Nat /\ HeadWords >= 4 /\ Len(b) \in Nat /\ Len(c) \in Nat
      /\ Len(b) <= Len(c)
  BY HeadIsLong DEF Frames, Stays
<1> DEFINE st == f.start
<1>4. st + 1 \in 1 .. Len(b) /\ st + 2 \in 1 .. Len(b) /\ st + 3 \in 1 .. Len(b) /\ (st + 3) - 1 = st + 2
      /\ st + n \in Nat /\ st + n <= Len(c)
  BY <1>2, <1>3
<1>5. c[st + 1] = b[st + 1]
  <2>1. b[st + 1][1] = "nyxo"
    BY <1>2
  <2> HIDE DEF st
  <2>2. QED BY <1>4, <2>1, TagsStay
<1>6. b[st + 2] # <<"len", 0>>
  <2>1. n # 0
    BY <1>2, <1>3
  <2>2. QED BY <1>2, <2>1
<1>7. c[st + 2] = b[st + 2]
  <2>1. b[st + 2][1] = "len"
    BY <1>2
  <2> HIDE DEF st
  <2>2. QED BY <1>4, <1>6, <2>1 DEF Stays
<1>8. c[st + 3] = b[st + 3]
  <2>1. b[st + 3][1] = "head"
    BY <1>2
  <2> HIDE DEF st
  <2>2. b[st + 3] # <<"len", 0>>
    BY <2>1
  <2>3. QED BY <1>4, <1>6, <2>2 DEF Stays
<1>9. /\ Values(f, c, st + n)
      /\ \A i \in 1 .. Len(f.places) : c[f.places[i][2] + 1] = b[f.places[i][2] + 1]
  <2> DEFINE e == st + n
  <2>1. e \in Nat /\ e <= Len(b) /\ e <= e /\ Values(f, b, e)
    BY <1>2, <1>4
  <2> HIDE DEF e, st
  <2>2. QED BY <2>1, ValuesStay DEF e
<1>10. Account(f, c) = Account(f, b)
  BY <1>9, AccountStays
<1>11. Whole(f, n, c)
  BY <1>2, <1>4, <1>5, <1>7, <1>8, <1>9 DEF Whole
<1>12. QED BY <1>1, <1>10, <1>11 DEF Kept

----------------------------------------------------------------------------
(* The objects that are open.                                              *)

(* An open object lies where its frame says, with the values written.      *)
Opened(f, b) ==
  /\ Marks(f) /\ Framed(b, f.start) /\ Values(f, b, Len(b)) /\ b[f.start + 2] = <<"len", 0>>

(* A writer with so many objects open, each at a place of its own.         *)
Held(u, depth) ==
  /\ u = [buf |-> u.buf, frames |-> u.frames, offsets |-> u.offsets] /\ Buffer(u.buf)
  /\ u.frames \in Seq(Frames) /\ Len(u.frames) = depth
  /\ \A k \in 1 .. depth : Opened(u.frames[k], u.buf)
  /\ \A j, k \in 1 .. depth : j # k => u.frames[j].start # u.frames[k].start

(* An open object stays open where nothing is changed.                     *)
LEMMA OpenedStays ==
  ASSUME NEW f \in Frames, NEW b, NEW c, Opened(f, b), Len(b) \in Nat, Len(c) \in Nat, Len(b) <= Len(c),
         \A i \in 1 .. Len(b) : c[i][1] = b[i][1],
         Stays(b, c), c[f.start + 2] = b[f.start + 2]
  PROVE  Opened(f, c)
<1>1. Marks(f) /\ Framed(b, f.start) /\ Values(f, b, Len(b)) /\ b[f.start + 2] = <<"len", 0>>
  BY DEF Opened
<1>2. Framed(c, f.start)
  BY <1>1, FramedKept
<1>3. Values(f, c, Len(c))
  <2>1. Len(b) <= Len(b)
    OBVIOUS
  <2>2. QED BY <1>1, <2>1, ValuesStay
<1>4. QED BY <1>1, <1>2, <1>3 DEF Opened

(* One more is begun.                                                      *)
LEMMA HeldBegins ==
  ASSUME NEW u, NEW depth \in Nat, Held(u, depth)
  PROVE  LET v == BeginObject(u) IN
         /\ Held(v, depth + 1) /\ Stays(u.buf, v.buf)
         /\ \A k \in 1 .. depth : v.frames[k] = u.frames[k]
         /\ v.frames[depth + 1].places = << >>
<1> DEFINE v == BeginObject(u)
           B == u.buf
           C == v.buf
           new == NewFrame(Len(B))
<1>1. /\ u = [buf |-> u.buf, frames |-> u.frames, offsets |-> u.offsets] /\ Buffer(B)
      /\ u.frames \in Seq(Frames) /\ Len(u.frames) = depth
      /\ \A k \in 1 .. depth : Opened(u.frames[k], B)
      /\ \A j, k \in 1 .. depth : j # k => u.frames[j].start # u.frames[k].start
  BY DEF Held
<1>2. /\ v = [buf |-> v.buf, frames |-> v.frames, offsets |-> v.offsets]
      /\ Buffer(C) /\ Len(C) = Len(B) + HeadWords /\ Len(B) \in Nat
      /\ \A i \in 1 .. Len(B) : C[i] = B[i]
      /\ Framed(C, Len(B))
      /\ v.frames \in Seq(Frames) /\ Len(v.frames) = depth + 1
      /\ \A k \in 1 .. depth : v.frames[k] = u.frames[k]
      /\ v.frames[depth + 1] = new /\ C[Len(B) + 2] = <<"len", 0>>
  <2>1. /\ v = [buf |-> v.buf, frames |-> v.frames, offsets |-> v.offsets]
        /\ Buffer(v.buf) /\ Len(v.buf) = Len(u.buf) + HeadWords /\ Len(u.buf) \in Nat
        /\ \A i \in 1 .. Len(u.buf) : v.buf[i] = u.buf[i]
        /\ Framed(v.buf, Len(u.buf))
        /\ v.frames \in Seq(Frames) /\ Len(v.frames) = Len(u.frames) + 1
        /\ \A k \in 1 .. Len(u.frames) : v.frames[k] = u.frames[k]
        /\ v.frames[Len(u.frames) + 1] = NewFrame(Len(u.buf)) /\ v.buf[Len(u.buf) + 2] = <<"len", 0>>
    BY <1>1, Begun
  <2>2. QED BY <1>1, <2>1
<1>3. HeadWords \in Nat /\ HeadWords >= 4
  BY HeadIsLong
<1>4. new.start = Len(B) /\ new.places = << >>
  BY DEF NewFrame
<1>5. Marks(new)
  BY <1>2, MarksBegin
<1> HIDE DEF v, C, B, new
<1>6. Len(B) \in Nat /\ Len(C) \in Nat /\ Len(B) <= Len(C)
  BY <1>2, <1>3
<1>7. Stays(B, C)
  BY <1>2, <1>6, GrownStays
<1>8. Opened(new, C)
  <2>1. Values(new, C, Len(C))
    <3>1. Len(new.places) = 0
      BY <1>4
    <3>2. QED BY <3>1 DEF Values
  <2>2. QED BY <1>2, <1>4, <1>5, <2>1 DEF Opened
<1>9. ASSUME NEW k \in 1 .. depth
      PROVE  Opened(u.frames[k], C) /\ u.frames[k].start # Len(B)
  <2> DEFINE f == u.frames[k]
  <2>1. f \in Frames /\ Opened(f, B)
    BY <1>1
  <2> HIDE DEF f
  <2>2. f.start \in Nat /\ f.start + HeadWords <= Len(B)
    BY <2>1 DEF Opened, Framed
  <2>3. f.start + 2 \in 1 .. Len(B) /\ f.start # Len(B)
    BY <1>3, <1>6, <2>2
  <2>4. Opened(f, C)
    <3>1. C[f.start + 2] = B[f.start + 2] /\ \A i \in 1 .. Len(B) : C[i][1] = B[i][1]
      BY <1>2, <2>3
    <3>2. QED BY <1>2, <1>6, <1>7, <2>1, <3>1, OpenedStays
  <2>5. QED BY <2>3, <2>4 DEF f
<1>10. ASSUME NEW k \in 1 .. depth + 1
       PROVE  Opened(v.frames[k], C)
  <2>1. k \in 1 .. depth \/ k = depth + 1
    OBVIOUS
  <2>2. QED BY <1>2, <1>8, <1>9, <2>1
<1>11. ASSUME NEW j \in 1 .. depth + 1, NEW k \in 1 .. depth + 1, j # k
       PROVE  v.frames[j].start # v.frames[k].start
  <2>1. (j \in 1 .. depth \/ j = depth + 1) /\ (k \in 1 .. depth \/ k = depth + 1)
    OBVIOUS
  <2>2. v.frames[depth + 1].start = Len(B)
    BY <1>2, <1>4
  <2>3. \A l \in 1 .. depth : v.frames[l].start = u.frames[l].start /\ u.frames[l].start # Len(B)
    BY <1>2, <1>9
  <2>4. CASE j \in 1 .. depth /\ k \in 1 .. depth
    BY <1>1, <1>11, <2>3, <2>4
  <2>5. CASE j = depth + 1 \/ k = depth + 1
    BY <1>11, <2>1, <2>2, <2>3, <2>5
  <2>6. QED BY <2>1, <2>4, <2>5
<1>12. Held(v, depth + 1)
  BY <1>2, <1>10, <1>11 DEF Held, C
<1>13. QED BY <1>2, <1>4, <1>7, <1>12 DEF v, B, C

(* A value is written in the last one begun.                               *)
LEMMA HeldWrites ==
  ASSUME NEW u, NEW depth \in Nat \ {0}, Held(u, depth), NEW s \in Slots, NEW d,
         s \notin SlotsOf(u.frames[depth].places)
  PROVE  LET v == WriteField(u, s, Value(s, d)) IN
         /\ Held(v, depth) /\ Stays(u.buf, v.buf)
         /\ \A k \in 1 .. depth - 1 : v.frames[k] = u.frames[k]
         /\ SlotsOf(v.frames[depth].places) \subseteq SlotsOf(u.frames[depth].places) \cup {s}
<1> DEFINE v == WriteField(u, s, Value(s, d))
           B == u.buf
           C == v.buf
           f == u.frames[depth]
           g == MarkSlot(u, s)
           at == Len(B)
<1>1. /\ u = [buf |-> u.buf, frames |-> u.frames, offsets |-> u.offsets] /\ Buffer(B)
      /\ u.frames \in Seq(Frames) /\ Len(u.frames) = depth /\ u.frames # << >> /\ Last(u.frames) = f
      /\ \A k \in 1 .. depth : Opened(u.frames[k], B)
      /\ \A j, k \in 1 .. depth : j # k => u.frames[j].start # u.frames[k].start
  BY DEF Held, Last
<1>2. /\ v = [buf |-> v.buf, frames |-> v.frames, offsets |-> v.offsets]
      /\ Buffer(C) /\ Len(C) \in Nat /\ Len(B) \in Nat
      /\ \A i \in 1 .. Len(B) : C[i] = B[i]
      /\ v.frames \in Seq(Frames) /\ Len(v.frames) = depth
      /\ \A k \in 1 .. depth : v.frames[k].start = u.frames[k].start
      /\ \A k \in 1 .. depth - 1 : v.frames[k] = u.frames[k]
      /\ v.frames[depth] = g
      /\ Len(C) >= Len(B) + 1 /\ C[Len(B) + 1] = <<"val", Value(s, d)>>
  <2>1. /\ v = [buf |-> v.buf, frames |-> v.frames, offsets |-> v.offsets]
        /\ Buffer(v.buf) /\ Len(v.buf) \in Nat /\ Len(u.buf) \in Nat
        /\ \A i \in 1 .. Len(u.buf) : v.buf[i] = u.buf[i]
        /\ v.frames \in Seq(Frames) /\ Len(v.frames) = Len(u.frames)
        /\ \A k \in 1 .. Len(u.frames) : v.frames[k].start = u.frames[k].start
        /\ \A k \in 1 .. Len(u.frames) - 1 : v.frames[k] = u.frames[k]
        /\ v.frames[Len(u.frames)] = MarkSlot(u, s)
        /\ Len(v.buf) >= Len(u.buf) + 1 /\ v.buf[Len(u.buf) + 1] = <<"val", Value(s, d)>>
    BY <1>1, Wrote
  <2>2. QED BY <1>1, <2>1
<1>3. HeadWords \in Nat /\ HeadWords >= 4 /\ depth \in 1 .. depth
  BY HeadIsLong
<1>4. /\ f \in Frames /\ g \in Frames /\ g.start = f.start /\ g.places = Append(f.places, <<s, at>>)
  <2>1. /\ Last(u.frames) \in Frames /\ MarkSlot(u, s) \in Frames
        /\ MarkSlot(u, s).start = Last(u.frames).start
        /\ MarkSlot(u, s).places = Append(Last(u.frames).places, <<s, Len(u.buf)>>)
    BY <1>1, <1>2, Marked
  <2>2. Last(u.frames) = f
    BY <1>1
  <2> HIDE DEF f
  <2>3. QED BY <2>1, <2>2
<1>5. Opened(f, B)
  BY <1>1, <1>3
<1>6. Marks(f) /\ Framed(B, f.start) /\ Values(f, B, at)
  BY <1>5 DEF Opened
<1>7. Marks(g)
  BY <1>1, <1>2, <1>6, MarksWritten
<1> HIDE DEF v, C, B, f, g
<1>8. at \in Nat /\ Len(C) \in Nat /\ at <= Len(C) /\ at + 1 <= Len(C)
  BY <1>2
<1> DEFINE x == Value(s, d)
<1> HIDE DEF at, x
<1>9. Stays(B, C)
  BY <1>2, <1>8, GrownStays DEF at
<1>10. f.start \in Nat /\ f.start + HeadWords <= at
  BY <1>6 DEF Framed, at
<1>11. f.places \in Seq(Slots \X Nat) /\ <<s, at>> \in Slots \X Nat
  BY <1>4, <1>8 DEF Frames
<1> DEFINE p == f.places
           q == g.places
           n == Len(p)
<1>12. /\ n \in Nat /\ Len(q) = n + 1 /\ \A i \in 1 .. n : q[i] = p[i]
       /\ q[n + 1] = <<s, at>> /\ DOMAIN q = 1 .. n + 1 /\ DOMAIN p = 1 .. n
  BY <1>4, <1>11
<1>13. \A i \in 1 .. n + 1 : i \in 1 .. n \/ i = n + 1
  BY <1>12
<1>14. SlotsOf(q) \subseteq SlotsOf(p) \cup {s}
  <2> HIDE DEF p, q, n
  <2>1. ASSUME NEW y \in SlotsOf(q)
        PROVE  y \in SlotsOf(p) \/ y = s
    <3>1. PICK i \in 1 .. n + 1 : y = q[i][1]
      BY <1>12 DEF SlotsOf
    <3>2. i \in 1 .. n => y \in SlotsOf(p)
      BY <1>12, <3>1 DEF SlotsOf
    <3>3. i = n + 1 => y = s
      BY <1>12, <3>1
    <3>4. QED BY <1>13, <3>2, <3>3
  <2>2. QED BY <2>1
<1>15. Values(g, C, Len(C))
  <2>1. Values(f, C, Len(C))
    <3>1. at <= Len(B)
      BY <1>8 DEF at
    <3>2. QED BY <1>4, <1>6, <1>8, <1>9, <3>1, ValuesStay
  <2>2. ASSUME NEW i \in 1 .. n + 1
        PROVE  /\ g.start + HeadWords <= q[i][2] /\ q[i][2] + 1 <= Len(C)
               /\ C[q[i][2] + 1] = <<"val", C[q[i][2] + 1][2]>>
    <3>1. CASE i \in 1 .. n
      <4>1. /\ f.start + HeadWords <= p[i][2] /\ p[i][2] + 1 <= Len(C)
            /\ C[p[i][2] + 1] = <<"val", C[p[i][2] + 1][2]>>
        BY <2>1, <3>1 DEF Values
      <4>2. q[i] = p[i] /\ g.start = f.start
        BY <1>4, <1>12, <3>1
      <4> HIDE DEF p, q, n
      <4>3. QED BY <4>1, <4>2
    <3>2. CASE i = n + 1
      <4>1. q[i][2] = at /\ g.start = f.start
        BY <1>4, <1>12, <3>2
      <4>2. C[at + 1] = <<"val", x>>
        BY <1>2 DEF at, x
      <4> HIDE DEF p, q, n
      <4>3. QED BY <1>8, <1>10, <4>1, <4>2
    <3>3. QED BY <1>13, <3>1, <3>2
  <2>3. Len(g.places) = n + 1
    BY <1>12
  <2> HIDE DEF n
  <2>4. QED BY <2>2, <2>3 DEF Values
<1> HIDE DEF p, q, n
<1>16. ASSUME NEW k \in 1 .. depth
       PROVE  /\ u.frames[k] \in Frames /\ Framed(C, u.frames[k].start)
              /\ C[u.frames[k].start + 2] = <<"len", 0>>
              /\ Opened(u.frames[k], C)
  <2> DEFINE h == u.frames[k]
  <2>1. h \in Frames /\ Opened(h, B)
    BY <1>1
  <2> HIDE DEF h
  <2>2. h.start \in Nat /\ h.start + HeadWords <= Len(B) /\ B[h.start + 2] = <<"len", 0>>
    BY <2>1 DEF Opened, Framed
  <2>3. h.start + 2 \in 1 .. Len(B)
    BY <1>3, <1>8, <2>2 DEF at
  <2>4. C[h.start + 2] = B[h.start + 2] /\ \A i \in 1 .. Len(B) : C[i][1] = B[i][1]
    BY <1>2, <2>3
  <2>5. Opened(h, C)
    BY <1>8, <1>9, <2>1, <2>4, OpenedStays DEF at
  <2>6. QED BY <2>1, <2>2, <2>4, <2>5 DEF h, Opened
<1>17. Opened(g, C)
  <2>1. Framed(C, g.start) /\ C[g.start + 2] = <<"len", 0>>
    BY <1>3, <1>4, <1>16 DEF f
  <2>2. QED BY <1>7, <1>15, <2>1 DEF Opened
<1>18. ASSUME NEW k \in 1 .. depth
       PROVE  Opened(v.frames[k], C)
  <2>1. k \in 1 .. depth - 1 \/ k = depth
    OBVIOUS
  <2>2. QED BY <1>2, <1>16, <1>17, <2>1
<1>19. \A j, k \in 1 .. depth : j # k => v.frames[j].start # v.frames[k].start
  BY <1>1, <1>2
<1>20. Held(v, depth)
  BY <1>2, <1>18, <1>19 DEF Held, C
<1>21. SlotsOf(v.frames[depth].places) \subseteq SlotsOf(u.frames[depth].places) \cup {s}
  BY <1>2, <1>14 DEF f, p, q
<1>22. QED BY <1>2, <1>9, <1>20, <1>21 DEF v, B, C

(* The last one begun is ended: it is whole.                               *)
LEMMA HeldEnds ==
  ASSUME NEW u, NEW depth \in Nat \ {0}, Held(u, depth)
  PROVE  LET v == EndObject(u)
             f == u.frames[depth]
         IN
         /\ Held(v, depth - 1) /\ Stays(u.buf, v.buf)
         /\ \A k \in 1 .. depth - 1 : v.frames[k] = u.frames[k]
         /\ Kept(v.buf, Account(f, u.buf))
<1> DEFINE v == EndObject(u)
           B == u.buf
           C == v.buf
           f == u.frames[depth]
           st == f.start
<1>1. /\ u = [buf |-> u.buf, frames |-> u.frames, offsets |-> u.offsets] /\ Buffer(B)
      /\ u.frames \in Seq(Frames) /\ Len(u.frames) = depth /\ u.frames # << >> /\ Last(u.frames) = f
      /\ \A k \in 1 .. depth : Opened(u.frames[k], B)
      /\ \A j, k \in 1 .. depth : j # k => u.frames[j].start # u.frames[k].start
  BY DEF Held, Last
<1>2. f \in Frames /\ Opened(f, B) /\ depth \in 1 .. depth
  BY <1>1
<1>3. Marks(f) /\ Framed(B, st) /\ Values(f, B, Len(B)) /\ B[st + 2] = <<"len", 0>>
  BY <1>2 DEF Opened
<1>4. /\ v = [buf |-> v.buf, frames |-> v.frames, offsets |-> v.offsets]
      /\ Buffer(C) /\ Len(C) = Len(B) /\ Len(B) \in Nat
      /\ C[st + 2] = <<"len", Len(B) - st>>
      /\ C[st + 3] = <<"head", [mask |-> f.mask, table |-> TableOf(f)]>>
      /\ \A i \in 1 .. Len(B) : /\ C[i][1] = B[i][1]
                                /\ i \notin {st + 2, st + 3} => C[i] = B[i]
      /\ v.frames \in Seq(Frames) /\ Len(v.frames) = depth - 1
      /\ \A k \in 1 .. depth - 1 : v.frames[k] = u.frames[k]
  <2>1. Framed(u.buf, Last(u.frames).start)
    BY <1>1, <1>3
  <2>2. /\ v = [buf |-> v.buf, frames |-> v.frames, offsets |-> v.offsets]
        /\ Buffer(v.buf) /\ Len(v.buf) = Len(u.buf) /\ Len(u.buf) \in Nat
        /\ v.buf[Last(u.frames).start + 2] = <<"len", Len(u.buf) - Last(u.frames).start>>
        /\ v.buf[Last(u.frames).start + 3]
             = <<"head", [mask |-> Last(u.frames).mask, table |-> TableOf(Last(u.frames))]>>
        /\ \A i \in 1 .. Len(u.buf) :
             /\ v.buf[i][1] = u.buf[i][1]
             /\ i \notin {Last(u.frames).start + 2, Last(u.frames).start + 3} => v.buf[i] = u.buf[i]
        /\ v.frames \in Seq(Frames) /\ Len(v.frames) = Len(u.frames) - 1
        /\ \A k \in 1 .. Len(u.frames) - 1 : v.frames[k] = u.frames[k]
    BY <1>1, <2>1, Ended
  <2>3. Last(u.frames) = f /\ Len(u.frames) = depth
    BY <1>1
  <2> HIDE DEF f, v
  <2>4. QED BY <2>2, <2>3
<1> HIDE DEF v, B, C
<1>5. HeadWords \in Nat /\ HeadWords >= 4 /\ st \in Nat /\ st + HeadWords <= Len(B)
      /\ B[st + 1][1] = "nyxo" /\ B[st + 3][1] = "head"
  BY <1>3, HeadIsLong DEF Framed
<1>6. Stays(B, C)
  <2>1. ASSUME NEW i \in 1 .. Len(B)
        PROVE  C[i] = B[i] \/ B[i] = <<"len", 0>> \/ (B[i][1] = "head" /\ B[i - 1] = <<"len", 0>>)
    <3>1. i = st + 2 => B[i] = <<"len", 0>>
      BY <1>3
    <3>2. i = st + 3 => B[i][1] = "head" /\ B[i - 1] = <<"len", 0>>
      <4>1. i = st + 3 => i - 1 = st + 2
        BY <1>5
      <4>2. QED BY <1>3, <1>5, <4>1
    <3>3. QED BY <1>4, <3>1, <3>2
  <2>2. QED BY <1>4, <2>1 DEF Stays
<1>7. ASSUME NEW k \in 1 .. depth - 1
      PROVE  Opened(u.frames[k], C)
  <2> DEFINE h == u.frames[k]
  <2>1. k \in 1 .. depth /\ k # depth
    OBVIOUS
  <2>2. h \in Frames /\ Opened(h, B) /\ h.start # st
    BY <1>1, <1>2, <2>1
  <2> HIDE DEF h
  <2>3. h.start \in Nat /\ h.start + HeadWords <= Len(B) /\ B[h.start + 2] = <<"len", 0>>
    BY <2>2 DEF Opened, Framed
  <2>4. h.start + 2 # st + 3
    <3>1. B[st + 3] # <<"len", 0>>
      BY <1>5
    <3>2. QED BY <2>3, <3>1
  <2>5. h.start + 2 \in 1 .. Len(B) /\ h.start + 2 # st + 2
    <3>1. Len(B) \in Nat
      BY <1>4
    <3> HIDE DEF st
    <3>2. h.start + 2 \in 1 .. Len(B)
      BY <1>5, <2>3, <3>1
    <3>3. h.start + 2 # st + 2
      BY <1>5, <2>2, <2>3
    <3>4. QED BY <3>2, <3>3
  <2>6. C[h.start + 2] = B[h.start + 2]
    BY <1>4, <2>4, <2>5
  <2>7. Len(B) \in Nat /\ Len(C) \in Nat /\ Len(B) <= Len(C) /\ \A i \in 1 .. Len(B) : C[i][1] = B[i][1]
    BY <1>4
  <2>8. Opened(h, C)
    BY <1>6, <2>2, <2>6, <2>7, OpenedStays
  <2>9. QED BY <2>8 DEF h
<1>8. Held(v, depth - 1)
  <2>1. \A k \in 1 .. depth - 1 : Opened(v.frames[k], C)
    BY <1>4, <1>7
  <2>2. \A j, k \in 1 .. depth - 1 : j # k => v.frames[j].start # v.frames[k].start
    <3>1. \A k \in 1 .. depth - 1 : k \in 1 .. depth
      OBVIOUS
    <3>2. \A k \in 1 .. depth - 1 : v.frames[k].start = u.frames[k].start
      BY <1>4
    <3>3. \A j, k \in 1 .. depth : j # k => u.frames[j].start # u.frames[k].start
      BY <1>1
    <3>4. QED BY <3>1, <3>2, <3>3
  <2>3. QED BY <1>4, <2>1, <2>2 DEF Held, C
<1> DEFINE n == Len(B) - st
<1>9. n \in Nat /\ HeadWords <= n /\ st + n = Len(B) /\ Len(C) = Len(B) /\ Len(B) \in Nat
  <2> HIDE DEF st
  <2>1. QED BY <1>4, <1>5
<1>10. /\ Values(f, C, Len(B))
       /\ \A i \in 1 .. Len(f.places) : C[f.places[i][2] + 1] = B[f.places[i][2] + 1]
  <2>1. Len(B) <= Len(B) /\ Len(B) \in Nat
    BY <1>4
  <2>2. QED BY <1>2, <1>3, <1>6, <2>1, ValuesStay
<1>11. Account(f, C) = Account(f, B)
  BY <1>2, <1>10, AccountStays
<1>12. C[st + 1][1] = "nyxo"
  <2>1. st + 1 \in 1 .. Len(B)
    <3>1. Len(B) \in Nat
      BY <1>4
    <3> HIDE DEF st
    <3>2. QED BY <1>5, <3>1
  <2>2. C[st + 1][1] = B[st + 1][1]
    BY <1>4, <2>1
  <2>3. QED BY <1>5, <2>2
<1>13. Whole(f, n, C)
  <2>1. C[st + 2] = <<"len", n>> /\ st + n <= Len(C) /\ Values(f, C, st + n)
    BY <1>4, <1>9, <1>10
  <2> HIDE DEF n
  <2>2. QED BY <1>3, <1>4, <1>9, <1>12, <2>1 DEF Whole
<1>14. Kept(C, Account(f, B))
  <2> HIDE DEF n
  <2>1. Whole(f, n, C) /\ Account(f, B) = Account(f, C) /\ f \in Frames /\ n \in Nat
    BY <1>2, <1>9, <1>11, <1>13
  <2>2. QED BY <2>1 DEF Kept
<1>15. QED BY <1>4, <1>6, <1>8, <1>14 DEF v, B, C

----------------------------------------------------------------------------
(* The calls of a record, and what they write where.                       *)

(* What is written of an object that is open was written by a call since   *)
(* which the object has been open.                                         *)
Traced(plan, i, frames, depth) ==
  \A k \in 1 .. depth : \A s \in SlotsOf(frames[k].places) :
    \E j \in 1 .. i : /\ plan[j] = <<"field", s>> /\ Open(plan, j) = k
                     /\ \A m \in j .. i : Open(plan, m) >= k

(* A call leaves what was written, or writes its slot in the last object.  *)
Adds(plan, i, before, d, after, e) ==
  \A k \in 1 .. e : \A s \in SlotsOf(after[k].places) :
    \/ k \in 1 .. d /\ s \in SlotsOf(before[k].places)
    \/ k = e /\ plan[i] = <<"field", s>>

(* What was written stays traced.                                          *)
LEMMA TracedOn ==
  ASSUME NEW plan, NEW i \in Nat \ {0}, NEW d \in Nat, NEW e \in Nat, e = Open(plan, i),
         NEW before, NEW after, Traced(plan, i - 1, before, d),
         Adds(plan, i, before, d, after, e)
  PROVE  Traced(plan, i, after, e)
<1> SUFFICES ASSUME NEW k \in 1 .. e, NEW s \in SlotsOf(after[k].places)
             PROVE  \E j \in 1 .. i : /\ plan[j] = <<"field", s>> /\ Open(plan, j) = k
                                     /\ \A m \in j .. i : Open(plan, m) >= k
  BY DEF Traced
<1>0. (k \in 1 .. d /\ s \in SlotsOf(before[k].places)) \/ (k = e /\ plan[i] = <<"field", s>>)
  BY DEF Adds
<1>1. CASE k \in 1 .. d /\ s \in SlotsOf(before[k].places)
  <2>1. PICK j \in 1 .. i - 1 : /\ plan[j] = <<"field", s>> /\ Open(plan, j) = k
                                /\ \A m \in j .. i - 1 : Open(plan, m) >= k
    BY <1>1 DEF Traced
  <2>2. \A m \in j .. i : m \in j .. i - 1 \/ m = i
    OBVIOUS
  <2>3. Open(plan, i) >= k /\ j \in 1 .. i
    OBVIOUS
  <2>4. QED BY <2>1, <2>2, <2>3
<1>2. CASE k = e /\ plan[i] = <<"field", s>>
  <2>1. i \in 1 .. i /\ \A m \in i .. i : m = i
    OBVIOUS
  <2>2. Open(plan, i) = k /\ Open(plan, i) >= k
    BY <1>2
  <2>3. QED BY <1>2, <2>1, <2>2
<1>3. QED BY <1>0, <1>1, <1>2

(* A slot that is about to be written has not been in the object.          *)
LEMMA SlotIsNew ==
  ASSUME WritesOnce, NEW plan \in Plans, NEW i \in DOMAIN plan, NEW s, plan[i] = <<"field", s>>,
         NEW frames, Traced(plan, i - 1, frames, Open(plan, i)), Open(plan, i) \in Nat \ {0}
  PROVE  s \notin SlotsOf(frames[Open(plan, i)].places)
<1> DEFINE d == Open(plan, i)
<1>1. DOMAIN plan = 1 .. Len(plan) /\ Len(plan) \in Nat
  BY RecordCalls
<1>2. SUFFICES ASSUME s \in SlotsOf(frames[d].places) PROVE FALSE
  OBVIOUS
<1>3. d \in 1 .. d
  OBVIOUS
<1>4. PICK j \in 1 .. i - 1 : /\ plan[j] = <<"field", s>> /\ Open(plan, j) = d
                              /\ \A m \in j .. i - 1 : Open(plan, m) >= d
  BY <1>2, <1>3 DEF Traced
<1>5. j \in DOMAIN plan /\ j < i
  BY <1>1
<1>6. plan[j] = plan[i] /\ plan[j][1] = "field" /\ Open(plan, j) = Open(plan, i)
  BY <1>4
<1>7. PICK m \in j .. i : Open(plan, m) < Open(plan, j)
  BY <1>5, <1>6 DEF WritesOnce
<1>8. m \in j .. i - 1 \/ m = i
  BY <1>1
<1>9. CASE m = i
  BY <1>4, <1>7, <1>9
<1>10. CASE m \in j .. i - 1
  <2>1. Open(plan, m) >= d /\ Open(plan, m) < d /\ m \in Nat \ {0}
    BY <1>4, <1>7, <1>10
  <2>2. Open(plan, m) \in Int
    BY <2>1, OpenSteps
  <2>3. QED BY <2>1, <2>2
<1>11. QED BY <1>8, <1>9, <1>10

(* The writer and the history behind the first i calls of a plan.          *)
Tracked(st, plan, i) ==
  /\ st = [w |-> st.w, written |-> st.written]
  /\ Held(st.w, Open(plan, i)) /\ Traced(plan, i, st.w.frames, Open(plan, i))
  /\ \A o \in st.written : Kept(st.w.buf, o)

(* One call more.                                                          *)
LEMMA CallKeeps ==
  ASSUME WritesOnce, NEW plan \in Plans, NEW i \in 1 .. Len(plan), NEW st, Tracked(st, plan, i - 1)
  PROVE  Tracked(Call(st, plan[i]), plan, i)
<1> DEFINE c == plan[i]
           u == st.w
           nx == Call(st, c)
           v == nx.w
           f == Last(u.frames)
           d == Open(plan, i - 1)
           e == Open(plan, i)
<1>1. /\ Len(plan) \in Nat /\ DOMAIN plan = 1 .. Len(plan) /\ c \in CallKinds
      /\ \A j \in 1 .. Len(plan) : Open(plan, j) >= 1
  BY RecordCalls
<1>2. i \in Nat \ {0} /\ i \in DOMAIN plan
  BY <1>1
<1>3. /\ Open(plan, 0) = 1 /\ e \in Int /\ d \in Int
      /\ c[1] = "begin" => e = d + 1
      /\ c[1] = "end" => e = d - 1
      /\ c[1] = "field" => e = d
  BY <1>2, OpenSteps
<1>4. d \in Nat \ {0} /\ e \in Nat \ {0}
  <2>1. e >= 1
    BY <1>1
  <2>2. i - 1 = 0 \/ i - 1 \in 1 .. Len(plan)
    BY <1>1
  <2>3. d >= 1
    BY <1>1, <1>3, <2>2
  <2>4. QED BY <1>3, <2>1, <2>3
<1>5. /\ st = [w |-> u, written |-> st.written] /\ Held(u, d) /\ Traced(plan, i - 1, u.frames, d)
      /\ \A o \in st.written : Kept(u.buf, o)
  BY DEF Tracked
<1>6. /\ nx = [w |-> v, written |-> nx.written]
      /\ c[1] \in {"begin", "end", "field"}
      /\ c[1] = "begin" => v = BeginObject(u) /\ nx.written = st.written
      /\ c[1] = "end" => v = EndObject(u) /\ nx.written = st.written \cup {Account(f, u.buf)}
      /\ c[1] = "field" => /\ c = <<"field", c[2]>> /\ c[2] \in Slots
                           /\ v = WriteField(u, c[2], Value(c[2], Len(u.frames)))
                           /\ nx.written = st.written
  <2>1. st = [w |-> st.w, written |-> st.written]
    BY <1>5
  <2> HIDE DEF c
  <2>2. QED BY <1>1, <2>1, CallIs DEF Account
<1>7. Len(u.frames) = d /\ f = u.frames[d]
  BY <1>4, <1>5 DEF Held, Last
<1> HIDE DEF nx, v, u, f, c
<1>8. SUFFICES /\ Held(v, e) /\ Traced(plan, i, v.frames, e) /\ Stays(u.buf, v.buf)
               /\ \A o \in nx.written \ st.written : Kept(v.buf, o)
  <2> SUFFICES ASSUME /\ Held(v, e) /\ Traced(plan, i, v.frames, e) /\ Stays(u.buf, v.buf)
                      /\ \A o \in nx.written \ st.written : Kept(v.buf, o)
               PROVE  Tracked(nx, plan, i)
    BY DEF nx, c
  <2>1. \A o \in st.written : Kept(v.buf, o)
    BY <1>5, KeptStays
  <2>2. QED BY <1>6, <2>1 DEF Tracked, v
<1> HIDE DEF d, e
<1>9. CASE c[1] = "begin"
  <2>1. e = d + 1 /\ v = BeginObject(u) /\ nx.written = st.written
    BY <1>3, <1>6, <1>9
  <2>2. /\ Held(v, e) /\ Stays(u.buf, v.buf)
        /\ \A k \in 1 .. d : v.frames[k] = u.frames[k]
        /\ v.frames[e].places = << >>
    BY <1>4, <1>5, <2>1, HeldBegins
  <2>3. Traced(plan, i, v.frames, e)
    <3>1. ASSUME NEW k \in 1 .. e, NEW s \in SlotsOf(v.frames[k].places)
          PROVE  \/ k \in 1 .. d /\ s \in SlotsOf(u.frames[k].places)
                 \/ k = e /\ plan[i] = <<"field", s>>
      <4>1. k # e
        <5>1. SlotsOf(v.frames[e].places) = {}
          BY <2>2 DEF SlotsOf
        <5>2. QED BY <3>1, <5>1
      <4>2. k \in 1 .. d
        BY <1>4, <2>1, <4>1
      <4>3. QED BY <2>2, <3>1, <4>2
    <3>2. e = Open(plan, i)
      BY DEF e
    <3>3. Adds(plan, i, u.frames, d, v.frames, e)
      BY <3>1 DEF Adds
    <3>4. d \in Nat /\ e \in Nat
      BY <1>4
    <3>5. QED BY <1>2, <1>5, <3>2, <3>3, <3>4, TracedOn, Zenon
  <2>4. QED BY <2>1, <2>2, <2>3
<1>10. CASE c[1] = "end"
  <2>1. e = d - 1 /\ v = EndObject(u) /\ nx.written = st.written \cup {Account(f, u.buf)}
    BY <1>3, <1>6, <1>10
  <2>2. /\ Held(v, e) /\ Stays(u.buf, v.buf)
        /\ \A k \in 1 .. e : v.frames[k] = u.frames[k]
        /\ Kept(v.buf, Account(f, u.buf))
    BY <1>4, <1>5, <1>7, <2>1, HeldEnds
  <2>3. Traced(plan, i, v.frames, e)
    <3>1. ASSUME NEW k \in 1 .. e, NEW s \in SlotsOf(v.frames[k].places)
          PROVE  \/ k \in 1 .. d /\ s \in SlotsOf(u.frames[k].places)
                 \/ k = e /\ plan[i] = <<"field", s>>
      BY <1>4, <2>1, <2>2, <3>1
    <3>2. e = Open(plan, i)
      BY DEF e
    <3>3. Adds(plan, i, u.frames, d, v.frames, e)
      BY <3>1 DEF Adds
    <3>4. d \in Nat /\ e \in Nat
      BY <1>4
    <3>5. QED BY <1>2, <1>5, <3>2, <3>3, <3>4, TracedOn, Zenon
  <2>4. QED BY <2>1, <2>2, <2>3
<1>11. CASE c[1] = "field"
  <2> DEFINE s == c[2]
  <2>1. /\ e = d /\ c = <<"field", s>> /\ s \in Slots /\ nx.written = st.written
        /\ v = WriteField(u, s, Value(s, Len(u.frames)))
    BY <1>3, <1>6, <1>11
  <2> HIDE DEF s
  <2>2. s \notin SlotsOf(u.frames[d].places)
    <3>1. plan[i] = <<"field", s>> /\ Open(plan, i) = d
      BY <2>1 DEF c, e
    <3>2. QED BY <1>2, <1>4, <1>5, <3>1, SlotIsNew
  <2>3. /\ Held(v, d) /\ Stays(u.buf, v.buf)
        /\ \A k \in 1 .. d - 1 : v.frames[k] = u.frames[k]
        /\ SlotsOf(v.frames[d].places) \subseteq SlotsOf(u.frames[d].places) \cup {s}
    BY <1>4, <1>5, <2>1, <2>2, HeldWrites
  <2>4. Traced(plan, i, v.frames, e)
    <3>1. ASSUME NEW k \in 1 .. e, NEW t \in SlotsOf(v.frames[k].places)
          PROVE  \/ k \in 1 .. d /\ t \in SlotsOf(u.frames[k].places)
                 \/ k = e /\ plan[i] = <<"field", t>>
      <4>1. CASE k \in 1 .. d - 1
        BY <1>4, <2>3, <3>1, <4>1
      <4>2. CASE k = d
        <5>1. t \in SlotsOf(u.frames[d].places) \/ t = s
          BY <2>3, <3>1, <4>2
        <5>2. plan[i] = <<"field", s>>
          BY <2>1 DEF c
        <5>3. QED BY <1>4, <2>1, <4>2, <5>1, <5>2
      <4>3. QED BY <1>4, <2>1, <4>1, <4>2
    <3>2. e = Open(plan, i)
      BY DEF e
    <3>3. Adds(plan, i, u.frames, d, v.frames, e)
      BY <3>1 DEF Adds
    <3>4. d \in Nat /\ e \in Nat
      BY <1>4
    <3>5. QED BY <1>2, <1>5, <3>2, <3>3, <3>4, TracedOn, Zenon
  <2>5. QED BY <2>1, <2>3, <2>4
<1>12. QED BY <1>6, <1>9, <1>10, <1>11

(* A record leaves every object that was ended whole in the buffer.        *)
LEMMA RecordKeeps ==
  ASSUME WritesOnce, NEW u, u = [buf |-> u.buf, frames |-> << >>, offsets |-> u.offsets], Buffer(u.buf),
         NEW done, \A o \in done : Kept(u.buf, o), NEW plan \in Plans
  PROVE  LET st == AfterCalls([w |-> u, written |-> done], << <<"begin">> >> \o plan \o << <<"end">> >>)
         IN  \A o \in st.written : Kept(st.w.buf, o)
<1> DEFINE n == Len(plan)
           calls == << <<"begin">> >> \o plan \o << <<"end">> >>
           start == [w |-> u, written |-> done]
<1>1. n \in Nat /\ Open(plan, n) = 1
  BY RecordCalls
<1>2. /\ Len(calls) = n + 2 /\ calls[1] = <<"begin">> /\ calls[n + 2] = <<"end">>
      /\ \A i \in 1 .. n : calls[i + 1] = plan[i]
  BY RecordCalls
<1>3. PICK after : /\ after[0] = start
                   /\ \A i \in 1 .. Len(calls) : after[i] = Call(after[i - 1], calls[i])
                   /\ AfterCalls(start, calls) = after[Len(calls)]
  <2>1. Len(calls) \in Nat
    BY <1>1, <1>2
  <2> HIDE DEF calls, start
  <2>2. QED BY ZenonT(60), <2>1, CallByCall
<1> HIDE DEF calls
<1>4. Open(plan, 0) = 1
  <2>1. 1 \in Nat \ {0}
    OBVIOUS
  <2>2. QED BY <2>1, OpenSteps
<1> DEFINE Step(i) == Tracked(after[i + 1], plan, i)
           Steps == {i \in 0 .. n : Step(i)}
<1>5. Step(0)
  <2>1. after[1] = Call(start, <<"begin">>)
    <3>1. 1 \in 1 .. Len(calls) /\ 1 - 1 = 0
      BY <1>1, <1>2
    <3>2. QED BY <1>2, <1>3, <3>1
  <2>2. /\ start = [w |-> start.w, written |-> start.written] /\ start.w = u /\ start.written = done
        /\ <<"begin">> \in CallKinds /\ <<"begin">>[1] = "begin"
    BY DEF CallKinds
  <2> HIDE DEF start
  <2>3. /\ after[1] = [w |-> after[1].w, written |-> after[1].written]
        /\ after[1].w = BeginObject(u) /\ after[1].written = done
    BY <2>1, <2>2, CallIs
  <2>4. Held(u, 0)
    <3>1. u.frames = << >>
      OBVIOUS
    <3>2. u = [buf |-> u.buf, frames |-> u.frames, offsets |-> u.offsets]
      BY <3>1
    <3>3. Len(u.frames) = 0 /\ u.frames \in Seq(Frames)
      BY <3>1
    <3>4. (\A k \in 1 .. 0 : Opened(u.frames[k], u.buf))
          /\ \A j, k \in 1 .. 0 : j # k => u.frames[j].start # u.frames[k].start
      OBVIOUS
    <3>5. QED BY <3>2, <3>3, <3>4 DEF Held
  <2> DEFINE v == BeginObject(u)
  <2>5. Held(v, 0 + 1) /\ Stays(u.buf, v.buf) /\ v.frames[0 + 1].places = << >>
    BY <2>4, HeldBegins
  <2> HIDE DEF v
  <2>6. Traced(plan, 0, v.frames, 1)
    <3>1. \A k \in 1 .. 1 : k = 1
      OBVIOUS
    <3>2. SlotsOf(v.frames[1].places) = {}
      BY <2>5 DEF SlotsOf
    <3>3. QED BY <3>1, <3>2 DEF Traced
  <2>7. \A o \in done : Kept(v.buf, o)
    BY <2>5, KeptStays
  <2>8. Held(v, 1)
    BY <2>5
  <2>9. after[0 + 1] = after[1]
    OBVIOUS
  <2>10. Tracked(after[1], plan, 0)
    BY <1>4, <2>3, <2>6, <2>7, <2>8 DEF Tracked, v
  <2>11. QED BY <2>9, <2>10
<1>6. ASSUME NEW i \in 0 .. n - 1, i \in Steps
      PROVE  i + 1 \in Steps
  <2>1. i + 1 \in 1 .. n /\ i + 1 \in 0 .. n /\ (i + 1) - 1 = i /\ i + 2 \in 1 .. n + 2
        /\ (i + 2) - 1 = i + 1 /\ (i + 1) + 1 = i + 2
    BY <1>1
  <2>2. Tracked(after[i + 1], plan, (i + 1) - 1)
    BY <1>6, <2>1
  <2>3. Tracked(Call(after[i + 1], plan[i + 1]), plan, i + 1)
    BY <2>1, <2>2, CallKeeps
  <2>4. after[i + 2] = Call(after[i + 1], plan[i + 1])
    <3>1. calls[i + 2] = plan[i + 1]
      BY <1>2, <2>1
    <3>2. after[i + 2] = Call(after[(i + 2) - 1], calls[i + 2])
      BY <1>2, <1>3, <2>1
    <3>3. QED BY <2>1, <3>1, <3>2
  <2>5. Step(i + 1)
    BY <2>1, <2>3, <2>4
  <2> HIDE DEF Step
  <2>6. QED BY <2>1, <2>5
<1>7. Step(n)
  <2>1. 0 \in Steps
    BY <1>1, <1>5
  <2> HIDE DEF Step, Steps
  <2>2. 0 \in Int /\ n \in Int /\ (0 <= n => 0 \in Steps)
    BY <1>1, <2>1
  <2>3. 0 .. n \subseteq Steps
    BY <1>6, <2>2, Upward, Zenon
  <2>4. n \in Steps
    BY <1>1, <2>3
  <2>5. QED BY <2>4 DEF Steps
<1> DEFINE st == after[n + 1]
           nx == after[n + 2]
           f == Last(st.w.frames)
<1>8. nx = Call(st, <<"end">>)
  <2>1. n + 2 \in 1 .. n + 2 /\ (n + 2) - 1 = n + 1
    BY <1>1
  <2>2. QED BY <1>2, <1>3, <2>1
<1>9. /\ st = [w |-> st.w, written |-> st.written] /\ Held(st.w, 1)
      /\ \A o \in st.written : Kept(st.w.buf, o)
  BY <1>1, <1>7 DEF Tracked
<1> HIDE DEF nx, st
<1>10. nx.w = EndObject(st.w) /\ nx.written = st.written \cup {Account(f, st.w.buf)}
  <2>1. <<"end">> \in CallKinds /\ <<"end">>[1] = "end"
    BY DEF CallKinds
  <2>2. st = [w |-> st.w, written |-> st.written]
    BY <1>9
  <2>3. QED BY <1>8, <2>1, <2>2, CallIs DEF Account
<1>11. f = st.w.frames[1]
  BY <1>9 DEF Held, Last
<1> HIDE DEF f
<1>12. Stays(st.w.buf, nx.w.buf) /\ Kept(nx.w.buf, Account(f, st.w.buf))
  <2>1. 1 \in Nat \ {0}
    OBVIOUS
  <2>2. QED BY <1>9, <1>10, <1>11, <2>1, HeldEnds
<1>13. \A o \in nx.written : Kept(nx.w.buf, o)
  BY <1>9, <1>10, <1>12, KeptStays
<1>14. AfterCalls(start, calls) = nx
  BY <1>2, <1>3 DEF nx
<1>15. QED BY <1>13, <1>14 DEF calls, start

----------------------------------------------------------------------------
(* What is read of the file.                                               *)

(* Every object that was ended lies whole in the writer's buffer.          *)
KeptInv == \A o \in written : Kept(w.buf, o)

(* The writer's buffer is in the file and what is still to be written.     *)
LEMMA DataIs ==
  ASSUME RowInv
  PROVE  \A i \in 1 .. Len(w.buf) : (file \o todo)[DataStart + i] = w.buf[i]
<1> DEFINE head == HeaderBytes \o w.buf
           data == DataStart + Len(w.buf)
           foot == Footer(Places, data)
<1>1. DataStart \in Nat /\ Buffer(HeaderBytes) /\ Len(HeaderBytes) = DataStart
  BY HeaderIs
<1>2. Buffer(w.buf)
  BY DEF RowInv, WriterInv
<1>3. /\ Buffer(head) /\ Len(head) = data /\ Len(w.buf) \in Nat
      /\ \A i \in 1 .. Len(w.buf) : head[DataStart + i] = w.buf[i]
  BY <1>1, <1>2, BufferGrows
<1>4. (file \o todo) = IF pc = "end" THEN head \o foot ELSE head
  BY DEF RowInv, FileInv
<1>5. CASE pc # "end"
  BY <1>3, <1>4, <1>5
<1>6. CASE pc = "end"
  <2>1. Places \in Seq(Nat)
    <3>1. laid \in Seq(Nat \X Nat)
      BY DEF RowInv, LaidInv
    <3>2. QED BY <3>1, PlacesAre
  <2>2. data \in Nat
    BY <1>1, <1>3
  <2>3. IsSeq(head) /\ IsSeq(foot)
    BY <1>3, <2>1, <2>2, FooterIs DEF Buffer
  <2> HIDE DEF head, foot
  <2>4. \A i \in 1 .. Len(head) : (head \o foot)[i] = head[i]
    BY <2>3, Joined
  <2>5. \A i \in 1 .. Len(w.buf) : DataStart + i \in 1 .. Len(head)
    BY <1>1, <1>3
  <2>6. QED BY <1>3, <1>4, <1>6, <2>4, <2>5
<1>7. QED BY <1>5, <1>6

(* What was written of an object is read of it.                            *)
Reads(data, o) ==
  /\ \A x \in o.fields : x[2] - o.at < OffMod =>
       ResolveSlot(data, o.at, x[1]) = x[2] /\ data[x[2] + 1] = <<"val", x[3]>>
  /\ \A s \in Slots : (\A x \in o.fields : x[1] # s) => ResolveSlot(data, o.at, s) = Nowhere
  /\ DecodeObject(data, o.at) =
       {<<s, ResolveSlot(data, o.at, s)>> : s \in {t \in Slots : ResolveSlot(data, o.at, t) # Nowhere}}

(* A whole one reads.                                                      *)
LEMMA WholeReads ==
  ASSUME NEW data, NEW b, NEW f, NEW n, Whole(f, n, b),
         \A i \in 1 .. f.start + n : data[DataStart + i] = b[i]
  PROVE  Reads(data, Account(f, b))
BY ObjectReads DEF Reads

(* An object that is complete in the file is read as it was written.       *)
LEMMA FieldsRead ==
  ASSUME RowInv, KeptInv
  PROVE  FieldsReadBack
<1> SUFFICES ASSUME NEW o \in written, CompleteEnd(file, o.at) # Nowhere
             PROVE  Reads(file, o)
  BY DEF FieldsReadBack, Reads
<1>1. PICK f \in Frames, n \in Nat : Whole(f, n, w.buf) /\ o = Account(f, w.buf)
  BY DEF KeptInv, Kept
<1> DEFINE B == w.buf
           at == o.at
           whole == file \o todo
<1>2. at = DataStart + f.start /\ f.start \in Nat
  BY <1>1 DEF Account, Frames
<1>3. /\ DataStart \in Nat /\ HeadWords \in Nat /\ HeadWords >= 4
      /\ HeadWords <= n /\ f.start + n <= Len(B) /\ B[f.start + 2] = <<"len", n>>
  BY <1>1, HeaderIs, HeadIsLong DEF Whole
<1>4. /\ Len(file) \in Nat /\ Len(B) \in Nat
      /\ \A i \in 1 .. Len(file) : whole[i] = file[i]
  BY WholeIs
<1>5. \A i \in 1 .. Len(B) : whole[DataStart + i] = B[i]
  BY DataIs
<1>6. ~(at + 2 > Len(file)) /\ ~(at + file[at + 2][2] > Len(file))
  BY DEF CompleteEnd
<1> HIDE DEF B, at, whole
<1>7. file[at + 2] = <<"len", n>>
  <2>1. f.start + 2 \in 1 .. Len(B) /\ DataStart + (f.start + 2) = at + 2 /\ at + 2 \in 1 .. Len(file)
    <3>1. Len(file) \in Nat /\ Len(B) \in Nat
      BY <1>4
    <3>2. ~(at + 2 > Len(file))
      BY <1>6
    <3>3. f.start + 4 <= Len(B)
      BY <1>2, <1>3, <3>1
    <3>4. f.start + 2 \in 1 .. Len(B)
      BY <1>2, <3>1, <3>3
    <3>5. DataStart + (f.start + 2) = at + 2 /\ at + 2 \in Nat /\ at + 2 >= 1
      BY <1>2, <1>3
    <3>6. at + 2 \in 1 .. Len(file)
      BY <3>1, <3>2, <3>5
    <3>7. QED BY <3>4, <3>5, <3>6
  <2>2. file[at + 2] = whole[at + 2] /\ whole[at + 2] = B[f.start + 2]
    BY <1>4, <1>5, <2>1
  <2>3. QED BY <1>3, <2>2
<1>8. at + n <= Len(file)
  BY <1>2, <1>3, <1>4, <1>6, <1>7
<1>9. ASSUME NEW i \in 1 .. f.start + n
      PROVE  file[DataStart + i] = B[i]
  <2>1. i \in 1 .. Len(B) /\ DataStart + i \in 1 .. Len(file)
    BY <1>2, <1>3, <1>4, <1>8
  <2>2. QED BY <1>4, <1>5, <2>1
<1>10. Whole(f, n, B) /\ o = Account(f, B)
  BY <1>1 DEF B
<1>11. \A i \in 1 .. f.start + n : file[DataStart + i] = B[i]
  BY <1>9
<1>12. Reads(file, Account(f, B))
  BY <1>10, <1>11, WholeReads
<1>13. QED BY <1>10, <1>12

(* A record leaves the objects of the ones before it, and its own, whole.  *)
LEMMA PutRecordKeepsObjects ==
  ASSUME WritesOnce, RowInv, KeptInv, PutRecord
  PROVE  KeptInv'
<1>1. w = [buf |-> w.buf, frames |-> << >>, offsets |-> w.offsets] /\ Buffer(w.buf)
  BY DEF RowInv, WriterInv
<1>2. PICK plan \in Plans :
        LET st == AfterCalls([w |-> w, written |-> written], << <<"begin">> >> \o plan \o << <<"end">> >>)
        IN  w' = st.w /\ written' = st.written
  BY DEF PutRecord
<1> DEFINE st == AfterCalls([w |-> w, written |-> written], << <<"begin">> >> \o plan \o << <<"end">> >>)
<1>3. \A o \in st.written : Kept(st.w.buf, o)
  BY <1>1, RecordKeeps DEF KeptInv
<1>4. w' = st.w /\ written' = st.written
  BY <1>2
<1> HIDE DEF st
<1>5. QED BY <1>3, <1>4 DEF KeptInv

(* Where no record writes a slot again in one object, an object that a     *)
(* reader takes as complete holds what was written: each slot resolves to  *)
(* its value unless it lies beyond the width of an offset, every other     *)
(* slot to nothing, and decode_object agrees with resolve_slot, whatever   *)
(* the order of the writes and the objects nested between them.            *)
THEOREM FieldsAreReadBack ==
  ASSUME WritesOnce
  PROVE  SafetySpec => []FieldsReadBack
<1>1. Init => KeptInv
  BY DEF Init, KeptInv
<1>2. RowInv /\ KeptInv /\ [Next]_vars => KeptInv'
  <2> SUFFICES ASSUME RowInv, KeptInv, [Next]_vars PROVE KeptInv'
    OBVIOUS
  <2>1. CASE PutRecord
    BY <2>1, PutRecordKeepsObjects
  <2>2. CASE WritePart \/ HeaderWritten \/ Flushed \/ Seal \/ Read \/ UNCHANGED vars
    <3>1. UNCHANGED <<w, written>>
      BY <2>2 DEF WritePart, HeaderWritten, Flushed, Seal, Read, Poll, Scan, Check, vars, prodVars
    <3>2. QED BY <3>1 DEF KeptInv
  <2>3. QED BY <2>1, <2>2 DEF Next, Produce
<1>3. RowInv /\ KeptInv => FieldsReadBack
  BY FieldsRead
<1>4. QED BY <1>1, <1>2, <1>3, RowInvariant, PTL DEF SafetySpec
=============================================================================
