---------------------------- MODULE PaxPageProofs ----------------------------
(***************************************************************************)
(* What a page of the PAX layout consists of, for every number of records, *)
(* schema and cells: where encode_page puts each column, bit, value and    *)
(* text, and that the readers of a page find them there, or find that the  *)
(* page is not complete, at every cut of a file.                           *)
(***************************************************************************)
EXTENDS PaxPage, SequenceLemmas

----------------------------------------------------------------------------
(* Cells, and the parts of a column.                                       *)

Kinds == {"num", "real", "text", "null"}
Cells == {Absent, <<"null">>} \cup ({"num", "real"} \X Nat) \cup ({"text"} \X Nat \X Nat)

(* Of the words of a page only the first is a page's magic, none a         *)
(* footer's.                                                               *)
Inner(s) == \A j \in 1 .. Len(s) : s[j][1] # "page" /\ s[j][1] # "foot"

(* A text's length in words.                                               *)
LEMMA TextIsWords ==
  ASSUME NEW cell \in Cells
  PROVE  TextWords(cell) \in Nat
BY DEF TextWords, Cells, Absent

(* A page's bitmap takes two words at least.                               *)
LEMMA BitmapIsWords ==
  ASSUME NEW n \in Nat \ {0}
  PROVE  BitmapWords(n) \in Nat /\ BitmapWords(n) >= 2 /\ BitmapWords(n) % 2 = 0
BY DEF BitmapWords

(* Padding.                                                                *)
LEMMA PadIs ==
  ASSUME NEW k \in Nat
  PROVE  IsSeq(Pad(k)) /\ Len(Pad(k)) = k /\ Inner(Pad(k)) /\ \A i \in 1 .. k : Pad(k)[i] = <<"pad", 0>>
<1>1. Pad(k) \in Seq({<<"pad", 0>>}) /\ Len(Pad(k)) = k /\ \A i \in 1 .. k : Pad(k)[i] = <<"pad", 0>>
  BY DEF Pad
<1>2. Inner(Pad(k))
  BY <1>1 DEF Inner
<1>3. QED BY <1>1, <1>2 DEF IsSeq

(* A u64.                                                                  *)
LEMMA WideIs ==
  ASSUME NEW tag, NEW v, tag # "page", tag # "foot"
  PROVE  /\ IsSeq(Wide(tag, v)) /\ Len(Wide(tag, v)) = 2 /\ Inner(Wide(tag, v))
         /\ Wide(tag, v)[1] = <<tag, v>> /\ Wide(tag, v)[2] = <<"pad", 0>>
<1> DEFINE a == <<tag, v>>
           b == <<"pad", 0>>
<1>1. a[1] = tag /\ b[1] = "pad"
  OBVIOUS
<1> HIDE DEF a, b
<1>2. <<a, b>> \in Seq({a, b}) /\ Len(<<a, b>>) = 2 /\ <<a, b>>[1] = a /\ <<a, b>>[2] = b
  OBVIOUS
<1>3. Inner(<<a, b>>)
  BY <1>1, <1>2 DEF Inner
<1>4. QED BY <1>2, <1>3 DEF Wide, IsSeq, a, b

(* Both parts of a sequence without these words have none.                 *)
LEMMA InnerJoined ==
  ASSUME NEW a, NEW b, IsSeq(a), IsSeq(b), Inner(a), Inner(b)
  PROVE  Inner(a \o b)
<1>1. /\ Len(a) \in Nat /\ Len(b) \in Nat /\ Len(a \o b) = Len(a) + Len(b)
      /\ \A i \in 1 .. Len(a) : (a \o b)[i] = a[i]
      /\ \A i \in 1 .. Len(b) : (a \o b)[Len(a) + i] = b[i]
  BY Joined
<1> DEFINE c == a \o b
<1> HIDE DEF c
<1>2. SUFFICES ASSUME NEW j \in 1 .. Len(c)
               PROVE  c[j][1] # "page" /\ c[j][1] # "foot"
  BY DEF Inner, c
<1>3. CASE j <= Len(a)
  BY <1>1, <1>3 DEF Inner, c
<1>4. CASE j > Len(a)
  <2>1. j - Len(a) \in 1 .. Len(b) /\ Len(a) + (j - Len(a)) = j
    BY <1>1, <1>4 DEF c
  <2>2. c[j] = b[j - Len(a)]
    BY <1>1, <2>1 DEF c
  <2>3. QED BY <2>1, <2>2 DEF Inner
<1>5. QED BY <1>1, <1>3, <1>4 DEF c

(* Nor has a sequence of such sequences.                                   *)
LEMMA InnerFlat ==
  ASSUME NEW n \in Nat, NEW f, \A i \in 1 .. n : IsSeq(f[i]) /\ Inner(f[i])
  PROVE  Inner(FlattenSeq([i \in 1 .. n |-> f[i]]))
<1> DEFINE flat == FlattenSeq([i \in 1 .. n |-> f[i]])
<1>1. PICK start \in [1 .. n + 1 -> Nat] :
        /\ start[1] = 0 /\ Len(flat) = start[n + 1]
        /\ \A i \in 1 .. n :
             /\ Len(f[i]) \in Nat
             /\ start[i + 1] = start[i] + Len(f[i])
             /\ start[i + 1] <= start[n + 1]
             /\ \A j \in 1 .. Len(f[i]) : flat[start[i] + j] = f[i][j]
  <2>1. \A i \in 1 .. n : IsSeq(f[i])
    OBVIOUS
  <2>2. Flattened(flat, n, f)
    BY <2>1, FlattenAny
  <2> HIDE DEF flat
  <2>3. QED BY <2>2 DEF Flattened
<1> HIDE DEF flat
<1>2. SUFFICES ASSUME NEW j \in 1 .. Len(flat)
               PROVE  flat[j][1] # "page" /\ flat[j][1] # "foot"
  BY DEF Inner, flat
<1> DEFINE T == {k \in 1 .. n + 1 : start[k] < j}
<1>3. PICK k \in 1 .. n : start[k] < j /\ ~(start[k + 1] < j)
  <2>1. SUFFICES ASSUME \A k \in 1 .. n : start[k] < j => start[k + 1] < j
                 PROVE  FALSE
    OBVIOUS
  <2>2. 1 \in T
    BY <1>1
  <2>3. \A k \in 1 .. (n + 1) - 1 : k \in T => k + 1 \in T
    BY <2>1
  <2> HIDE DEF T
  <2>4. 1 \in Int /\ n + 1 \in Int
    OBVIOUS
  <2>5. 1 .. n + 1 \subseteq T
    BY <2>2, <2>3, <2>4, Upward, Zenon
  <2>6. start[n + 1] < j
    BY <2>5 DEF T
  <2>7. QED BY <1>1, <2>6
<1>4. j - start[k] \in 1 .. Len(f[k]) /\ start[k] + (j - start[k]) = j
  BY SMTT(60), <1>1, <1>3
<1>5. flat[j] = f[k][j - start[k]]
  BY <1>1, <1>4
<1>6. QED BY <1>4, <1>5 DEF Inner

----------------------------------------------------------------------------
(* A column.                                                               *)

(* What a fixed column holds of a cell.                                    *)
Stored(cell, sigil) == IF cell[1] = (IF sigil = "null" THEN "num" ELSE sigil) THEN cell ELSE Zero

(* Where the text of record i ends, in a column of n records.              *)
TextEnd(c, n, i) == c[BitmapWords(n) + i + 1][2]

(* The words behind a column's bitmap whose number is known from n.        *)
Known(n, sigil) == IF IsVar(sigil) THEN n + 1 ELSE 2 * n

(* The column has its cells' bits, and their values or texts.              *)
Holds(c, col, n, sigil) ==
  /\ c[1][2] = {i \in 1 .. n : Populated(col[i])}
  /\ ~IsVar(sigil) =>
       /\ Len(c) = BitmapWords(n) + 2 * n
       /\ \A i \in 1 .. n : c[BitmapWords(n) + 2 * i - 1][2] = Stored(col[i], sigil)
  /\ IsVar(sigil) =>
       /\ TextEnd(c, n, 0) = 0 /\ \A i \in 0 .. n : TextEnd(c, n, i) \in Nat
       /\ Len(c) = BitmapWords(n) + n + 1 + TextEnd(c, n, n)
       /\ \A i \in 1 .. n :
            /\ TextEnd(c, n, i) = TextEnd(c, n, i - 1) + TextWords(col[i])
            /\ TextEnd(c, n, i) <= TextEnd(c, n, n)
            /\ \A j \in 1 .. TextWords(col[i]) :
                 c[BitmapWords(n) + n + 1 + TextEnd(c, n, i - 1) + j] = <<"chr", <<col[i], j>> >>

(* The bitmap.                                                             *)
LEMMA BitmapIs ==
  ASSUME NEW n \in Nat \ {0}, NEW col \in [1 .. n -> Cells]
  PROVE  /\ IsSeq(Bitmap(col)) /\ Len(Bitmap(col)) = BitmapWords(n) /\ Inner(Bitmap(col))
         /\ Bitmap(col)[1][2] = {i \in 1 .. n : Populated(col[i])}
<1> DEFINE word == <<"bits", {i \in DOMAIN col : Populated(col[i])}>>
           bits == <<word>>
           pad == Pad(BitmapWords(n) - 1)
<1>1. word[1] = "bits" /\ word[2] = {i \in 1 .. n : Populated(col[i])}
  OBVIOUS
<1>2. Len(col) = n /\ DOMAIN col = 1 .. n
  OBVIOUS
<1> HIDE DEF word
<1>3. bits \in Seq({word}) /\ Len(bits) = 1 /\ bits[1] = word
  OBVIOUS
<1>4. Inner(bits)
  BY <1>1, <1>3 DEF Inner
<1>5. IsSeq(bits)
  BY <1>3 DEF IsSeq
<1>6. BitmapWords(n) - 1 \in Nat
  BY SMTT(60), BitmapIsWords
<1> HIDE DEF bits
<1>7. IsSeq(pad) /\ Len(pad) = BitmapWords(n) - 1 /\ Inner(pad)
  BY <1>6, PadIs
<1> HIDE DEF pad
<1>8. /\ IsSeq(bits \o pad) /\ Len(bits \o pad) = 1 + (BitmapWords(n) - 1) /\ (bits \o pad)[1] = word
  <2>1. 1 \in 1 .. Len(bits)
    BY <1>3
  <2>2. /\ IsSeq(bits \o pad) /\ Len(bits \o pad) = Len(bits) + Len(pad)
        /\ \A i \in 1 .. Len(bits) : (bits \o pad)[i] = bits[i]
    BY <1>5, <1>7, Joined
  <2>3. QED BY <1>3, <1>7, <2>1, <2>2
<1>9. Inner(bits \o pad)
  BY <1>4, <1>5, <1>7, InnerJoined
<1>10. Bitmap(col) = bits \o pad
  BY <1>2 DEF Bitmap, bits, pad, word
<1>11. Len(Bitmap(col)) = BitmapWords(n)
  BY <1>8, <1>10, BitmapIsWords
<1>12. QED BY <1>1, <1>8, <1>9, <1>10, <1>11

(* Eight bytes for each record.                                            *)
LEMMA FixedIs ==
  ASSUME NEW n \in Nat \ {0}, NEW col \in [1 .. n -> Cells], NEW sigil
  PROVE  /\ IsSeq(FixedColumn(col, sigil)) /\ Len(FixedColumn(col, sigil)) = 2 * n
         /\ Inner(FixedColumn(col, sigil))
         /\ \A i \in 1 .. n : FixedColumn(col, sigil)[2 * i - 1][2] = Stored(col[i], sigil)
<1> DEFINE f == [i \in 1 .. n |-> Wide("cell", Stored(col[i], sigil))]
           flat == FlattenSeq([i \in 1 .. n |-> f[i]])
<1>1. \A i \in 1 .. n : /\ IsSeq(f[i]) /\ Len(f[i]) = 2 /\ Inner(f[i])
                        /\ f[i][1] = <<"cell", Stored(col[i], sigil)>>
  <2> SUFFICES ASSUME NEW i \in 1 .. n
               PROVE  /\ IsSeq(f[i]) /\ Len(f[i]) = 2 /\ Inner(f[i])
                      /\ f[i][1] = <<"cell", Stored(col[i], sigil)>>
    OBVIOUS
  <2>1. f[i] = Wide("cell", Stored(col[i], sigil))
    OBVIOUS
  <2> HIDE DEF f
  <2>2. QED BY <2>1, WideIs
<1>2. FixedColumn(col, sigil) = flat
  <2>1. DOMAIN col = 1 .. n
    OBVIOUS
  <2>2. [i \in DOMAIN col |->
           Wide("cell", IF col[i][1] = (IF sigil = "null" THEN "num" ELSE sigil) THEN col[i] ELSE Zero)]
          = [i \in 1 .. n |-> f[i]]
    BY <2>1 DEF Stored
  <2>3. QED BY <2>2 DEF FixedColumn
<1> HIDE DEF f
<1>3. Flattened(flat, n, f)
  BY <1>1, FlattenAny
<1>4. Inner(flat)
  BY <1>1, InnerFlat
<1> HIDE DEF flat
<1>5. PICK start \in [1 .. n + 1 -> Nat] :
        /\ start[1] = 0 /\ Len(flat) = start[n + 1]
        /\ \A i \in 1 .. n :
             /\ Len(f[i]) \in Nat
             /\ start[i + 1] = start[i] + Len(f[i])
             /\ start[i + 1] <= start[n + 1]
             /\ \A j \in 1 .. Len(f[i]) : flat[start[i] + j] = f[i][j]
  BY <1>3 DEF Flattened
<1>6. \A i \in 1 .. n + 1 : start[i] = 2 * (i - 1)
  <2>1. \A i \in 1 .. n : start[i + 1] = start[i] + 2
    BY <1>1, <1>5
  <2>2. QED BY ZenonT(60), <1>5, <2>1, EvenSteps
<1>7. Len(flat) = 2 * n
  BY <1>5, <1>6
<1>8. \A i \in 1 .. n : flat[2 * i - 1][2] = Stored(col[i], sigil)
  <2> SUFFICES ASSUME NEW i \in 1 .. n
               PROVE  flat[2 * i - 1][2] = Stored(col[i], sigil)
    OBVIOUS
  <2>1. flat[start[i] + 1] = f[i][1]
    <3>1. 1 \in 1 .. Len(f[i])
      BY <1>1
    <3>2. QED BY <1>5, <3>1
  <2>2. start[i] + 1 = 2 * i - 1
    BY <1>6
  <2>3. QED BY <1>1, <2>1, <2>2
<1>9. IsSeq(flat)
  BY <1>3 DEF Flattened
<1>10. QED BY <1>2, <1>4, <1>7, <1>8, <1>9

(* One end more than records, then the texts.                              *)
LEMMA VarIs ==
  ASSUME NEW n \in Nat \ {0}, NEW col \in [1 .. n -> Cells]
  PROVE  /\ IsSeq(VarColumn(col)) /\ Inner(VarColumn(col))
         /\ \E e \in [0 .. n -> Nat] :
              /\ e[0] = 0 /\ Len(VarColumn(col)) = n + 1 + e[n]
              /\ \A i \in 0 .. n : VarColumn(col)[i + 1][2] = e[i]
              /\ \A i \in 1 .. n :
                   /\ e[i] = e[i - 1] + TextWords(col[i]) /\ e[i] <= e[n]
                   /\ \A j \in 1 .. TextWords(col[i]) :
                        VarColumn(col)[n + 1 + e[i - 1] + j] = <<"chr", <<col[i], j>> >>
<1> DEFINE f == [i \in 1 .. n |-> [j \in 1 .. TextWords(col[i]) |-> <<"chr", <<col[i], j>> >>]]
           flat == FlattenSeq([i \in 1 .. n |-> f[i]])
           Ends(g) == g = [i \in 0 .. n |-> IF i = 0 THEN 0 ELSE g[i - 1] + TextWords(col[i])]
<1>1. DOMAIN col = 1 .. n /\ Len(col) = n /\ \A i \in 1 .. n : TextWords(col[i]) \in Nat
  BY TextIsWords
<1>2. ASSUME NEW i \in 1 .. n
      PROVE  /\ IsSeq(f[i]) /\ Len(f[i]) = TextWords(col[i]) /\ Inner(f[i])
             /\ \A j \in 1 .. TextWords(col[i]) : f[i][j] = <<"chr", <<col[i], j>> >>
  <2> DEFINE m == TextWords(col[i])
             word(j) == <<"chr", <<col[i], j>> >>
             W == {word(j) : j \in 1 .. m}
             s == [j \in 1 .. m |-> word(j)]
  <2>1. m \in Nat /\ f[i] = s
    BY <1>1
  <2>2. \A j : word(j)[1] = "chr"
    OBVIOUS
  <2> HIDE DEF m, word, f
  <2>3. s \in Seq(W) /\ Len(s) = m /\ \A j \in 1 .. m : s[j] = word(j)
    BY <2>1
  <2> HIDE DEF W, s
  <2>4. Inner(s)
    BY <2>2, <2>3 DEF Inner
  <2>5. IsSeq(s)
    BY <2>3 DEF IsSeq
  <2>6. QED BY <2>1, <2>3, <2>4, <2>5 DEF m, word
<1>3. flat = FlattenSeq([i \in DOMAIN col |->
                           [j \in 1 .. TextWords(col[i]) |-> <<"chr", <<col[i], j>> >>]])
  BY <1>1
<1> HIDE DEF f
<1>4. Flattened(flat, n, f) /\ Inner(flat)
  BY <1>2, FlattenAny, InnerFlat
<1> HIDE DEF flat
<1>5. PICK start \in [1 .. n + 1 -> Nat] :
        /\ start[1] = 0 /\ Len(flat) = start[n + 1]
        /\ \A i \in 1 .. n :
             /\ Len(f[i]) \in Nat
             /\ start[i + 1] = start[i] + Len(f[i])
             /\ start[i + 1] <= start[n + 1]
             /\ \A j \in 1 .. Len(f[i]) : flat[start[i] + j] = f[i][j]
  BY <1>4 DEF Flattened
<1> DEFINE e == [i \in 0 .. n |-> start[i + 1]]
<1>6. /\ e \in [0 .. n -> Nat] /\ e[0] = 0 /\ Len(flat) = e[n]
      /\ \A i \in 1 .. n :
           /\ e[i] = e[i - 1] + TextWords(col[i]) /\ e[i] <= e[n]
           /\ \A j \in 1 .. TextWords(col[i]) : flat[e[i - 1] + j] = <<"chr", <<col[i], j>> >>
  <2>1. \A i \in 1 .. n : e[i] = start[i + 1] /\ e[i - 1] = start[i] /\ e[n] = start[n + 1]
    OBVIOUS
  <2>2. e \in [0 .. n -> Nat] /\ e[0] = 0 /\ Len(flat) = e[n]
    BY <1>5
  <2> HIDE DEF e
  <2>3. ASSUME NEW i \in 1 .. n
        PROVE  /\ e[i] = e[i - 1] + TextWords(col[i]) /\ e[i] <= e[n]
               /\ \A j \in 1 .. TextWords(col[i]) : flat[e[i - 1] + j] = <<"chr", <<col[i], j>> >>
    <3>1. e[i] = start[i + 1] /\ e[i - 1] = start[i] /\ e[n] = start[n + 1]
      BY <2>1
    <3>2. Len(f[i]) = TextWords(col[i])
      BY <1>2
    <3>3. start[i + 1] = start[i] + TextWords(col[i]) /\ start[i + 1] <= start[n + 1]
      BY <1>5, <3>2
    <3>4. ASSUME NEW j \in 1 .. TextWords(col[i])
          PROVE  flat[e[i - 1] + j] = <<"chr", <<col[i], j>> >>
      <4>1. f[i][j] = <<"chr", <<col[i], j>> >>
        BY <1>2
      <4>2. flat[start[i] + j] = f[i][j]
        BY <1>5, <3>2
      <4>3. QED BY <3>1, <4>1, <4>2
    <3>5. QED BY <3>1, <3>3, <3>4
  <2>4. QED BY <2>2, <2>3
<1>7. e = [i \in 0 .. n |-> IF i = 0 THEN 0 ELSE e[i - 1] + TextWords(col[i])]
  <2>1. \A i \in 0 .. n : e[i] = IF i = 0 THEN 0 ELSE e[i - 1] + TextWords(col[i])
    <3>1. \A i \in 0 .. n : i = 0 \/ i \in 1 .. n
      OBVIOUS
    <3> HIDE DEF e
    <3>2. QED BY <1>6, <3>1
  <2>2. e = [i \in 0 .. n |-> e[i]]
    OBVIOUS
  <2> HIDE DEF e
  <2>3. QED BY <2>1, <2>2
<1> HIDE DEF e
<1> DEFINE ends == CHOOSE g : Ends(g)
<1>8. Ends(ends)
  <2>1. Ends(e)
    BY <1>7
  <2> HIDE DEF Ends
  <2>2. QED BY <2>1
<1>9. \A i \in 0 .. n : ends[i] = e[i]
  <2> DEFINE T == {i \in 0 .. n : ends[i] = e[i]}
  <2> HIDE DEF ends
  <2>1. \A i \in 0 .. n : ends[i] = IF i = 0 THEN 0 ELSE ends[i - 1] + TextWords(col[i])
    BY <1>8
  <2>2. 0 \in T
    BY <1>6, <2>1
  <2>3. ASSUME NEW k \in 0 .. n - 1, k \in T
        PROVE  k + 1 \in T
    <3>1. k + 1 \in 1 .. n /\ (k + 1) - 1 = k /\ k + 1 # 0 /\ k + 1 \in 0 .. n
      OBVIOUS
    <3>2. ends[k + 1] = ends[k] + TextWords(col[k + 1])
      BY <2>1, <3>1
    <3>3. e[k + 1] = e[k] + TextWords(col[k + 1])
      BY <1>6, <3>1
    <3>4. QED BY <2>3, <3>1, <3>2, <3>3
  <2> HIDE DEF T
  <2>4. 0 .. n \subseteq T
    <3>1. 0 \in Int /\ n \in Int
      OBVIOUS
    <3>2. QED BY <2>2, <2>3, <3>1, Upward, Zenon
  <2>5. QED BY <2>4 DEF T
<1> DEFINE table == [i \in 1 .. n + 1 |-> <<"end", ends[i - 1]>>]
<1>10. VarColumn(col) = table \o flat
  <2> HIDE DEF flat
  <2>1. ends = CHOOSE g : g = [i \in 0 .. Len(col) |-> IF i = 0 THEN 0 ELSE g[i - 1] + TextWords(col[i])]
    BY <1>1
  <2> HIDE DEF ends, Ends
  <2>2. table = [i \in 1 .. Len(col) + 1 |-> <<"end", ends[i - 1]>>]
    BY <1>1
  <2>3. QED BY <1>3, <2>1, <2>2 DEF VarColumn
<1> HIDE DEF ends, Ends
<1>11. /\ IsSeq(table) /\ Len(table) = n + 1 /\ Inner(table)
       /\ \A i \in 1 .. n + 1 : table[i] = <<"end", e[i - 1]>>
  <2>1. \A i \in 1 .. n + 1 : table[i] = <<"end", e[i - 1]>> /\ table[i][1] = "end"
    <3>1. \A i \in 1 .. n + 1 : i - 1 \in 0 .. n
      OBVIOUS
    <3>2. QED BY <1>9, <3>1
  <2>2. table \in Seq({table[i] : i \in 1 .. n + 1}) /\ Len(table) = n + 1
    <3>1. table = [i \in 1 .. n + 1 |-> table[i]]
      OBVIOUS
    <3> HIDE DEF table
    <3>2. QED BY <3>1
  <2> HIDE DEF table
  <2>3. Inner(table)
    BY <2>1, <2>2 DEF Inner
  <2>4. QED BY <2>1, <2>2, <2>3 DEF IsSeq
<1> HIDE DEF table
<1>12. IsSeq(flat)
  BY <1>4 DEF Flattened
<1> DEFINE c == table \o flat
<1>13. /\ IsSeq(c) /\ Len(c) = n + 1 + e[n]
       /\ \A i \in 1 .. n + 1 : c[i] = table[i]
       /\ \A i \in 1 .. Len(flat) : c[n + 1 + i] = flat[i]
  <2>1. /\ IsSeq(c) /\ Len(c) = Len(table) + Len(flat)
        /\ \A i \in 1 .. Len(table) : c[i] = table[i]
        /\ \A i \in 1 .. Len(flat) : c[Len(table) + i] = flat[i]
    <3>1. IsSeq(table) /\ IsSeq(flat)
      BY <1>11, <1>12
    <3>2. QED BY <3>1, Joined
  <2> HIDE DEF c
  <2>2. QED BY <1>6, <1>11, <2>1
<1>14. Inner(c)
  BY <1>4, <1>11, <1>12, InnerJoined
<1> HIDE DEF c
<1>15. \A i \in 0 .. n : c[i + 1][2] = e[i]
  <2>1. \A i \in 0 .. n : i + 1 \in 1 .. n + 1 /\ (i + 1) - 1 = i
    OBVIOUS
  <2>2. \A i \in 0 .. n : c[i + 1] = <<"end", e[i]>>
    BY <1>11, <1>13, <2>1
  <2>3. QED BY <2>2
<1>16. ASSUME NEW i \in 1 .. n, NEW j \in 1 .. TextWords(col[i])
       PROVE  c[n + 1 + e[i - 1] + j] = <<"chr", <<col[i], j>> >>
  <2>1. e[i - 1] \in Nat /\ e[i] <= e[n] /\ e[i] = e[i - 1] + TextWords(col[i]) /\ e[n] \in Nat
    BY <1>6
  <2>2. e[i - 1] + j \in 1 .. Len(flat)
    <3>1. TextWords(col[i]) \in Nat /\ j \in Nat /\ 1 <= j /\ j <= TextWords(col[i]) /\ Len(flat) = e[n]
      BY <1>1, <1>6
    <3>2. QED BY SMTT(60), <2>1, <3>1
  <2>3. c[n + 1 + (e[i - 1] + j)] = flat[e[i - 1] + j]
    BY <1>13, <2>2
  <2>4. n + 1 + (e[i - 1] + j) = n + 1 + e[i - 1] + j
    BY <2>1
  <2>5. QED BY <1>6, <2>3, <2>4
<1>17. VarColumn(col) = c
  BY <1>10 DEF c
<1>18. QED BY <1>6, <1>13, <1>14, <1>15, <1>16, <1>17

(* The bitmap, then the values or the texts.                               *)
LEMMA ColumnIs ==
  ASSUME NEW n \in Nat \ {0}, NEW col \in [1 .. n -> Cells], NEW sigil
  PROVE  /\ IsSeq(Column(col, sigil)) /\ Inner(Column(col, sigil)) /\ Len(Column(col, sigil)) \in Nat
         /\ Holds(Column(col, sigil), col, n, sigil)
<1> DEFINE bits == Bitmap(col)
           rest == IF IsVar(sigil) THEN VarColumn(col) ELSE FixedColumn(col, sigil)
           c == bits \o rest
           b == BitmapWords(n)
<1>1. b \in Nat /\ b >= 2
  BY BitmapIsWords
<1>2. /\ IsSeq(bits) /\ Len(bits) = b /\ Inner(bits)
      /\ bits[1][2] = {i \in 1 .. n : Populated(col[i])}
  BY BitmapIs
<1>3. IsSeq(rest) /\ Inner(rest)
  BY FixedIs, VarIs
<1>4. Column(col, sigil) = c
  BY DEF Column
<1>5. /\ IsSeq(bits \o rest) /\ Len(rest) \in Nat /\ Len(bits \o rest) = Len(bits) + Len(rest)
      /\ \A i \in 1 .. Len(bits) : (bits \o rest)[i] = bits[i]
      /\ \A i \in 1 .. Len(rest) : (bits \o rest)[Len(bits) + i] = rest[i]
  <2>1. IsSeq(bits) /\ IsSeq(rest)
    BY <1>2, <1>3
  <2> HIDE DEF bits, rest
  <2>2. QED BY <2>1, Joined
<1>6. Inner(c)
  <2> HIDE DEF bits, rest
  <2>1. QED BY <1>2, <1>3, InnerJoined
<1> HIDE DEF bits, b
<1>7. /\ IsSeq(c) /\ Len(rest) \in Nat /\ Len(c) = b + Len(rest)
      /\ c[1] = bits[1] /\ \A i \in 1 .. Len(rest) : c[b + i] = rest[i]
  <2> HIDE DEF rest
  <2>1. 1 \in 1 .. Len(bits)
    BY <1>1, <1>2
  <2>2. QED BY <1>2, <1>5, <2>1
<1>8. Holds(c, col, n, sigil)
  <2>1. CASE ~IsVar(sigil)
    <3>1. /\ Len(rest) = 2 * n /\ \A i \in 1 .. n : rest[2 * i - 1][2] = Stored(col[i], sigil)
      BY <2>1, FixedIs
    <3> HIDE DEF rest, c
    <3>2. ASSUME NEW i \in 1 .. n
          PROVE  c[b + 2 * i - 1][2] = Stored(col[i], sigil)
      <4>1. 2 * i - 1 \in 1 .. 2 * n /\ b + 2 * i - 1 = b + (2 * i - 1)
        BY <1>1
      <4>2. c[b + (2 * i - 1)] = rest[2 * i - 1]
        BY <1>7, <3>1, <4>1
      <4>3. QED BY <3>1, <4>1, <4>2
    <3>3. QED BY <1>2, <1>7, <2>1, <3>1, <3>2 DEF Holds, b
  <2>2. CASE IsVar(sigil)
    <3>1. PICK e \in [0 .. n -> Nat] :
            /\ e[0] = 0 /\ Len(rest) = n + 1 + e[n]
            /\ \A i \in 0 .. n : rest[i + 1][2] = e[i]
            /\ \A i \in 1 .. n :
                 /\ e[i] = e[i - 1] + TextWords(col[i]) /\ e[i] <= e[n]
                 /\ \A j \in 1 .. TextWords(col[i]) :
                      rest[n + 1 + e[i - 1] + j] = <<"chr", <<col[i], j>> >>
      <4>1. rest = VarColumn(col)
        BY <2>2
      <4>2. \E e \in [0 .. n -> Nat] :
              /\ e[0] = 0 /\ Len(VarColumn(col)) = n + 1 + e[n]
              /\ \A i \in 0 .. n : VarColumn(col)[i + 1][2] = e[i]
              /\ \A i \in 1 .. n :
                   /\ e[i] = e[i - 1] + TextWords(col[i]) /\ e[i] <= e[n]
                   /\ \A j \in 1 .. TextWords(col[i]) :
                        VarColumn(col)[n + 1 + e[i - 1] + j] = <<"chr", <<col[i], j>> >>
        BY VarIs
      <4> HIDE DEF rest, c
      <4>3. QED BY <4>1, <4>2
    <3> HIDE DEF rest, c
    <3>2. ASSUME NEW i \in 0 .. n
          PROVE  TextEnd(c, n, i) = e[i]
      <4>1. i + 1 \in 1 .. Len(rest) /\ b + i + 1 = b + (i + 1)
        BY <1>1, <3>1
      <4>2. c[b + (i + 1)] = rest[i + 1]
        BY <1>7, <4>1
      <4>3. QED BY <3>1, <4>1, <4>2 DEF TextEnd, b
    <3>3. ASSUME NEW i \in 1 .. n
          PROVE  /\ TextEnd(c, n, i) = TextEnd(c, n, i - 1) + TextWords(col[i])
                 /\ TextEnd(c, n, i) <= TextEnd(c, n, n)
                 /\ \A j \in 1 .. TextWords(col[i]) :
                      c[b + n + 1 + TextEnd(c, n, i - 1) + j] = <<"chr", <<col[i], j>> >>
      <4>1. TextEnd(c, n, i) = e[i] /\ TextEnd(c, n, i - 1) = e[i - 1] /\ TextEnd(c, n, n) = e[n]
        BY <3>2
      <4>2. e[i] = e[i - 1] + TextWords(col[i]) /\ e[i] <= e[n] /\ e[i - 1] \in Nat /\ e[n] \in Nat
        BY <3>1
      <4>3. ASSUME NEW j \in 1 .. TextWords(col[i])
            PROVE  c[b + n + 1 + e[i - 1] + j] = <<"chr", <<col[i], j>> >>
        <5>1. n + 1 + e[i - 1] + j \in 1 .. Len(rest)
          <6>1. TextWords(col[i]) \in Nat
            BY TextIsWords
          <6>2. Len(rest) = n + 1 + e[n] /\ j \in Nat /\ 1 <= j /\ j <= TextWords(col[i])
            BY <3>1, <6>1
          <6>3. QED BY SMTT(60), <4>2, <6>1, <6>2
        <5>2. c[b + (n + 1 + e[i - 1] + j)] = rest[n + 1 + e[i - 1] + j]
          BY <1>7, <5>1
        <5>3. b + (n + 1 + e[i - 1] + j) = b + n + 1 + e[i - 1] + j
          BY <1>1, <4>2
        <5>4. QED BY <3>1, <5>2, <5>3
      <4>4. QED BY <4>1, <4>2, <4>3
    <3>4. TextEnd(c, n, 0) = 0 /\ (\A i \in 0 .. n : TextEnd(c, n, i) \in Nat)
          /\ Len(c) = b + n + 1 + TextEnd(c, n, n)
      <4>1. 0 \in 0 .. n /\ n \in 0 .. n
        OBVIOUS
      <4>2. TextEnd(c, n, 0) = 0 /\ TextEnd(c, n, n) = e[n] /\ e[n] \in Nat
        BY <3>1, <3>2, <4>1
      <4>3. \A i \in 0 .. n : TextEnd(c, n, i) \in Nat
        BY <3>2
      <4>4. Len(c) = b + (n + 1 + e[n])
        BY <1>7, <3>1
      <4>5. QED BY <1>1, <4>2, <4>3, <4>4
    <3>5. QED BY <1>2, <1>7, <2>2, <3>3, <3>4 DEF Holds, b
  <2>3. QED BY <2>1, <2>2
<1>9. Len(c) \in Nat
  BY <1>1, <1>7
<1>10. QED BY <1>4, <1>6, <1>7, <1>8, <1>9

----------------------------------------------------------------------------
(* A page.                                                                 *)

(* The cells of slot s.                                                    *)
CellsOf(recs, s) == [i \in DOMAIN recs |-> recs[i][s]]

(* The page has its header, its columns from these places on, and its      *)
(* length behind them.                                                     *)
PageLaid(page, at, start, recs, sigils) ==
  LET n == Len(recs)
      f == Len(sigils)
      c(s) == Column(CellsOf(recs, s), sigils[s])
  IN  /\ IsSeq(page) /\ at \in [1 .. f + 1 -> Nat] /\ at[1] = 6
      /\ page[1][1] = "page" /\ page[3][2] = start /\ page[5][2] = n /\ page[6][2] = f
      /\ \A s \in 1 .. f :
           /\ at[s + 1] = at[s] + Len(c(s)) /\ at[s + 1] <= at[f + 1]
           /\ \A j \in 1 .. Len(c(s)) : page[at[s] + j] = c(s)[j]
      /\ Len(page) = at[f + 1] + 1 + ((at[f + 1] + 1) % 2)
      /\ page[at[f + 1] + 1][2] = at[f + 1] + 1
      /\ \A j \in 2 .. Len(page) : page[j][1] # "page"
      /\ \A j \in 1 .. Len(page) : page[j][1] # "foot"

(* A column's place in the page, behind the header.                        *)
LEMMA Moved ==
  ASSUME NEW p0 \in Nat, NEW p1 \in Nat, NEW p2 \in Nat, NEW l \in Nat, NEW b,
         NEW a0, NEW a1, NEW a2,
         a0 = 6 + p0, a1 = 6 + p1, a2 = 6 + p2, p1 = p0 + l, p1 <= p2, b = p2
  PROVE  /\ a1 = a0 + l /\ a1 <= a2
         /\ \A j \in 1 .. l : p0 + j \in 1 .. b /\ a0 + j = 6 + (p0 + j)
OBVIOUS

(* encode_page makes it.                                                   *)
LEMMA PageIs ==
  ASSUME NEW F \in Nat \ {0}, NEW sigils, sigils \in Seq(Kinds), Len(sigils) = F,
         NEW recs, recs \in Seq([1 .. F -> Cells]), recs # << >>, NEW index, NEW start
  PROVE  \E at : PageLaid(EncodePage(index, start, recs, sigils), at, start, recs, sigils)
<1> DEFINE n == Len(recs)
           col == [s \in 1 .. F |-> Column(CellsOf(recs, s), sigils[s])]
           body == FlattenSeq([s \in 1 .. F |-> col[s]])
           len == 6 + Len(body) + 1
           p1 == <<"page", 0>>
           p2 == <<"index", index>>
           p5 == <<"count", n>>
           p6 == <<"fields", F>>
           p7 == <<"plen", len>>
           a == <<p1, p2>> \o Wide("start", start)
           head == a \o <<p5, p6>>
           most == head \o body
           page == (most \o <<p7>>) \o Pad(len % 2)
<1>1. n \in Nat \ {0} /\ DOMAIN recs = 1 .. n /\ DOMAIN sigils = 1 .. F
  OBVIOUS
<1>2. \A s \in 1 .. F : CellsOf(recs, s) \in [1 .. n -> Cells]
  <2>1. \A i \in 1 .. n : recs[i] \in [1 .. F -> Cells]
    OBVIOUS
  <2>2. QED BY <1>1, <2>1 DEF CellsOf
<1>3. \A s \in 1 .. F : IsSeq(col[s]) /\ Inner(col[s]) /\ Len(col[s]) \in Nat
  <2> SUFFICES ASSUME NEW s \in 1 .. F
               PROVE  IsSeq(col[s]) /\ Inner(col[s]) /\ Len(col[s]) \in Nat
    OBVIOUS
  <2>1. col[s] = Column(CellsOf(recs, s), sigils[s])
    OBVIOUS
  <2> HIDE DEF col
  <2>2. CellsOf(recs, s) \in [1 .. n -> Cells]
    BY <1>2
  <2>3. QED BY <1>1, <2>1, <2>2, ColumnIs
<1>4. EncodePage(index, start, recs, sigils) = page
  <2>1. body = FlattenSeq([s \in DOMAIN sigils |-> Column([i \in DOMAIN recs |-> recs[i][s]], sigils[s])])
    <3>1. [s \in 1 .. F |-> col[s]]
            = [s \in DOMAIN sigils |-> Column([i \in DOMAIN recs |-> recs[i][s]], sigils[s])]
      BY <1>1 DEF CellsOf
    <3>2. QED BY <3>1
  <2> HIDE DEF body
  <2>2. QED BY <2>1 DEF EncodePage
<1> HIDE DEF col
<1>5. Flattened(body, F, col) /\ Inner(body)
  BY <1>3, FlattenAny, InnerFlat
<1> HIDE DEF body
<1>6. PICK place \in [1 .. F + 1 -> Nat] :
        /\ place[1] = 0 /\ Len(body) = place[F + 1]
        /\ \A i \in 1 .. F :
             /\ Len(col[i]) \in Nat
             /\ place[i + 1] = place[i] + Len(col[i])
             /\ place[i + 1] <= place[F + 1]
             /\ \A j \in 1 .. Len(col[i]) : body[place[i] + j] = col[i][j]
  BY <1>5 DEF Flattened
<1>7. IsSeq(body) /\ Len(body) \in Nat /\ len \in Nat
  BY <1>5, <1>6 DEF Flattened
<1>8. /\ p1[1] = "page" /\ p2[1] = "index" /\ p5[1] = "count" /\ p5[2] = n
      /\ p6[1] = "fields" /\ p6[2] = F /\ p7[1] = "plen" /\ p7[2] = len
  OBVIOUS
<1> HIDE DEF p1, p2, p5, p6, p7
<1>9. IsSeq(<<p1, p2>>) /\ Len(<<p1, p2>>) = 2 /\ <<p1, p2>>[1] = p1 /\ <<p1, p2>>[2] = p2
  <2>1. <<p1, p2>> \in Seq({p1, p2})
    OBVIOUS
  <2>2. QED BY <2>1 DEF IsSeq
<1>10. IsSeq(<<p5, p6>>) /\ Len(<<p5, p6>>) = 2 /\ <<p5, p6>>[1] = p5 /\ <<p5, p6>>[2] = p6
  <2>1. <<p5, p6>> \in Seq({p5, p6})
    OBVIOUS
  <2>2. QED BY <2>1 DEF IsSeq
<1>11. IsSeq(<<p7>>) /\ Len(<<p7>>) = 1 /\ <<p7>>[1] = p7
  <2>1. <<p7>> \in Seq({p7})
    OBVIOUS
  <2>2. QED BY <2>1 DEF IsSeq
<1>12. /\ IsSeq(a) /\ Len(a) = 4 /\ a[1] = p1 /\ a[2] = p2
       /\ a[3] = <<"start", start>> /\ a[4] = <<"pad", 0>>
  <2> DEFINE u == Wide("start", start)
             v == <<p1, p2>>
  <2>1. IsSeq(u) /\ Len(u) = 2 /\ u[1] = <<"start", start>> /\ u[2] = <<"pad", 0>>
    BY WideIs
  <2>2. IsSeq(v) /\ Len(v) = 2 /\ v[1] = p1 /\ v[2] = p2
    BY <1>9
  <2> HIDE DEF u, v
  <2>3. /\ IsSeq(v \o u) /\ Len(v \o u) = Len(v) + Len(u)
        /\ \A i \in 1 .. Len(v) : (v \o u)[i] = v[i]
        /\ \A i \in 1 .. Len(u) : (v \o u)[Len(v) + i] = u[i]
    <3>1. IsSeq(v) /\ IsSeq(u)
      BY <2>1, <2>2
    <3>2. QED BY <3>1, Joined
  <2>4. (v \o u)[1] = v[1] /\ (v \o u)[2] = v[2] /\ (v \o u)[2 + 1] = u[1] /\ (v \o u)[2 + 2] = u[2]
    BY <2>1, <2>2, <2>3
  <2>5. a = v \o u
    BY DEF u, v
  <2> HIDE DEF a
  <2>6. Len(a) = 4
    BY <2>1, <2>2, <2>3, <2>5
  <2>7. QED BY <2>1, <2>2, <2>3, <2>4, <2>5, <2>6
<1> HIDE DEF a
<1>13. /\ IsSeq(head) /\ Len(head) = 6
       /\ \A i \in 1 .. 4 : head[i] = a[i]
       /\ head[5] = p5 /\ head[6] = p6
  <2> DEFINE u == <<p5, p6>>
  <2>1. IsSeq(u) /\ Len(u) = 2 /\ u[1] = p5 /\ u[2] = p6
    BY <1>10
  <2> HIDE DEF u
  <2>2. /\ IsSeq(a \o u) /\ Len(a \o u) = Len(a) + Len(u)
        /\ \A i \in 1 .. Len(a) : (a \o u)[i] = a[i]
        /\ \A i \in 1 .. Len(u) : (a \o u)[Len(a) + i] = u[i]
    <3>1. IsSeq(a) /\ IsSeq(u)
      BY <1>12, <2>1
    <3>2. QED BY SMTT(60), <3>1, Joined
  <2>3. (a \o u)[4 + 1] = u[1] /\ (a \o u)[4 + 2] = u[2]
    BY SMTT(60), <1>12, <2>1, <2>2
  <2>4. QED BY <1>12, <2>1, <2>2, <2>3 DEF u
<1> HIDE DEF head
<1>14. /\ IsSeq(most) /\ Len(most) = 6 + Len(body)
       /\ \A i \in 1 .. 6 : most[i] = head[i]
       /\ \A i \in 1 .. Len(body) : most[6 + i] = body[i]
  <2>1. /\ IsSeq(head \o body) /\ Len(head \o body) = Len(head) + Len(body)
        /\ \A i \in 1 .. Len(head) : (head \o body)[i] = head[i]
        /\ \A i \in 1 .. Len(body) : (head \o body)[Len(head) + i] = body[i]
    <3>1. IsSeq(head) /\ IsSeq(body)
      BY <1>7, <1>13
    <3>2. QED BY <3>1, Joined
  <2>2. QED BY <1>13, <2>1
<1> HIDE DEF most
<1> DEFINE all == most \o <<p7>>
<1>15. /\ IsSeq(all) /\ Len(all) = len
       /\ \A i \in 1 .. 6 + Len(body) : all[i] = most[i]
       /\ all[len] = p7
  <2> DEFINE u == <<p7>>
  <2>1. IsSeq(u) /\ Len(u) = 1 /\ u[1] = p7
    BY <1>11
  <2> HIDE DEF u
  <2>2. /\ IsSeq(most \o u) /\ Len(most \o u) = Len(most) + Len(u)
        /\ \A i \in 1 .. Len(most) : (most \o u)[i] = most[i]
        /\ \A i \in 1 .. Len(u) : (most \o u)[Len(most) + i] = u[i]
    <3>1. IsSeq(most) /\ IsSeq(u)
      BY <1>14, <2>1
    <3>2. QED BY SMTT(60), <3>1, Joined
  <2>3. (most \o u)[Len(most) + 1] = u[1]
    BY <2>1, <2>2
  <2>4. QED BY <1>7, <1>14, <2>1, <2>2, <2>3 DEF u
<1> HIDE DEF all
<1> DEFINE pad == Pad(len % 2)
<1>16. IsSeq(pad) /\ Len(pad) = len % 2 /\ Inner(pad) /\ len % 2 \in Nat
  <2>1. len % 2 \in Nat
    BY <1>7
  <2>2. QED BY <2>1, PadIs
<1> HIDE DEF pad
<1>17. /\ IsSeq(page) /\ Len(page) = len + (len % 2)
       /\ \A i \in 1 .. len : page[i] = all[i]
       /\ \A i \in 1 .. len % 2 : page[len + i] = pad[i]
  <2>1. /\ IsSeq(all \o pad) /\ Len(all \o pad) = Len(all) + Len(pad)
        /\ \A i \in 1 .. Len(all) : (all \o pad)[i] = all[i]
        /\ \A i \in 1 .. Len(pad) : (all \o pad)[Len(all) + i] = pad[i]
    <3>1. IsSeq(all) /\ IsSeq(pad)
      BY <1>15, <1>16
    <3>2. QED BY <3>1, Joined
  <2>2. page = all \o pad
    BY DEF all, pad
  <2> HIDE DEF page
  <2>3. Len(all) = len /\ Len(pad) = len % 2
    BY <1>15, <1>16
  <2> HIDE DEF len
  <2>4. QED BY <2>1, <2>2, <2>3
<1> HIDE DEF page
<1>18. /\ \A i \in 1 .. 6 : page[i] = head[i]
       /\ \A i \in 1 .. Len(body) : page[6 + i] = body[i]
       /\ page[len] = p7
  <2>1. /\ \A i \in 1 .. 6 : i \in 1 .. len /\ i \in 1 .. 6 + Len(body)
        /\ \A i \in 1 .. Len(body) : 6 + i \in 1 .. len /\ 6 + i \in 1 .. 6 + Len(body)
        /\ len \in 1 .. len
    BY SMTT(60), <1>7
  <2> HIDE DEF len
  <2>2. QED BY <1>14, <1>15, <1>17, <2>1
<1>19. /\ page[1] = p1 /\ page[2] = p2 /\ page[3] = <<"start", start>> /\ page[4] = <<"pad", 0>>
       /\ page[5] = p5 /\ page[6] = p6
  BY <1>12, <1>13, <1>18
<1>20. \A j \in 1 .. Len(page) : page[j][1] # "foot" /\ (j # 1 => page[j][1] # "page")
  <2> SUFFICES ASSUME NEW j \in 1 .. Len(page)
               PROVE  page[j][1] # "foot" /\ (j # 1 => page[j][1] # "page")
    OBVIOUS
  <2>1. CASE j \in 1 .. 6
    <3>1. j = 1 \/ j = 2 \/ j = 3 \/ j = 4 \/ j = 5 \/ j = 6
      BY <2>1
    <3>2. page[3][1] = "start" /\ page[4][1] = "pad"
      BY <1>19
    <3>3. page[1][1] = "page" /\ page[2][1] = "index" /\ page[5][1] = "count" /\ page[6][1] = "fields"
      BY <1>8, <1>19
    <3>4. QED BY <3>1, <3>2, <3>3
  <2>2. CASE j \in 7 .. 6 + Len(body)
    <3>1. j - 6 \in 1 .. Len(body) /\ 6 + (j - 6) = j
      BY <1>7, <2>2
    <3>2. page[j] = body[j - 6]
      BY <1>18, <3>1
    <3>3. QED BY <1>5, <3>1, <3>2 DEF Inner
  <2>3. CASE j = len
    BY <1>8, <1>18, <2>3
  <2>4. CASE j > len
    <3>1. j - len \in 1 .. len % 2 /\ len + (j - len) = j
      BY <1>7, <1>16, <1>17, <2>4
    <3>2. page[j] = pad[j - len]
      BY <1>17, <3>1
    <3>3. QED BY <1>16, <3>1, <3>2 DEF Inner
  <2>5. QED BY <1>7, <2>1, <2>2, <2>3, <2>4
<1> DEFINE at == [s \in 1 .. F + 1 |-> 6 + place[s]]
<1>21. at \in [1 .. F + 1 -> Nat] /\ at[1] = 6 /\ at[F + 1] + 1 = len
  BY SMTT(60), <1>6
<1>22. ASSUME NEW s \in 1 .. F
       PROVE  /\ at[s + 1] = at[s] + Len(col[s]) /\ at[s + 1] <= at[F + 1]
              /\ \A j \in 1 .. Len(col[s]) : page[at[s] + j] = col[s][j]
  <2>1. at[s] = 6 + place[s] /\ at[s + 1] = 6 + place[s + 1] /\ at[F + 1] = 6 + place[F + 1]
    OBVIOUS
  <2> HIDE DEF at
  <2>2. /\ place[s] \in Nat /\ place[s + 1] \in Nat /\ place[F + 1] \in Nat /\ Len(col[s]) \in Nat
        /\ place[s + 1] = place[s] + Len(col[s]) /\ place[s + 1] <= place[F + 1]
    <3>1. s \in 1 .. F + 1 /\ s + 1 \in 1 .. F + 1 /\ F + 1 \in 1 .. F + 1
      OBVIOUS
    <3>2. QED BY <1>6, <3>1
  <2>3. Len(body) = place[F + 1]
    BY <1>6
  <2> HIDE DEF len
  <2>4. /\ at[s + 1] = at[s] + Len(col[s]) /\ at[s + 1] <= at[F + 1]
        /\ \A j \in 1 .. Len(col[s]) : place[s] + j \in 1 .. Len(body) /\ at[s] + j = 6 + (place[s] + j)
    <3> DEFINE a0 == at[s]
               a1 == at[s + 1]
               a2 == at[F + 1]
               q0 == place[s]
               q1 == place[s + 1]
               q2 == place[F + 1]
               l == Len(col[s])
               b == Len(body)
    <3>1. q0 \in Nat /\ q1 \in Nat /\ q2 \in Nat /\ l \in Nat
      BY <2>2
    <3>2. a0 = 6 + q0 /\ a1 = 6 + q1 /\ a2 = 6 + q2 /\ q1 = q0 + l /\ q1 <= q2 /\ b = q2
      BY <2>1, <2>2, <2>3
    <3> HIDE DEF a0, a1, a2, q0, q1, q2, l, b
    <3>3. /\ a1 = a0 + l /\ a1 <= a2
          /\ \A j \in 1 .. l : q0 + j \in 1 .. b /\ a0 + j = 6 + (q0 + j)
      BY <3>1, <3>2, Moved
    <3>4. QED BY <3>3 DEF a0, a1, a2, q0, q1, q2, l, b
  <2>5. ASSUME NEW j \in 1 .. Len(col[s])
        PROVE  page[at[s] + j] = col[s][j]
    <3>1. place[s] + j \in 1 .. Len(body) /\ at[s] + j = 6 + (place[s] + j)
      BY <2>4
    <3>2. page[6 + (place[s] + j)] = body[place[s] + j]
      BY <1>18, <3>1
    <3>3. body[place[s] + j] = col[s][j]
      BY <1>6
    <3>4. QED BY <3>1, <3>2, <3>3
  <2>6. QED BY <2>4, <2>5
<1>23. \A s \in 1 .. F : col[s] = Column(CellsOf(recs, s), sigils[s])
  BY DEF col
<1>24. \A j \in 2 .. Len(page) : page[j][1] # "page"
  <2>1. Len(page) \in Nat
    BY <1>7, <1>16, <1>17
  <2>2. \A j \in 2 .. Len(page) : j \in 1 .. Len(page) /\ j # 1
    BY <2>1
  <2>3. QED BY <1>20, <2>2
<1> HIDE DEF at, len
<1>25. PageLaid(page, at, start, recs, sigils)
  <2>1. page[at[F + 1] + 1] = p7 /\ p7[2] = at[F + 1] + 1
    BY <1>8, <1>18, <1>21
  <2>2. Len(page) = (at[F + 1] + 1) + ((at[F + 1] + 1) % 2)
    BY <1>17, <1>21
  <2>3. \A s \in 1 .. F :
          LET c == Column(CellsOf(recs, s), sigils[s])
          IN  /\ at[s + 1] = at[s] + Len(c) /\ at[s + 1] <= at[F + 1]
              /\ \A j \in 1 .. Len(c) : page[at[s] + j] = c[j]
    <3> SUFFICES ASSUME NEW s \in 1 .. F
                 PROVE  LET c == Column(CellsOf(recs, s), sigils[s])
                        IN  /\ at[s + 1] = at[s] + Len(c) /\ at[s + 1] <= at[F + 1]
                            /\ \A j \in 1 .. Len(c) : page[at[s] + j] = c[j]
      OBVIOUS
    <3> DEFINE d == col[s]
    <3>1. d = Column(CellsOf(recs, s), sigils[s])
      BY <1>23
    <3>2. /\ at[s + 1] = at[s] + Len(d) /\ at[s + 1] <= at[F + 1]
          /\ \A j \in 1 .. Len(d) : page[at[s] + j] = d[j]
      BY <1>22
    <3> HIDE DEF d, page
    <3>3. QED BY <3>1, <3>2
  <2>4. page[1][1] = "page" /\ page[3][2] = start /\ page[5][2] = n /\ page[6][2] = F
    BY <1>8, <1>19
  <2>5. \A j \in 1 .. Len(page) : page[j][1] # "foot"
    BY <1>20
  <2>6. IsSeq(page) /\ at \in [1 .. F + 1 -> Nat] /\ at[1] = 6
    BY <1>17, <1>21
  <2> HIDE DEF page
  <2>7. QED BY <1>24, <2>1, <2>2, <2>3, <2>4, <2>5, <2>6 DEF PageLaid
<1>26. QED BY <1>4, <1>25

----------------------------------------------------------------------------
(* A page in a buffer.                                                     *)

(* Records and schema a page is made of.                                   *)
Fits(recs, sigils) ==
  /\ sigils \in Seq(Kinds) /\ sigils # << >>
  /\ recs \in Seq([1 .. Len(sigils) -> Cells]) /\ recs # << >>

(* The buffer has these words at this place, as far as it goes.            *)
HasWords(data, off, words) ==
  /\ Len(data) \in Nat /\ off \in Nat
  /\ \A j \in 1 .. Len(words) : off + j <= Len(data) => data[off + j] = words[j]

(* What column_sector_len must have of a column to tell its end.           *)
Needed(n, sigil) == BitmapWords(n) + IF IsVar(sigil) THEN n + 1 ELSE 0

(* The column of a page.                                                   *)
PageColumn(recs, sigils, s) == Column(CellsOf(recs, s), sigils[s])

(* The columns of a page hold the cells of its records.                    *)
LEMMA ColumnHolds ==
  ASSUME NEW recs, NEW sigils, Fits(recs, sigils), NEW s \in 1 .. Len(sigils)
  PROVE  /\ Len(recs) \in Nat \ {0} /\ CellsOf(recs, s) \in [1 .. Len(recs) -> Cells]
         /\ IsSeq(PageColumn(recs, sigils, s)) /\ Len(PageColumn(recs, sigils, s)) \in Nat
         /\ Holds(PageColumn(recs, sigils, s), CellsOf(recs, s), Len(recs), sigils[s])
<1>1. Len(recs) \in Nat \ {0} /\ DOMAIN recs = 1 .. Len(recs)
  BY DEF Fits
<1>2. \A i \in 1 .. Len(recs) : recs[i] \in [1 .. Len(sigils) -> Cells]
  BY DEF Fits
<1>3. CellsOf(recs, s) \in [1 .. Len(recs) -> Cells]
  BY <1>1, <1>2 DEF CellsOf
<1>4. QED BY <1>1, <1>3, ColumnIs DEF PageColumn

(* A column's end is found if the buffer goes that far.                    *)
LEMMA SectorEndIs ==
  ASSUME NEW data, NEW at \in Nat, NEW n \in Nat \ {0}, NEW sigil, NEW c, NEW col,
         Len(c) \in Nat, Holds(c, col, n, sigil), HasWords(data, at, c)
  PROVE  /\ Needed(n, sigil) \in Nat /\ Needed(n, sigil) <= Len(c)
         /\ at + Needed(n, sigil) <= Len(data) => SectorEnd(data, at, n, sigil) = {at + Len(c)}
         /\ ~(at + Needed(n, sigil) <= Len(data)) => SectorEnd(data, at, n, sigil) = {}
<1>1. PICK b \in Nat : b = BitmapWords(n) /\ b >= 2
  BY BitmapIsWords
<1>2. Len(data) \in Nat /\ at \in Nat
  BY DEF HasWords
<1>3. CASE ~IsVar(sigil)
  <2>1. Len(c) = b + 2 * n
    BY <1>1, <1>3 DEF Holds
  <2>2. QED BY <1>1, <1>2, <1>3, <2>1 DEF SectorEnd, Needed
<1>4. CASE IsVar(sigil)
  <2>1. PICK e \in Nat : e = TextEnd(c, n, n)
    <3>1. n \in 0 .. n
      OBVIOUS
    <3>2. QED BY <1>4, <3>1 DEF Holds
  <2>2. Len(c) = b + n + 1 + e
    BY <1>1, <1>4, <2>1 DEF Holds
  <2>3. Needed(n, sigil) = b + (n + 1)
    BY <1>1, <1>4 DEF Needed
  <2>4. ASSUME at + (b + (n + 1)) <= Len(data)
        PROVE  data[at + b + n + 1][2] = e
    <3>1. b + n + 1 \in 1 .. Len(c) /\ at + (b + n + 1) = at + b + n + 1
      BY SMTT(60), <1>1, <1>2, <2>2
    <3>2. data[at + (b + n + 1)] = c[b + n + 1]
      <4>1. b + (n + 1) = b + n + 1
        BY <1>1
      <4>2. at + (b + n + 1) <= Len(data)
        BY <2>4, <4>1
      <4>3. QED BY <3>1, <4>2 DEF HasWords
    <3>3. QED BY <1>1, <2>1, <3>1, <3>2 DEF TextEnd
  <2>5. SectorEnd(data, at, n, sigil)
          = IF Len(data) < at + b \/ Len(data) < at + b + n + 1 THEN {}
            ELSE {at + b + (n + 1 + data[at + b + n + 1][2])}
    BY <1>1, <1>4 DEF SectorEnd
  <2> DEFINE need == Needed(n, sigil)
             d == Len(data)
             w == data[at + b + n + 1][2]
             end == SectorEnd(data, at, n, sigil)
             l == Len(c)
  <2>6. need \in Nat /\ need <= l
    BY SMTT(60), <1>1, <2>1, <2>2, <2>3
  <2>7. ASSUME at + need <= d
        PROVE  end = {at + l}
    <3>1. w = e
      BY <2>3, <2>4, <2>7
    <3> HIDE DEF w
    <3>2. ~(d < at + b) /\ ~(d < at + b + n + 1)
      BY <1>1, <1>2, <2>3, <2>7
    <3>3. at + b + (n + 1 + e) = at + l
      <4>1. l = b + n + 1 + e
        BY <2>2
      <4> HIDE DEF l, d, need, end
      <4>2. QED BY <4>1
    <3>4. end = {at + b + (n + 1 + w)}
      BY <2>5, <3>2 DEF w
    <3>5. QED BY <3>1, <3>3, <3>4
  <2>8. ASSUME ~(at + need <= d)
        PROVE  end = {}
    <3>1. d < at + b + n + 1
      BY <1>1, <1>2, <2>3, <2>8
    <3>2. QED BY <2>5, <3>1
  <2>9. QED BY <2>6, <2>7, <2>8
<1>5. QED BY <1>3, <1>4

(* What follows from a page's layout about one of its columns, in a buffer *)
(* the page is in.                                                         *)
LEMMA ColumnInPage ==
  ASSUME NEW recs, NEW sigils, Fits(recs, sigils), NEW page, NEW at, NEW start,
         PageLaid(page, at, start, recs, sigils),
         NEW data, NEW off \in Nat, HasWords(data, off, page), NEW s \in 1 .. Len(sigils)
  PROVE  /\ at[s] \in Nat /\ at[s + 1] \in Nat /\ at[s + 1] <= at[Len(sigils) + 1]
         /\ at[s + 1] = at[s] + Len(PageColumn(recs, sigils, s))
         /\ at[Len(sigils) + 1] \in Nat /\ at[Len(sigils) + 1] + 1 <= Len(page) /\ Len(page) \in Nat
         /\ HasWords(data, off + at[s], PageColumn(recs, sigils, s))
<1> DEFINE c == PageColumn(recs, sigils, s)
           F == Len(sigils)
<1>1. F \in Nat /\ s + 1 \in 1 .. F + 1 /\ s \in 1 .. F + 1 /\ F + 1 \in 1 .. F + 1
  BY DEF Fits
<1>2. at[s] \in Nat /\ at[s + 1] \in Nat /\ at[F + 1] \in Nat /\ at \in [1 .. F + 1 -> Nat]
  BY <1>1 DEF PageLaid
<1>3. PICK p0 \in Nat, p1 \in Nat, p2 \in Nat : p0 = at[s] /\ p1 = at[s + 1] /\ p2 = at[F + 1]
  BY <1>2
<1>4. /\ at[s + 1] = at[s] + Len(c) /\ at[s + 1] <= at[F + 1]
      /\ \A j \in 1 .. Len(c) : page[at[s] + j] = c[j]
      /\ Len(page) = at[F + 1] + 1 + ((at[F + 1] + 1) % 2)
  BY DEF PageLaid, PageColumn
<1>5. PICK l \in Nat : l = Len(c)
  BY ColumnHolds
<1>6. PICK m \in Nat : m = Len(page) /\ p2 + 1 <= m
  <2>1. p2 + 1 + ((p2 + 1) % 2) \in Nat /\ p2 + 1 <= p2 + 1 + ((p2 + 1) % 2)
    OBVIOUS
  <2>2. Len(page) = p2 + 1 + ((p2 + 1) % 2)
    BY <1>3, <1>4
  <2>3. QED BY <2>1, <2>2
<1>7. p1 = p0 + l /\ p1 <= p2
  BY <1>3, <1>4, <1>5
<1>8. PICK d \in Nat : d = Len(data)
  BY DEF HasWords
<1> HIDE DEF c, F
<1>9. ASSUME NEW j \in 1 .. l, (off + p0) + j <= d
      PROVE  data[(off + p0) + j] = c[j]
  <2>1. p0 + j \in 1 .. m /\ (off + p0) + j = off + (p0 + j)
    BY <1>6, <1>7
  <2>2. data[off + (p0 + j)] = page[p0 + j]
    BY <1>6, <1>8, <1>9, <2>1 DEF HasWords
  <2>3. page[p0 + j] = c[j]
    BY <1>3, <1>4, <1>5
  <2>4. QED BY <2>1, <2>2, <2>3
<1>10. HasWords(data, off + at[s], c)
  <2>1. off + p0 \in Nat
    OBVIOUS
  <2>2. HasWords(data, off + p0, c)
    BY <1>5, <1>8, <1>9, <2>1 DEF HasWords
  <2>3. QED BY <1>3, <2>2
<1>11. at[F + 1] + 1 <= Len(page)
  BY <1>3, <1>6
<1>12. QED BY <1>2, <1>4, <1>6, <1>10, <1>11 DEF c, F

(* How far the columns before it are told.                                 *)
Told(data, off, at, recs, sigils, s) ==
  \A t \in 1 .. s - 1 : off + at[t] + Needed(Len(recs), sigils[t]) <= Len(data)

(* A page's column is found where it is, if the buffer goes far enough.    *)
LEMMA ColumnAtIs ==
  ASSUME NEW recs, NEW sigils, Fits(recs, sigils), NEW page, NEW at, NEW start,
         PageLaid(page, at, start, recs, sigils),
         NEW data, NEW off \in Nat, HasWords(data, off, page), NEW s \in 1 .. Len(sigils) + 1
  PROVE  ColumnAt(data, off, Len(recs), sigils, s)
           = IF Told(data, off, at, recs, sigils, s) THEN {off + at[s]} ELSE {}
<1> DEFINE n == Len(recs)
           good(i) == Told(data, off, at, recs, sigils, i)
           next(i, set) == UNION {SectorEnd(data, before, n, sigils[i - 1]) : before \in set}
           Rec(g) == g = [i \in 1 .. s |-> IF i = 1 THEN {off + 6} ELSE next(i, g[i - 1])]
           h == [i \in 1 .. s |-> IF good(i) THEN {off + at[i]} ELSE {}]
<1>1. Len(sigils) \in Nat /\ s \in Nat /\ s >= 1 /\ n \in Nat \ {0}
  BY DEF Fits
<1>2. good(1) /\ at[1] = 6
  BY DEF Told, PageLaid
<1>3. ASSUME NEW i \in 2 .. s
      PROVE  next(i, h[i - 1]) = h[i]
  <2>1. PICK t \in 1 .. Len(sigils) : t = i - 1 /\ t + 1 = i /\ t \in 1 .. s
    BY <1>1
  <2> DEFINE c == PageColumn(recs, sigils, t)
             x == off + at[t]
             end == SectorEnd(data, x, n, sigils[t])
             need == Needed(n, sigils[t])
  <2>2. /\ at[t] \in Nat /\ at[t + 1] = at[t] + Len(c) /\ HasWords(data, x, c)
    BY ColumnInPage
  <2>3. Len(c) \in Nat /\ Holds(c, CellsOf(recs, t), n, sigils[t])
    BY ColumnHolds
  <2>4. x \in Nat
    BY <2>2
  <2> HIDE DEF c, x, n
  <2>5. /\ x + need <= Len(data) => end = {x + Len(c)}
        /\ ~(x + need <= Len(data)) => end = {}
    BY <1>1, <2>2, <2>3, <2>4, SectorEndIs
  <2> HIDE DEF end, need
  <2>6. x + Len(c) = off + at[i]
    BY <2>1, <2>2, <2>3 DEF x
  <2>7. good(i) = (good(t) /\ x + need <= Len(data))
    <3>1. \A u : u \in 1 .. i - 1 <=> (u \in 1 .. t - 1 \/ u = t)
      BY <2>1
    <3>2. QED BY <2>1, <3>1 DEF Told, x, need, n
  <2>8. h[i - 1] = IF good(t) THEN {x} ELSE {}
    BY <2>1 DEF x
  <2>9. h[i] = IF good(i) THEN {off + at[i]} ELSE {}
    BY <1>1
  <2> HIDE DEF good, h
  <2>10. CASE ~good(t)
    <3>1. h[i - 1] = {} /\ h[i] = {}
      BY <2>7, <2>8, <2>9, <2>10
    <3>2. QED BY <3>1
  <2>11. CASE good(t)
    <3>1. h[i - 1] = {x} /\ i - 1 = t
      BY <2>1, <2>8, <2>11
    <3>2. next(i, {x}) = end
      BY <3>1 DEF end
    <3> HIDE DEF next
    <3>3. next(i, h[i - 1]) = end
      BY <3>1, <3>2
    <3>4. QED BY <2>5, <2>6, <2>7, <2>9, <2>11, <3>3
  <2>12. QED BY <2>10, <2>11
<1>4. \A i \in 1 .. s : h[i] = IF i = 1 THEN {off + 6} ELSE next(i, h[i - 1])
  <2> SUFFICES ASSUME NEW i \in 1 .. s
               PROVE  h[i] = IF i = 1 THEN {off + 6} ELSE next(i, h[i - 1])
    OBVIOUS
  <2>1. CASE i = 1
    <3>1. h[1] = {off + 6}
      BY <1>1, <1>2
    <3>2. QED BY <2>1, <3>1
  <2>2. CASE i # 1
    <3>1. i \in 2 .. s
      BY <2>2
    <3> HIDE DEF h, next
    <3>2. QED BY <1>3, <2>2, <3>1
  <2>3. QED BY <2>1, <2>2
<1>5. Rec(h)
  <2>1. h = [i \in 1 .. s |-> h[i]]
    OBVIOUS
  <2> HIDE DEF h, next
  <2>2. QED BY <1>4, <2>1
<1> DEFINE f == CHOOSE g : Rec(g)
<1>6. Rec(f)
  <2> HIDE DEF Rec, h
  <2>1. QED BY <1>5
<1>7. \A i \in 1 .. s : f[i] = h[i]
  <2> DEFINE T == {i \in 1 .. s : f[i] = h[i]}
  <2> HIDE DEF f, h, next
  <2>1. \A i \in 1 .. s : f[i] = IF i = 1 THEN {off + 6} ELSE next(i, f[i - 1])
    BY <1>6
  <2>2. 1 \in T
    <3>1. 1 \in 1 .. s
      BY <1>1
    <3>2. f[1] = {off + 6} /\ h[1] = {off + 6}
      BY <1>4, <2>1, <3>1
    <3>3. QED BY <3>1, <3>2
  <2>3. ASSUME NEW k \in 1 .. s - 1, k \in T
        PROVE  k + 1 \in T
    <3>1. k + 1 \in 1 .. s /\ (k + 1) - 1 = k /\ k + 1 # 1
      BY <1>1
    <3>2. f[k + 1] = next(k + 1, f[k]) /\ h[k + 1] = next(k + 1, h[k])
      BY <1>4, <2>1, <3>1
    <3>3. QED BY <2>3, <3>1, <3>2
  <2> HIDE DEF T
  <2>4. 1 \in Int /\ s \in Int
    BY <1>1
  <2>5. 1 .. s \subseteq T
    BY <2>2, <2>3, <2>4, Upward, Zenon
  <2>6. QED BY <2>5 DEF T
<1>8. s \in 1 .. s
  BY <1>1
<1>9. ColumnAt(data, off, n, sigils, s) = f[s]
  BY DEF ColumnAt
<1> HIDE DEF f
<1>10. f[s] = IF good(s) THEN {off + at[s]} ELSE {}
  BY <1>7, <1>8
<1>11. QED BY <1>9, <1>10

(* A page is taken for complete exactly when all of it is there.           *)
LEMMA PageEndIs ==
  ASSUME NEW recs, NEW sigils, Fits(recs, sigils), NEW page, NEW at, NEW start,
         PageLaid(page, at, start, recs, sigils),
         NEW data, NEW off \in Nat, off % 2 = 0, HasWords(data, off, page)
  PROVE  /\ Len(page) \in Nat /\ Len(page) >= 7 /\ Len(page) % 2 = 0
         /\ off + Len(page) <= Len(data) => CompletePageEnd(data, off, sigils) = {off + Len(page)}
         /\ ~(off + Len(page) <= Len(data)) => CompletePageEnd(data, off, sigils) = {}
<1>1. PICK F \in Nat : F = Len(sigils) /\ F >= 1
  BY DEF Fits
<1>2. PICK d \in Nat : d = Len(data)
  BY DEF HasWords
<1>3. PICK q \in Nat : q = at[F + 1]
  <2>1. at \in [1 .. Len(sigils) + 1 -> Nat]
    BY Zenon DEF PageLaid
  <2>2. F + 1 \in 1 .. Len(sigils) + 1
    BY <1>1
  <2>3. QED BY <2>1, <2>2
<1>4. Len(page) = q + 1 + ((q + 1) % 2) /\ page[q + 1][2] = q + 1
  <2> DEFINE z == at[Len(sigils) + 1]
  <2>1. Len(page) = z + 1 + ((z + 1) % 2) /\ page[z + 1][2] = z + 1
    BY Zenon DEF PageLaid, z
  <2>2. z = q
    BY <1>1, <1>3
  <2> HIDE DEF z
  <2>3. QED BY <2>1, <2>2
<1>5. q >= 6
  <2>1. 1 \in 1 .. Len(sigils)
    BY <1>1
  <2>2. PICK p \in Nat, r \in Nat, l \in Nat :
          p = at[1] /\ r = at[2] /\ r = p + l /\ r <= q
    <3>1. Len(PageColumn(recs, sigils, 1)) \in Nat
      BY <2>1, ColumnHolds
    <3>2. /\ at[1] \in Nat /\ at[1 + 1] \in Nat /\ at[1 + 1] <= at[Len(sigils) + 1]
          /\ at[1 + 1] = at[1] + Len(PageColumn(recs, sigils, 1))
      BY <2>1, ColumnInPage
    <3>3. QED BY <1>1, <1>3, <3>1, <3>2
  <2>3. p = 6
    BY <2>2 DEF PageLaid
  <2>4. QED BY <2>2, <2>3
<1>6. PICK m \in Nat : m = Len(page) /\ m = q + 1 + ((q + 1) % 2) /\ m >= 7 /\ m % 2 = 0
  <2>1. q + 1 + ((q + 1) % 2) \in Nat /\ q + 1 + ((q + 1) % 2) >= 7 /\ (q + 1 + ((q + 1) % 2)) % 2 = 0
    BY <1>5
  <2>2. QED BY <1>4, <2>1
<1>7. off + q + 1 + ((off + q + 1) % 2) = off + m
  <2>1. (off + q + 1) % 2 = (q + 1) % 2
    OBVIOUS
  <2>2. QED BY <1>6, <2>1
<1> DEFINE n == Len(recs)
           set == ColumnAt(data, off, data[off + 5][2], sigils, data[off + 6][2] + 1)
           bodies == {b \in set : b + 1 + ((b + 1) % 2) <= Len(data) /\ off + data[b + 1][2] = b + 1}
           ends == {end + (end % 2) : end \in {body + 1 : body \in bodies}}
           short == off + 6 > Len(data) \/ data[off + 1][1] # "page"
           all == Told(data, off, at, recs, sigils, F + 1)
<1>8. CompletePageEnd(data, off, sigils) = IF short THEN {} ELSE ends
  BY DEF CompletePageEnd
<1>9. ASSUME ~(off + 6 > d)
      PROVE  ~short /\ set = IF all THEN {off + q} ELSE {}
  <2>1. /\ 1 \in 1 .. m /\ 5 \in 1 .. m /\ 6 \in 1 .. m
        /\ off + 1 <= d /\ off + 5 <= d /\ off + 6 <= d
    BY <1>6, <1>9
  <2>2. data[off + 1] = page[1] /\ data[off + 5] = page[5] /\ data[off + 6] = page[6]
    BY <1>2, <1>6, <2>1 DEF HasWords
  <2>3. data[off + 1][1] = "page" /\ data[off + 5][2] = n /\ data[off + 6][2] = F
    BY <1>1, <2>2 DEF PageLaid
  <2>4. F + 1 \in 1 .. Len(sigils) + 1
    BY <1>1
  <2>5. ColumnAt(data, off, n, sigils, F + 1) = IF all THEN {off + at[F + 1]} ELSE {}
    BY <2>4, ColumnAtIs
  <2>6. ~short
    BY <1>2, <2>1, <2>3
  <2> HIDE DEF all, short
  <2>7. QED BY <1>3, <2>3, <2>5, <2>6
<1>10. ASSUME off + m <= d
       PROVE  CompletePageEnd(data, off, sigils) = {off + m}
  <2>1. ~short /\ set = IF all THEN {off + q} ELSE {}
    BY <1>6, <1>9, <1>10
  <2>2. all
    <3> SUFFICES ASSUME NEW t \in 1 .. (F + 1) - 1
                 PROVE  off + at[t] + Needed(Len(recs), sigils[t]) <= Len(data)
      BY DEF Told
    <3> DEFINE c == PageColumn(recs, sigils, t)
    <3>1. t \in 1 .. Len(sigils)
      BY <1>1
    <3>2. PICK p \in Nat, r \in Nat, l \in Nat :
            p = at[t] /\ r = at[t + 1] /\ l = Len(c) /\ r = p + l /\ r <= q
      <4>1. Len(c) \in Nat
        BY <3>1, ColumnHolds
      <4>2. /\ at[t] \in Nat /\ at[t + 1] \in Nat /\ at[t + 1] <= at[Len(sigils) + 1]
            /\ at[t + 1] = at[t] + Len(c)
        BY <3>1, ColumnInPage
      <4> HIDE DEF c
      <4>3. QED BY <1>1, <1>3, <4>1, <4>2
    <3>3. Needed(n, sigils[t]) \in Nat /\ Needed(n, sigils[t]) <= l
      <4> DEFINE x == off + p
                 k == Needed(n, sigils[t])
      <4>1. HasWords(data, x, c) /\ x \in Nat
        <5>1. HasWords(data, off + at[t], c)
          BY <3>1, ColumnInPage
        <5> HIDE DEF c
        <5>2. QED BY SMTT(60), <3>2, <5>1
      <4>2. n \in Nat \ {0} /\ Len(c) \in Nat /\ Holds(c, CellsOf(recs, t), n, sigils[t])
        BY <3>1, ColumnHolds
      <4> HIDE DEF c, n, x
      <4>3. k \in Nat /\ k <= Len(c)
        BY <4>1, <4>2, SectorEndIs
      <4> HIDE DEF k
      <4>4. k \in Nat /\ k <= l
        BY <3>2, <4>3
      <4>5. QED BY <4>4 DEF k
    <3>4. PICK k \in Nat : k = Needed(n, sigils[t]) /\ k <= l
      BY <3>3
    <3>5. off + p + k <= d
      BY SMTT(60), <1>6, <1>10, <3>2, <3>4
    <3>6. QED BY <1>2, <3>2, <3>4, <3>5
  <2>3. set = {off + q}
    BY <2>1, <2>2
  <2>4. data[(off + q) + 1][2] = q + 1
    <3>1. q + 1 \in 1 .. m /\ off + (q + 1) <= d /\ off + (q + 1) = (off + q) + 1
      BY <1>6, <1>10
    <3>2. data[off + (q + 1)] = page[q + 1]
      BY <1>2, <1>6, <3>1 DEF HasWords
    <3>3. QED BY <1>4, <3>1, <3>2
  <2> HIDE DEF set, short, all
  <2>5. bodies = {off + q}
    <3>1. (off + q) + 1 + (((off + q) + 1) % 2) <= Len(data) /\ off + (q + 1) = (off + q) + 1
      BY <1>2, <1>7, <1>10
    <3>2. QED BY <2>3, <2>4, <3>1
  <2> HIDE DEF bodies
  <2>6. ends = {((off + q) + 1) + (((off + q) + 1) % 2)}
    BY <2>5
  <2>7. ((off + q) + 1) + (((off + q) + 1) % 2) = off + m
    BY <1>7
  <2> HIDE DEF ends
  <2>8. QED BY <1>8, <2>1, <2>6, <2>7
<1>11. ASSUME ~(off + m <= d)
       PROVE  CompletePageEnd(data, off, sigils) = {}
  <2>1. CASE off + 6 > d
    BY <1>2, <1>8, <2>1
  <2>2. CASE ~(off + 6 > d)
    <3>1. ~short /\ set \subseteq {off + q}
      BY <1>9, <2>2
    <3> HIDE DEF set, short
    <3>2. ~((off + q) + 1 + (((off + q) + 1) % 2) <= Len(data))
      BY <1>2, <1>7, <1>11
    <3>3. bodies = {}
      BY <3>1, <3>2
    <3> HIDE DEF bodies
    <3>4. ends = {}
      BY <3>3
    <3> HIDE DEF ends
    <3>5. QED BY <1>8, <3>1, <3>4
  <2>3. QED BY <2>1, <2>2
<1>12. QED BY <1>2, <1>6, <1>10, <1>11

----------------------------------------------------------------------------
(* The pages of a file, one behind the other.                              *)

(* Places that grow by each step grow.                                     *)
LEMMA Growing ==
  ASSUME NEW c \in Nat, NEW E \in [0 .. c -> Nat], \A k \in 1 .. c : E[k - 1] < E[k]
  PROVE  \A j \in 0 .. c, k \in 0 .. c : j < k => E[j] < E[k]
<1> SUFFICES ASSUME NEW j \in 0 .. c
             PROVE  \A k \in 0 .. c : j < k => E[j] < E[k]
  OBVIOUS
<1> DEFINE T == {k \in j + 1 .. c : E[j] < E[k]}
<1>1. j + 1 <= c => j + 1 \in T
  <2> SUFFICES ASSUME j + 1 <= c PROVE j + 1 \in T
    OBVIOUS
  <2>1. j + 1 \in 1 .. c /\ (j + 1) - 1 = j /\ j + 1 \in j + 1 .. c
    OBVIOUS
  <2>2. E[(j + 1) - 1] < E[j + 1]
    BY <2>1
  <2>3. QED BY <2>1, <2>2
<1>2. ASSUME NEW k \in j + 1 .. c - 1, k \in T
      PROVE  k + 1 \in T
  <2>1. k + 1 \in 1 .. c /\ (k + 1) - 1 = k /\ k + 1 \in j + 1 .. c /\ k \in 0 .. c /\ k + 1 \in 0 .. c
    OBVIOUS
  <2>2. PICK x \in Nat, y \in Nat, z \in Nat : x = E[j] /\ y = E[k] /\ z = E[k + 1]
    BY <2>1
  <2>3. E[(k + 1) - 1] < E[k + 1] /\ E[j] < E[k]
    BY <1>2, <2>1
  <2>4. x < y /\ y < z
    BY <2>1, <2>2, <2>3
  <2>5. QED BY <2>1, <2>2, <2>4
<1> HIDE DEF T
<1>3. j + 1 \in Int /\ c \in Int
  OBVIOUS
<1>4. j + 1 .. c \subseteq T
  BY <1>1, <1>2, <1>3, Upward, Zenon
<1>5. QED BY <1>4 DEF T

(* The places of the first pages.                                          *)
Places(E, c) == [i \in 1 .. c |-> E[i - 1]]

(* Each of the first c pages ends where the next begins, and no page is    *)
(* complete elsewhere.                                                     *)
PagesEnd(data, sigils, c, E) ==
  /\ \A k \in 1 .. c : E[k - 1] < E[k] /\ E[k] <= Len(data)
  /\ \A k \in 1 .. c : CompletePageEnd(data, E[k - 1], sigils) = {E[k]}
  /\ \A x \in 0 .. Len(data) : (\A k \in 1 .. c : x # E[k - 1]) => CompletePageEnd(data, x, sigils) = {}

(* What a reader polls is the pages that are complete, from the first on.  *)
LEMMA PollsAre ==
  ASSUME NEW data, Len(data) \in Nat, NEW sigils, NEW c \in Nat, NEW E \in [0 .. c -> Nat],
         PagesEnd(data, sigils, c, E)
  PROVE  PollPages(data, E[0], sigils) = Places(E, c)
<1>0. /\ \A k \in 1 .. c : E[k - 1] < E[k] /\ E[k] <= Len(data)
      /\ \A k \in 1 .. c : CompletePageEnd(data, E[k - 1], sigils) = {E[k]}
      /\ \A x \in 0 .. Len(data) : (\A k \in 1 .. c : x # E[k - 1]) => CompletePageEnd(data, x, sigils) = {}
  BY DEF PagesEnd
<1> USE <1>0
<1> DEFINE d == Len(data)
           ends(x) == CompletePageEnd(data, x, sigils)
           more(x, g) == IF ends(x) = {} THEN << >> ELSE <<x>> \o g[Min(ends(x))]
           Rec(g) == g = [x \in 0 .. d |-> more(x, g)]
           from(k) == [i \in 1 .. c - k |-> E[k + i - 1]]
           at(x) == {k \in 0 .. c - 1 : E[k] = x}
           h == [x \in 0 .. d |-> IF at(x) = {} THEN << >> ELSE from(CHOOSE k \in at(x) : TRUE)]
<1>1. \A j \in 0 .. c, k \in 0 .. c : E[j] = E[k] => j = k
  <2>1. \A j \in 0 .. c, k \in 0 .. c : j < k => E[j] < E[k]
    BY Growing
  <2> SUFFICES ASSUME NEW j \in 0 .. c, NEW k \in 0 .. c, E[j] = E[k]
               PROVE  j = k
    OBVIOUS
  <2>2. E[j] \in Nat /\ E[k] \in Nat /\ ~(E[j] < E[k]) /\ ~(E[k] < E[j])
    OBVIOUS
  <2>3. ~(j < k) /\ ~(k < j)
    BY <2>1, <2>2
  <2>4. QED BY <2>3
<1>2. \A k \in 0 .. c : E[k] <= d => h[E[k]] = from(k)
  <2> SUFFICES ASSUME NEW k \in 0 .. c, E[k] <= d
               PROVE  h[E[k]] = from(k)
    OBVIOUS
  <2>1. E[k] \in 0 .. d
    OBVIOUS
  <2>2. h[E[k]] = IF at(E[k]) = {} THEN << >> ELSE from(CHOOSE j \in at(E[k]) : TRUE)
    BY <2>1
  <2> HIDE DEF h, from
  <2>3. CASE k = c
    <3>1. at(E[k]) = {}
      BY <1>1, <2>3
    <3>2. from(k) = << >>
      BY <2>3 DEF from
    <3>3. QED BY <2>2, <3>1, <3>2
  <2>4. CASE k # c
    <3>1. at(E[k]) = {k}
      BY <1>1, <2>4
    <3> HIDE DEF at
    <3>2. (CHOOSE j \in at(E[k]) : TRUE) = k
      BY <3>1
    <3>3. QED BY <2>2, <3>1, <3>2
  <2>5. QED BY <2>3, <2>4
<1>3. \A k \in 0 .. c - 1 : from(k) = <<E[k]>> \o from(k + 1)
  <2> SUFFICES ASSUME NEW k \in 0 .. c - 1
               PROVE  from(k) = <<E[k]>> \o from(k + 1)
    OBVIOUS
  <2>1. \A i \in 1 .. c - k : k + i - 1 \in 0 .. c
    OBVIOUS
  <2>2. from(k) \in Seq(Nat) /\ Len(from(k)) = c - k /\ \A i \in 1 .. c - k : from(k)[i] = E[k + i - 1]
    BY <2>1
  <2>3. \A i \in 1 .. c - (k + 1) : (k + 1) + i - 1 \in 0 .. c
    OBVIOUS
  <2>4. /\ from(k + 1) \in Seq(Nat) /\ Len(from(k + 1)) = c - (k + 1)
        /\ \A i \in 1 .. c - (k + 1) : from(k + 1)[i] = E[(k + 1) + i - 1]
    BY <2>3
  <2> DEFINE s == from(k)
             t == from(k + 1)
             u == <<E[k]>>
  <2>5. u \in Seq(Nat) /\ Len(u) = 1 /\ u[1] = E[k]
    OBVIOUS
  <2>6. t \in Seq(Nat) /\ Len(t) = c - (k + 1) /\ \A i \in 1 .. Len(t) : t[i] = E[k + i]
    <3>1. \A i : i \in Nat => (k + 1) + i - 1 = k + i
      OBVIOUS
    <3>2. QED BY <2>4, <3>1
  <2>7. s \in Seq(Nat) /\ Len(s) = c - k /\ \A i \in 1 .. Len(s) : s[i] = E[k + i - 1]
    BY <2>2
  <2> HIDE DEF s, t, u
  <2>8. /\ u \o t \in Seq(Nat) /\ Len(u \o t) = Len(u) + Len(t)
        /\ \A i \in 1 .. Len(u) : (u \o t)[i] = u[i]
        /\ \A i \in 1 .. Len(t) : (u \o t)[Len(u) + i] = t[i]
    <3>1. IsSeq(u) /\ IsSeq(t)
      BY <2>5, <2>6 DEF IsSeq
    <3>2. /\ Len(u \o t) = Len(u) + Len(t)
          /\ \A i \in 1 .. Len(u) : (u \o t)[i] = u[i]
          /\ \A i \in 1 .. Len(t) : (u \o t)[Len(u) + i] = t[i]
      BY <3>1, Joined
    <3>3. u \o t \in Seq(Nat)
      BY <2>5, <2>6
    <3>4. QED BY <3>2, <3>3
  <2>9. Len(u \o t) = c - k
    BY <2>5, <2>6, <2>8
  <2>10. ASSUME NEW i \in 1 .. c - k
         PROVE  s[i] = (u \o t)[i]
    <3>1. s[i] = E[k + i - 1]
      BY <2>7
    <3>2. CASE i = 1
      <4>1. (u \o t)[1] = E[k] /\ k + 1 - 1 = k
        BY <2>5, <2>8
      <4>2. QED BY <3>1, <3>2, <4>1
    <3>3. CASE i # 1
      <4>1. i - 1 \in 1 .. Len(t) /\ 1 + (i - 1) = i /\ k + (i - 1) = k + i - 1
        BY <2>6, <3>3
      <4>2. (u \o t)[1 + (i - 1)] = t[i - 1] /\ t[i - 1] = E[k + (i - 1)]
        BY <2>5, <2>6, <2>8, <4>1
      <4>3. QED BY <3>1, <4>1, <4>2
    <3>4. QED BY <3>2, <3>3
  <2>11. s = u \o t
    BY <2>7, <2>8, <2>9, <2>10, SameSeq
  <2>12. QED BY <2>11 DEF s, t, u
<1>4. \A k \in 0 .. c - 1 : E[k] \in 0 .. d /\ ends(E[k]) = {E[k + 1]} /\ Min(ends(E[k])) = E[k + 1]
                            /\ E[k + 1] \in 0 .. d /\ k + 1 \in 0 .. c
  <2> SUFFICES ASSUME NEW k \in 0 .. c - 1
               PROVE  E[k] \in 0 .. d /\ ends(E[k]) = {E[k + 1]} /\ Min(ends(E[k])) = E[k + 1]
                            /\ E[k + 1] \in 0 .. d /\ k + 1 \in 0 .. c
    OBVIOUS
  <2>1. k + 1 \in 1 .. c /\ (k + 1) - 1 = k /\ k \in 0 .. c /\ k + 1 \in 0 .. c
    OBVIOUS
  <2>2. E[k] \in Nat /\ E[k + 1] \in Nat
    BY <2>1
  <2>3. E[(k + 1) - 1] < E[k + 1] /\ E[k + 1] <= Len(data)
    BY <2>1
  <2>4. CompletePageEnd(data, E[(k + 1) - 1], sigils) = {E[k + 1]}
    BY <2>1
  <2>5. ends(E[k]) = {E[k + 1]}
    BY <2>1, <2>4
  <2> HIDE DEF ends
  <2>6. Min(ends(E[k])) = E[k + 1]
    BY <2>2, <2>5 DEF Min
  <2>7. QED BY <2>1, <2>2, <2>3, <2>5, <2>6
<1>5. \A x \in 0 .. d : (\A k \in 0 .. c - 1 : x # E[k]) => ends(x) = {}
  <2> SUFFICES ASSUME NEW x \in 0 .. d, \A k \in 0 .. c - 1 : x # E[k]
               PROVE  ends(x) = {}
    OBVIOUS
  <2>1. \A k \in 1 .. c : k - 1 \in 0 .. c - 1
    OBVIOUS
  <2>2. QED BY <2>1
<1>6. \A x \in 0 .. d : h[x] = more(x, h)
  <2> SUFFICES ASSUME NEW x \in 0 .. d
               PROVE  h[x] = more(x, h)
    OBVIOUS
  <2>1. CASE \E k \in 0 .. c - 1 : x = E[k]
    <3>1. PICK k \in 0 .. c - 1 : x = E[k]
      BY <2>1
    <3> HIDE DEF h, from, ends
    <3>2. h[E[k]] = from(k) /\ h[E[k + 1]] = from(k + 1)
      <4>1. k \in 0 .. c /\ k + 1 \in 0 .. c /\ E[k] <= d /\ E[k + 1] <= d
        BY <1>4
      <4>2. QED BY <1>2, <4>1
    <3>3. QED BY <1>3, <1>4, <3>1, <3>2
  <2>2. CASE ~\E k \in 0 .. c - 1 : x = E[k]
    <3>1. at(x) = {} /\ ends(x) = {}
      BY <1>5, <2>2
    <3> HIDE DEF at, ends
    <3>2. QED BY <3>1
  <2>3. QED BY <2>1, <2>2
<1> DEFINE polls == CHOOSE g : Rec(g)
<1>7. Rec(polls)
  <2>1. h = [x \in 0 .. d |-> h[x]]
    OBVIOUS
  <2> HIDE DEF h, more
  <2>2. Rec(h)
    BY <1>6, <2>1
  <2> HIDE DEF Rec
  <2>3. QED BY <2>2
<1>8. PollPages(data, E[0], sigils) = IF E[0] > d THEN << >> ELSE polls[E[0]]
  BY DEF PollPages
<1>9. \A k \in 0 .. c : E[k] <= d => polls[E[k]] = from(k)
  <2> DEFINE T == {k \in 0 .. c : E[k] <= d => polls[E[k]] = from(k)}
  <2> HIDE DEF polls, h, at
  <2>1. \A x \in 0 .. d : polls[x] = more(x, polls)
    <3> HIDE DEF more
    <3>1. QED BY <1>7
  <2> HIDE DEF ends, from
  <2>2. c \in T
    <3> SUFFICES ASSUME E[c] <= d PROVE polls[E[c]] = from(c)
      OBVIOUS
    <3>1. E[c] \in 0 .. d /\ \A k \in 0 .. c - 1 : E[c] # E[k]
      BY <1>1
    <3>2. ends(E[c]) = {}
      BY <1>5, <3>1
    <3>3. polls[E[c]] = << >>
      BY <2>1, <3>1, <3>2
    <3>4. from(c) = << >>
      BY DEF from
    <3>5. QED BY <3>3, <3>4
  <2>3. ASSUME NEW k \in 0 + 1 .. c, k \in T
        PROVE  k - 1 \in T
    <3>1. k - 1 \in 0 .. c - 1 /\ (k - 1) + 1 = k /\ k - 1 \in 0 .. c
      OBVIOUS
    <3>2. /\ E[k - 1] \in 0 .. d /\ ends(E[k - 1]) = {E[k]} /\ Min(ends(E[k - 1])) = E[k]
          /\ E[k] \in 0 .. d
      BY <1>4, <3>1
    <3>3. polls[E[k - 1]] = <<E[k - 1]>> \o polls[E[k]]
      BY <2>1, <3>2
    <3>4. polls[E[k]] = from(k)
      BY <2>3, <3>2
    <3>5. from(k - 1) = <<E[k - 1]>> \o from(k)
      BY <1>3, <3>1
    <3>6. QED BY <3>1, <3>3, <3>4, <3>5
  <2> HIDE DEF T
  <2>4. 0 \in Int /\ c \in Int
    OBVIOUS
  <2>5. 0 .. c \subseteq T
    BY <2>2, <2>3, <2>4, Downward, Zenon
  <2>6. QED BY <2>5 DEF T
<1>10. from(0) = Places(E, c)
  <2>1. \A i \in 1 .. c : 0 + i - 1 = i - 1
    OBVIOUS
  <2>2. c - 0 = c
    OBVIOUS
  <2>3. QED BY <2>1, <2>2 DEF Places
<1>11. E[0] > d => c = 0
  <2> SUFFICES ASSUME E[0] > d, c # 0 PROVE FALSE
    OBVIOUS
  <2>1. 0 \in 0 .. c - 1
    OBVIOUS
  <2>2. E[0] \in 0 .. d
    BY <1>4, <2>1
  <2>3. QED BY <2>2
<1> HIDE DEF polls, from
<1>12. CASE E[0] > d
  <2>1. Places(E, c) = << >>
    BY <1>11, <1>12 DEF Places
  <2>2. QED BY <1>8, <1>12, <2>1
<1>13. CASE ~(E[0] > d)
  <2>1. 0 \in 0 .. c /\ E[0] \in Nat /\ E[0] <= d
    BY <1>13
  <2>2. polls[E[0]] = from(0)
    BY <1>9, <2>1
  <2>3. QED BY <1>8, <1>10, <1>13, <2>2
<1>14. QED BY <1>12, <1>13

----------------------------------------------------------------------------
(* The tail-index.                                                         *)

(* A word behind a sequence.                                               *)
LEMMA WordBehind ==
  ASSUME NEW a, IsSeq(a), NEW x
  PROVE  /\ IsSeq(a \o <<x>>) /\ Len(a \o <<x>>) = Len(a) + 1 /\ (a \o <<x>>)[Len(a) + 1] = x
         /\ \A i \in 1 .. Len(a) : (a \o <<x>>)[i] = a[i]
<1> DEFINE u == <<x>>
           c == a \o u
<1>1. u \in Seq({x}) /\ Len(u) = 1 /\ u[1] = x /\ 1 \in 1 .. Len(u)
  OBVIOUS
<1>2. IsSeq(u)
  BY <1>1 DEF IsSeq
<1> HIDE DEF u
<1>3. /\ IsSeq(a \o u) /\ Len(a \o u) = Len(a) + Len(u)
      /\ \A i \in 1 .. Len(a) : (a \o u)[i] = a[i]
      /\ \A i \in 1 .. Len(u) : (a \o u)[Len(a) + i] = u[i]
  BY <1>2, Joined
<1>4. IsSeq(c) /\ Len(c) = Len(a) + 1 /\ c[Len(a) + 1] = x /\ \A i \in 1 .. Len(a) : c[i] = a[i]
  BY <1>1, <1>3
<1>5. QED BY <1>4 DEF u

(* A u64 behind a sequence.                                                *)
LEMMA WideBehind ==
  ASSUME NEW a, IsSeq(a), NEW tag, NEW v, tag # "page", tag # "foot"
  PROVE  /\ IsSeq(a \o Wide(tag, v)) /\ Len(a \o Wide(tag, v)) = Len(a) + 2
         /\ (a \o Wide(tag, v))[Len(a) + 1] = <<tag, v>>
         /\ (a \o Wide(tag, v))[Len(a) + 2] = <<"pad", 0>>
         /\ \A i \in 1 .. Len(a) : (a \o Wide(tag, v))[i] = a[i]
<1> DEFINE u == Wide(tag, v)
           x == <<tag, v>>
           y == <<"pad", 0>>
           c == a \o u
<1>1. IsSeq(u) /\ Len(u) = 2 /\ u[1] = x /\ u[2] = y
  BY WideIs
<1> HIDE DEF u, x, y
<1>2. /\ IsSeq(a \o u) /\ Len(a \o u) = Len(a) + Len(u)
      /\ \A i \in 1 .. Len(a) : (a \o u)[i] = a[i]
      /\ \A i \in 1 .. Len(u) : (a \o u)[Len(a) + i] = u[i]
  <2>1. IsSeq(a) /\ IsSeq(u)
    BY <1>1
  <2>2. QED BY <2>1, Joined
<1>3. /\ IsSeq(c) /\ Len(c) = Len(a) + 2 /\ c[Len(a) + 1] = x /\ c[Len(a) + 2] = y
      /\ \A i \in 1 .. Len(a) : c[i] = a[i]
  BY <1>1, <1>2
<1>4. QED BY <1>3 DEF u, x, y

(* The entry of a page.                                                    *)
Entry(m) ==
  << <<"index", m.index>> >> \o Wide("start", m.start) \o << <<"count", m.count>> >>
    \o Wide("at", m.at) \o << <<"len", m.len>> >>

(* Its seven words.                                                        *)
LEMMA EntryIs ==
  ASSUME NEW m
  PROVE  /\ IsSeq(Entry(m)) /\ Len(Entry(m)) = 7 /\ Inner(Entry(m))
         /\ Entry(m)[2][2] = m.start /\ Entry(m)[4][2] = m.count /\ Entry(m)[5][2] = m.at
<1> DEFINE x == <<"index", m.index>>
           y == <<"count", m.count>>
           z == <<"len", m.len>>
           w2 == <<"start", m.start>>
           w5 == <<"at", m.at>>
           pad == <<"pad", 0>>
           a == <<x>>
           b == a \o Wide("start", m.start)
           c == b \o <<y>>
           d == c \o Wide("at", m.at)
           e == d \o <<z>>
<1>1. /\ x[1] = "index" /\ y[1] = "count" /\ z[1] = "len" /\ w2[1] = "start" /\ w5[1] = "at"
      /\ pad[1] = "pad" /\ w2[2] = m.start /\ y[2] = m.count /\ w5[2] = m.at
  OBVIOUS
<1>2. e = Entry(m)
  BY DEF Entry
<1> HIDE DEF x, y, z
<1>3. IsSeq(a) /\ Len(a) = 1 /\ a[1] = x
  <2>1. a \in Seq({x}) /\ Len(a) = 1 /\ a[1] = x
    OBVIOUS
  <2>2. QED BY <2>1 DEF IsSeq
<1> HIDE DEF a
<1>4. /\ IsSeq(b) /\ Len(b) = Len(a) + 2 /\ b[Len(a) + 1] = w2 /\ b[Len(a) + 2] = pad
      /\ \A i \in 1 .. Len(a) : b[i] = a[i]
  <2>1. IsSeq(a)
    BY <1>3
  <2>2. QED BY <2>1, WideBehind
<1> HIDE DEF b
<1>5. IsSeq(b) /\ Len(b) = 3 /\ b[1] = x /\ b[2] = w2 /\ b[3] = pad
  BY <1>3, <1>4
<1>6. IsSeq(c) /\ Len(c) = Len(b) + 1 /\ c[Len(b) + 1] = y /\ \A i \in 1 .. Len(b) : c[i] = b[i]
  <2>1. IsSeq(b)
    BY <1>5
  <2>2. QED BY <2>1, WordBehind
<1> HIDE DEF c
<1>7. IsSeq(c) /\ Len(c) = 4 /\ c[1] = x /\ c[2] = w2 /\ c[3] = pad /\ c[4] = y
  BY <1>5, <1>6
<1>8. /\ IsSeq(d) /\ Len(d) = Len(c) + 2 /\ d[Len(c) + 1] = w5 /\ d[Len(c) + 2] = pad
      /\ \A i \in 1 .. Len(c) : d[i] = c[i]
  <2>1. IsSeq(c)
    BY <1>7
  <2>2. QED BY <2>1, WideBehind
<1> HIDE DEF d
<1>9. /\ IsSeq(d) /\ Len(d) = 6 /\ d[1] = x /\ d[2] = w2 /\ d[3] = pad /\ d[4] = y
      /\ d[5] = w5 /\ d[6] = pad
  BY <1>7, <1>8
<1>10. IsSeq(e) /\ Len(e) = Len(d) + 1 /\ e[Len(d) + 1] = z /\ \A i \in 1 .. Len(d) : e[i] = d[i]
  <2>1. IsSeq(d)
    BY <1>9
  <2>2. QED BY <2>1, WordBehind
<1> HIDE DEF e, w2, w5, pad
<1>11. /\ IsSeq(e) /\ Len(e) = 7 /\ e[1] = x /\ e[2] = w2 /\ e[3] = pad /\ e[4] = y
       /\ e[5] = w5 /\ e[6] = pad /\ e[7] = z
  BY <1>9, <1>10
<1>12. Inner(e)
  <2>1. \A i \in 1 .. 7 : i = 1 \/ i = 2 \/ i = 3 \/ i = 4 \/ i = 5 \/ i = 6 \/ i = 7
    OBVIOUS
  <2>2. QED BY <1>1, <1>11, <2>1 DEF Inner
<1>13. QED BY <1>1, <1>2, <1>11, <1>12

(* The tail has an entry for each page, seven words each, and ends with    *)
(* the footer, whose last word no other is.                                *)
TailLaid(t, n, metas, at, count) ==
  /\ IsSeq(t) /\ Len(t) = 7 * n + 7
  /\ \A p \in 1 .. n :
       /\ t[7 * (p - 1) + 2][2] = metas[p].start /\ t[7 * (p - 1) + 4][2] = metas[p].count
       /\ t[7 * (p - 1) + 5][2] = metas[p].at
  /\ t[7 * n + 1][2] = at /\ t[7 * n + 3][2] = count /\ t[7 * n + 5][2] = n /\ t[7 * n + 7][1] = "foot"
  /\ \A i \in 1 .. 7 * n + 7 : t[i][1] # "page"
  /\ \A i \in 1 .. 7 * n + 6 : t[i][1] # "foot"

(* build_pax_tail makes it.                                                *)
LEMMA TailIs ==
  ASSUME NEW n \in Nat, NEW metas, DOMAIN metas = 1 .. n, Len(metas) = n, NEW at, NEW count, NEW size
  PROVE  TailLaid(PaxTail(metas, at, count, size), n, metas, at, count)
<1> DEFINE f == [i \in 1 .. n |-> Entry(metas[i])]
           flat == FlattenSeq([i \in 1 .. n |-> f[i]])
           pad == <<"pad", 0>>
           w1 == <<"tail", at>>
           w3 == <<"count", count>>
           w5 == <<"pages", n>>
           w6 == <<"size", size>>
           w7 == <<"foot", 0>>
           last == <<w5, w6, w7>>
           b == flat \o Wide("tail", at)
           c == b \o Wide("count", count)
           t == c \o last
<1>1. \A i \in 1 .. n : /\ IsSeq(f[i]) /\ Len(f[i]) = 7 /\ Inner(f[i])
                        /\ f[i][2][2] = metas[i].start /\ f[i][4][2] = metas[i].count
                        /\ f[i][5][2] = metas[i].at
  <2> SUFFICES ASSUME NEW i \in 1 .. n
               PROVE  /\ IsSeq(f[i]) /\ Len(f[i]) = 7 /\ Inner(f[i])
                        /\ f[i][2][2] = metas[i].start /\ f[i][4][2] = metas[i].count
                        /\ f[i][5][2] = metas[i].at
    OBVIOUS
  <2>1. f[i] = Entry(metas[i])
    OBVIOUS
  <2> HIDE DEF f
  <2>2. QED BY <2>1, EntryIs
<1>2. PaxTail(metas, at, count, size) = t
  <2>1. [i \in DOMAIN metas |->
                   << <<"index", metas[i].index>> >> \o Wide("start", metas[i].start)
                     \o << <<"count", metas[i].count>> >> \o Wide("at", metas[i].at)
                     \o << <<"len", metas[i].len>> >>] = [i \in 1 .. n |-> f[i]]
    BY DEF Entry
  <2>2. QED BY <2>1 DEF PaxTail
<1> HIDE DEF f
<1>3. Flattened(flat, n, f) /\ Inner(flat)
  BY <1>1, FlattenAny, InnerFlat
<1> HIDE DEF flat
<1>4. PICK start \in [1 .. n + 1 -> Nat] :
        /\ start[1] = 0 /\ Len(flat) = start[n + 1]
        /\ \A i \in 1 .. n :
             /\ Len(f[i]) \in Nat
             /\ start[i + 1] = start[i] + Len(f[i])
             /\ start[i + 1] <= start[n + 1]
             /\ \A j \in 1 .. Len(f[i]) : flat[start[i] + j] = f[i][j]
  BY <1>3 DEF Flattened
<1>5. \A i \in 1 .. n + 1 : start[i] = 7 * (i - 1)
  <2>1. \A i \in 1 .. n : start[i + 1] = start[i] + 7
    BY <1>1, <1>4
  <2>2. start[1] = 0 /\ 7 \in Nat
    BY <1>4
  <2>3. QED BY <2>1, <2>2, EvenSteps
<1>6. IsSeq(flat) /\ Len(flat) = 7 * n
  <2>1. IsSeq(flat)
    BY <1>3 DEF Flattened
  <2>2. QED BY <1>4, <1>5, <2>1
<1>7. ASSUME NEW p \in 1 .. n
      PROVE  /\ flat[7 * (p - 1) + 2][2] = metas[p].start /\ flat[7 * (p - 1) + 4][2] = metas[p].count
             /\ flat[7 * (p - 1) + 5][2] = metas[p].at
             /\ 7 * (p - 1) + 2 \in 1 .. 7 * n /\ 7 * (p - 1) + 4 \in 1 .. 7 * n
             /\ 7 * (p - 1) + 5 \in 1 .. 7 * n
  <2>1. start[p] = 7 * (p - 1)
    BY <1>5
  <2>2. 2 \in 1 .. Len(f[p]) /\ 4 \in 1 .. Len(f[p]) /\ 5 \in 1 .. Len(f[p])
    BY <1>1
  <2>3. /\ flat[start[p] + 2] = f[p][2] /\ flat[start[p] + 4] = f[p][4]
        /\ flat[start[p] + 5] = f[p][5]
    BY <1>4, <2>2
  <2>4. /\ 7 * (p - 1) + 2 \in 1 .. 7 * n /\ 7 * (p - 1) + 4 \in 1 .. 7 * n
        /\ 7 * (p - 1) + 5 \in 1 .. 7 * n
    OBVIOUS
  <2>5. QED BY <1>1, <2>1, <2>3, <2>4
<1>8. /\ pad[1] = "pad" /\ w1[1] = "tail" /\ w3[1] = "count" /\ w5[1] = "pages" /\ w6[1] = "size"
      /\ w7[1] = "foot" /\ w1[2] = at /\ w3[2] = count /\ w5[2] = n
  OBVIOUS
<1>9. PICK m \in Nat : m = 7 * n
  OBVIOUS
<1>10. IsSeq(b) /\ Len(b) = m + 2 /\ b[m + 1] = w1 /\ b[m + 2] = pad /\ \A i \in 1 .. m : b[i] = flat[i]
  <2>1. IsSeq(flat)
    BY <1>6
  <2>2. /\ IsSeq(b) /\ Len(b) = Len(flat) + 2 /\ b[Len(flat) + 1] = w1 /\ b[Len(flat) + 2] = pad
        /\ \A i \in 1 .. Len(flat) : b[i] = flat[i]
    BY SMTT(60), <2>1, WideBehind
  <2> HIDE DEF b, w1, pad
  <2>3. QED BY <1>6, <1>9, <2>2
<1> HIDE DEF b
<1>11. /\ IsSeq(c) /\ Len(c) = (m + 2) + 2 /\ c[(m + 2) + 1] = w3 /\ c[(m + 2) + 2] = pad
       /\ \A i \in 1 .. m + 2 : c[i] = b[i]
  <2>1. IsSeq(b)
    BY <1>10
  <2>2. /\ IsSeq(c) /\ Len(c) = Len(b) + 2 /\ c[Len(b) + 1] = w3 /\ c[Len(b) + 2] = pad
        /\ \A i \in 1 .. Len(b) : c[i] = b[i]
    BY SMTT(60), <2>1, WideBehind
  <2> HIDE DEF c, w3, pad
  <2>3. QED BY <1>10, <2>2
<1> HIDE DEF c, w1, w3, w5, w6, w7, pad
<1>12. IsSeq(last) /\ Len(last) = 3 /\ last[1] = w5 /\ last[2] = w6 /\ last[3] = w7
  <2>1. last \in Seq({w5, w6, w7})
    OBVIOUS
  <2>2. QED BY <2>1 DEF IsSeq
<1> HIDE DEF last
<1>13. /\ IsSeq(t) /\ Len(t) = m + 7
       /\ \A i \in 1 .. m + 4 : t[i] = c[i]
       /\ t[m + 5] = w5 /\ t[m + 6] = w6 /\ t[m + 7] = w7
  <2>1. /\ IsSeq(c \o last) /\ Len(c \o last) = Len(c) + Len(last)
        /\ \A i \in 1 .. Len(c) : (c \o last)[i] = c[i]
        /\ \A i \in 1 .. Len(last) : (c \o last)[Len(c) + i] = last[i]
    <3>1. IsSeq(c) /\ IsSeq(last)
      BY <1>11, <1>12
    <3>2. QED BY <3>1, Joined
  <2>2. Len(c) = m + 4
    BY <1>11
  <2> HIDE DEF t
  <2>3. t = c \o last
    BY DEF t
  <2>4. /\ t[(m + 4) + 1] = last[1] /\ t[(m + 4) + 2] = last[2] /\ t[(m + 4) + 3] = last[3]
    BY <1>12, <2>1, <2>2, <2>3
  <2>5. (m + 4) + 1 = m + 5 /\ (m + 4) + 2 = m + 6 /\ (m + 4) + 3 = m + 7
    OBVIOUS
  <2>6. QED BY <1>12, <2>1, <2>2, <2>3, <2>4, <2>5
<1> HIDE DEF t
<1>14. /\ \A i \in 1 .. m : t[i] = flat[i]
       /\ t[m + 1] = w1 /\ t[m + 2] = pad /\ t[m + 3] = w3 /\ t[m + 4] = pad
  <2>1. \A i \in 1 .. m : i \in 1 .. m + 4 /\ i \in 1 .. m + 2
    OBVIOUS
  <2>2. (m + 2) + 1 = m + 3 /\ (m + 2) + 2 = m + 4
    OBVIOUS
  <2>3. m + 1 \in 1 .. m + 2 /\ m + 2 \in 1 .. m + 2
    OBVIOUS
  <2>4. m + 1 \in 1 .. m + 4 /\ m + 2 \in 1 .. m + 4 /\ m + 3 \in 1 .. m + 4 /\ m + 4 \in 1 .. m + 4
    OBVIOUS
  <2>5. QED BY <1>10, <1>11, <1>13, <2>1, <2>2, <2>3, <2>4
<1>15. ASSUME NEW i \in 1 .. m + 7
       PROVE  t[i][1] # "page" /\ (i # m + 7 => t[i][1] # "foot")
  <2>1. CASE i \in 1 .. m
    <3>1. t[i] = flat[i] /\ i \in 1 .. Len(flat)
      BY <1>6, <1>9, <1>14, <2>1
    <3>2. QED BY <1>3, <3>1 DEF Inner
  <2>2. CASE i \notin 1 .. m
    <3>1. i = m + 1 \/ i = m + 2 \/ i = m + 3 \/ i = m + 4 \/ i = m + 5 \/ i = m + 6 \/ i = m + 7
      BY <2>2
    <3>2. QED BY <1>8, <1>13, <1>14, <3>1
  <2>3. QED BY <2>1, <2>2
<1>16. \A i \in 1 .. m + 6 : i \in 1 .. m + 7 /\ i # m + 7
  OBVIOUS
<1>17. /\ t[m + 1][2] = at /\ t[m + 3][2] = count /\ t[m + 5][2] = n /\ t[m + 7][1] = "foot"
  BY <1>8, <1>13, <1>14
<1>18. \A p \in 1 .. n :
         /\ t[7 * (p - 1) + 2][2] = metas[p].start /\ t[7 * (p - 1) + 4][2] = metas[p].count
         /\ t[7 * (p - 1) + 5][2] = metas[p].at
  <2> SUFFICES ASSUME NEW p \in 1 .. n
               PROVE  /\ t[7 * (p - 1) + 2][2] = metas[p].start
                      /\ t[7 * (p - 1) + 4][2] = metas[p].count
                      /\ t[7 * (p - 1) + 5][2] = metas[p].at
    OBVIOUS
  <2>1. PICK x \in 1 .. m, y \in 1 .. m, z \in 1 .. m :
          /\ x = 7 * (p - 1) + 2 /\ y = 7 * (p - 1) + 4 /\ z = 7 * (p - 1) + 5
          /\ flat[x][2] = metas[p].start /\ flat[y][2] = metas[p].count /\ flat[z][2] = metas[p].at
    BY <1>7, <1>9
  <2>2. t[x] = flat[x] /\ t[y] = flat[y] /\ t[z] = flat[z]
    BY <1>14
  <2>3. QED BY <2>1, <2>2
<1>19. TailLaid(t, n, metas, at, count)
  BY <1>9, <1>13, <1>15, <1>16, <1>17, <1>18 DEF TailLaid
<1>20. QED BY <1>2, <1>19

----------------------------------------------------------------------------
(* Reading a cell.                                                         *)

(* What a text of a cell is read as.                                       *)
TextOf(cell) == [j \in 1 .. TextWords(cell) |-> <<"chr", <<cell, j>> >>]

(* The head of a page in a buffer.                                         *)
Headed(data, off, start, count, fields) ==
  /\ off + 6 <= Len(data) /\ data[off + 1][1] = "page"
  /\ data[off + 3][2] = start /\ data[off + 5][2] = count /\ data[off + 6][2] = fields

(* The page's words tell it.                                               *)
LEMMA HeadIs ==
  ASSUME NEW recs, NEW sigils, Fits(recs, sigils), NEW page, NEW at, NEW start,
         PageLaid(page, at, start, recs, sigils),
         NEW data, NEW off \in Nat, HasWords(data, off, page), Len(page) \in Nat, Len(page) >= 7,
         off + Len(page) <= Len(data)
  PROVE  Headed(data, off, start, Len(recs), Len(sigils))
<1>1. PICK d \in Nat, m \in Nat : d = Len(data) /\ m = Len(page) /\ m >= 7 /\ off + m <= d
  BY DEF HasWords
<1>2. \A j \in 1 .. 6 : j \in 1 .. m /\ off + j <= d
  BY <1>1
<1>3. \A j \in 1 .. 6 : data[off + j] = page[j]
  BY <1>1, <1>2 DEF HasWords
<1>4. /\ data[off + 1] = page[1] /\ data[off + 3] = page[3] /\ data[off + 5] = page[5]
      /\ data[off + 6] = page[6]
  BY <1>3
<1>5. page[1][1] = "page" /\ page[3][2] = start /\ page[5][2] = Len(recs) /\ page[6][2] = Len(sigils)
  BY DEF PageLaid
<1>6. off + 6 <= Len(data)
  BY <1>1
<1>7. QED BY <1>4, <1>5, <1>6 DEF Headed

(* The column at `a` tells whether its i-th record has a value, and which. *)
Reads(data, a, n, i, cell, sigil) ==
  /\ Present(data, a, i) <=> Populated(cell)
  /\ ~IsVar(sigil) => data[a + BitmapWords(n) + 2 * i - 1][2] = Stored(cell, sigil)
  /\ IsVar(sigil) => TextAt(data, a, n, i) = TextOf(cell)

(* A column in a buffer tells which records have a value, and which.       *)
LEMMA ColumnRead ==
  ASSUME NEW data, IsSeq(data), NEW a \in Nat, NEW n \in Nat \ {0}, NEW sigil, NEW c, NEW col,
         Len(c) \in Nat, Holds(c, col, n, sigil), HasWords(data, a, c), a + Len(c) <= Len(data),
         NEW i \in 1 .. n, TextWords(col[i]) \in Nat
  PROVE  Reads(data, a, n, i, col[i], sigil)
<1>1. PICK b \in Nat : b = BitmapWords(n) /\ b >= 2
  BY BitmapIsWords
<1>2. PICK d \in Nat, l \in Nat : d = Len(data) /\ l = Len(c) /\ a + l <= d
  BY DEF HasWords
<1>3. \A j \in 1 .. l : data[a + j] = c[j]
  <2>1. \A j \in 1 .. l : a + j <= d
    BY <1>2
  <2>2. QED BY <1>2, <2>1 DEF HasWords
<1>4. l >= b + 1
  <2>1. CASE IsVar(sigil)
    <3>1. l = b + n + 1 + TextEnd(c, n, n) /\ TextEnd(c, n, n) \in Nat
      BY <1>1, <1>2, <2>1 DEF Holds
    <3>2. QED BY <3>1
  <2>2. CASE ~IsVar(sigil)
    <3>1. l = b + 2 * n
      BY <1>1, <1>2, <2>2 DEF Holds
    <3>2. QED BY <3>1
  <2>3. QED BY <2>1, <2>2
<1>5. Present(data, a, i) <=> Populated(col[i])
  <2>1. data[a + 1] = c[1]
    BY <1>1, <1>3, <1>4
  <2>2. c[1][2] = {k \in 1 .. n : Populated(col[k])}
    BY DEF Holds
  <2>3. QED BY <2>1, <2>2 DEF Present
<1>6. ASSUME ~IsVar(sigil)
      PROVE  data[a + BitmapWords(n) + 2 * i - 1][2] = Stored(col[i], sigil)
  <2>1. l = b + 2 * n /\ c[BitmapWords(n) + 2 * i - 1][2] = Stored(col[i], sigil)
    BY <1>1, <1>2, <1>6 DEF Holds
  <2>2. PICK j \in 1 .. l : j = b + 2 * i - 1
    <3>1. b + 2 * i - 1 \in 1 .. l
      BY SMTT(60), <1>1, <2>1
    <3>2. QED BY <3>1
  <2>3. data[a + j] = c[j]
    BY <1>3
  <2>4. a + j = a + b + 2 * i - 1
    BY <2>2
  <2>5. QED BY <1>1, <2>1, <2>2, <2>3, <2>4
<1>7. ASSUME IsVar(sigil)
      PROVE  TextAt(data, a, n, i) = TextOf(col[i])
  <2>1. /\ \A k \in 0 .. n : TextEnd(c, n, k) \in Nat
        /\ l = b + n + 1 + TextEnd(c, n, n)
        /\ TextEnd(c, n, i) = TextEnd(c, n, i - 1) + TextWords(col[i])
        /\ TextEnd(c, n, i) <= TextEnd(c, n, n)
        /\ \A j \in 1 .. TextWords(col[i]) :
             c[b + n + 1 + TextEnd(c, n, i - 1) + j] = <<"chr", <<col[i], j>> >>
    BY <1>1, <1>2, <1>7 DEF Holds
  <2>2. PICK e0 \in Nat, e1 \in Nat, e2 \in Nat, w \in Nat :
          /\ e0 = TextEnd(c, n, i - 1) /\ e1 = TextEnd(c, n, i) /\ e2 = TextEnd(c, n, n)
          /\ w = TextWords(col[i]) /\ e1 = e0 + w /\ e1 <= e2 /\ l = b + n + 1 + e2
    <3>1. i - 1 \in 0 .. n /\ i \in 0 .. n /\ n \in 0 .. n
      OBVIOUS
    <3>2. TextEnd(c, n, i - 1) \in Nat /\ TextEnd(c, n, i) \in Nat /\ TextEnd(c, n, n) \in Nat
      BY <2>1, <3>1
    <3>3. QED BY <2>1, <3>2
  <2>20. e1 = e0 + w /\ e1 <= e2 /\ l = b + n + 1 + e2
    BY <2>2
  <2>3. data[a + b + i][2] = e0 /\ data[a + b + i + 1][2] = e1
    <3>1. PICK j \in 1 .. l : j = b + i
      <4>1. b + i \in 1 .. l
        BY <2>20
      <4>2. QED BY <4>1
    <3>2. PICK k \in 1 .. l : k = b + i + 1
      <4>1. b + i + 1 \in 1 .. l
        BY <2>20
      <4>2. QED BY <4>1
    <3>3. c[j][2] = e0 /\ c[k][2] = e1
      <4>1. b + (i - 1) + 1 = j /\ b + i + 1 = k
        BY <3>1, <3>2
      <4>2. QED BY <1>1, <2>2, <4>1 DEF TextEnd
    <3>4. data[a + j] = c[j] /\ data[a + k] = c[k]
      BY <1>3
    <3>5. a + j = a + b + i /\ a + k = a + b + i + 1
      BY <3>1, <3>2
    <3>6. QED BY <3>3, <3>4, <3>5
  <2>4. PICK x \in Nat, y \in Nat : x = a + b + n + 1 + e0 /\ y = a + b + n + 1 + e1
    OBVIOUS
  <2>5. x <= y /\ y <= d /\ y - x = w
    <3>1. a + l <= d
      BY <1>2
    <3>2. QED BY <2>20, <2>4, <3>1
  <2>6. TextAt(data, a, n, i) = SubSeq(data, x + 1, y)
    BY <1>1, <2>3, <2>4 DEF TextAt
  <2>7. PICK W : data \in Seq(W)
    BY DEF IsSeq
  <2> DEFINE p == SubSeq(data, x + 1, y)
  <2>8. p \in Seq(W) /\ Len(p) = w /\ \A j \in 1 .. w : p[j] = data[x + j]
    BY SMTT(60), <1>2, <2>5, <2>7, PartOf
  <2> HIDE DEF p
  <2>9. \A j \in 1 .. w : data[x + j] = <<"chr", <<col[i], j>> >>
    <3> SUFFICES ASSUME NEW j \in 1 .. w
                 PROVE  data[x + j] = <<"chr", <<col[i], j>> >>
      OBVIOUS
    <3>1. PICK k \in 1 .. l : k = b + n + 1 + e0 + j
      <4>1. b + n + 1 + e0 + j \in 1 .. l
        BY <2>20
      <4>2. QED BY <4>1
    <3>2. a + k = x + j
      BY <2>4, <3>1
    <3>3. c[k] = <<"chr", <<col[i], j>> >>
      BY <2>1, <2>2, <3>1
    <3>4. data[a + k] = c[k]
      BY <1>3
    <3>5. QED BY <3>2, <3>3, <3>4
  <2>10. p = [j \in 1 .. w |-> p[j]]
    BY <2>8
  <2>11. p = TextOf(col[i])
    BY <2>2, <2>8, <2>9, <2>10 DEF TextOf
  <2>12. QED BY <2>6, <2>11 DEF p
<1>8. QED BY <1>5, <1>6, <1>7 DEF Reads

(* The same of a page's column.                                            *)
LEMMA PageRead ==
  ASSUME NEW recs, NEW sigils, Fits(recs, sigils), NEW page, NEW at, NEW start,
         PageLaid(page, at, start, recs, sigils), NEW data, IsSeq(data),
         NEW off \in Nat, HasWords(data, off, page), off + Len(page) <= Len(data),
         NEW s \in 1 .. Len(sigils), NEW i \in 1 .. Len(recs), NEW a \in Nat, a = off + at[s]
  PROVE  /\ Reads(data, a, Len(recs), i, recs[i][s], sigils[s])
         /\ ~IsVar(sigils[s]) => a + BitmapWords(Len(recs)) + 2 * Len(recs) <= Len(data)
         /\ Told(data, off, at, recs, sigils, s)
<1> DEFINE c == PageColumn(recs, sigils, s)
           col == CellsOf(recs, s)
           sigil == sigils[s]
<1>1. PICK n \in Nat \ {0} : n = Len(recs)
  BY ColumnHolds
<1>2. /\ col \in [1 .. n -> Cells] /\ IsSeq(c) /\ Len(c) \in Nat /\ Holds(c, col, n, sigil)
  BY <1>1, ColumnHolds
<1>3. col[i] = recs[i][s] /\ i \in 1 .. n
  <2>1. DOMAIN recs = 1 .. n
    BY <1>1 DEF Fits
  <2>2. QED BY <1>1, <2>1 DEF CellsOf
<1>4. TextWords(col[i]) \in Nat
  BY <1>2, <1>3, TextIsWords
<1>5. /\ at[s] \in Nat /\ at[s + 1] = at[s] + Len(c) /\ at[s + 1] <= at[Len(sigils) + 1]
      /\ at[Len(sigils) + 1] + 1 <= Len(page) /\ Len(page) \in Nat /\ at[Len(sigils) + 1] \in Nat
      /\ HasWords(data, off + at[s], c)
  BY ColumnInPage
<1>6. HasWords(data, a, c) /\ a + Len(c) <= Len(data) /\ Len(data) \in Nat
  <2>1. Len(data) \in Nat
    BY DEF HasWords
  <2> HIDE DEF c
  <2>2. PICK p0 \in Nat, l \in Nat, p2 \in Nat, m \in Nat, d \in Nat :
          /\ p0 = at[s] /\ l = Len(c) /\ p2 = at[Len(sigils) + 1] /\ m = Len(page) /\ d = Len(data)
          /\ p0 + l <= p2 /\ p2 + 1 <= m
    BY <1>2, <1>5, <2>1
  <2>3. off + m <= d /\ a = off + p0
    BY <2>2
  <2>4. a + l <= d
    <3>1. p0 + l <= p2 /\ p2 + 1 <= m
      BY <2>2
    <3>2. QED BY SMTT(60), <2>3, <3>1
  <2>5. QED BY <1>5, <2>1, <2>2, <2>4
<1> HIDE DEF c, col, sigil
<1>7. Reads(data, a, n, i, col[i], sigil)
  <2>1. IsSeq(data) /\ a \in Nat /\ n \in Nat \ {0}
    OBVIOUS
  <2>2. QED BY <1>2, <1>3, <1>4, <1>6, <2>1, ColumnRead, Zenon
<1>8. ASSUME ~IsVar(sigil) PROVE a + BitmapWords(n) + 2 * n <= Len(data)
  <2>1. Len(c) = BitmapWords(n) + 2 * n /\ BitmapWords(n) \in Nat
    BY <1>2, <1>8, BitmapIsWords DEF Holds
  <2>2. QED BY <1>6, <2>1
<1>9. Told(data, off, at, recs, sigils, s)
  <2> SUFFICES ASSUME NEW t \in 1 .. s - 1
               PROVE  off + at[t] + Needed(Len(recs), sigils[t]) <= Len(data)
    BY DEF Told
  <2>1. t \in 1 .. Len(sigils)
    BY DEF Fits
  <2> DEFINE e == PageColumn(recs, sigils, t)
  <2>2. /\ at[t] \in Nat /\ at[t + 1] = at[t] + Len(e) /\ at[t + 1] <= at[Len(sigils) + 1]
        /\ HasWords(data, off + at[t], e)
    BY SMTT(60), <2>1, ColumnInPage
  <2>3. Len(e) \in Nat /\ Holds(e, CellsOf(recs, t), n, sigils[t])
    BY <1>1, <2>1, ColumnHolds
  <2>4. PICK z \in Nat : z = off + at[t]
    BY <2>2
  <2> HIDE DEF e
  <2>5. Needed(n, sigils[t]) \in Nat /\ Needed(n, sigils[t]) <= Len(e)
    <3>1. HasWords(data, z, e)
      BY <2>2, <2>4
    <3>2. QED BY <2>3, <3>1, SectorEndIs
  <2>6. PICK l \in Nat, q \in Nat, p2 \in Nat, m \in Nat, d \in Nat, p0 \in Nat :
          /\ l = Len(e) /\ q = Needed(n, sigils[t]) /\ p2 = at[Len(sigils) + 1] /\ m = Len(page)
          /\ d = Len(data) /\ p0 = at[t]
    BY <1>5, <1>6, <2>2, <2>3, <2>5
  <2>7. q <= l /\ p0 + l <= p2 /\ p2 + 1 <= m /\ off + m <= d
    <3>1. q <= l
      BY <2>5, <2>6
    <3>2. p0 + l <= p2
      BY <2>2, <2>6
    <3>3. p2 + 1 <= m
      BY <1>5, <2>6
    <3>4. off + m <= d
      BY <2>6
    <3>5. QED BY <3>1, <3>2, <3>3, <3>4
  <2>8. off + p0 + q <= d
    BY <2>7
  <2>9. QED BY <1>1, <2>6, <2>8
<1>10. QED BY <1>1, <1>3, <1>7, <1>8, <1>9 DEF sigil

(* A cell of a sealed file's page.                                         *)
CellRead(cell, sigil) ==
  IF ~Populated(cell) THEN None ELSE IF IsVar(sigil) THEN TextOf(cell) ELSE Stored(cell, sigil)

(* A buffer has the whole page of these records at `off`.                  *)
PageThere(data, off, recs, sigils) ==
  \E page, at, start :
    /\ PageLaid(page, at, start, recs, sigils) /\ HasWords(data, off, page)
    /\ off + Len(page) <= Len(data) /\ Len(page) \in Nat /\ Len(page) >= 7

(* The columns up to s are of fixed width.                                 *)
AllFixed(sigils, s) == \A t \in 1 .. s : ~IsVar(sigils[t])

(* Behind columns of fixed width a view reads the column there is.         *)
LEMMA ViewIs ==
  ASSUME NEW recs, NEW sigils, Fits(recs, sigils), NEW data, IsSeq(data),
         NEW off \in Nat, PageThere(data, off, recs, sigils),
         NEW s \in 1 .. Len(sigils), NEW i \in 1 .. Len(recs), AllFixed(sigils, s)
  PROVE  ViewGet(data, off, i, s) = CellRead(recs[i][s], sigils[s])
<1>0. PICK page, at, start :
        /\ PageLaid(page, at, start, recs, sigils) /\ HasWords(data, off, page)
        /\ off + Len(page) <= Len(data) /\ Len(page) \in Nat /\ Len(page) >= 7
  BY DEF PageThere
<1> USE <1>0
<1>1. PICK n \in Nat \ {0} : n = Len(recs)
  BY ColumnHolds
<1>2. PICK b \in Nat : b = BitmapWords(n)
  BY BitmapIsWords
<1>3. PICK w \in Nat : w = b + 2 * n
  OBVIOUS
<1>4. /\ Len(sigils) \in Nat /\ s \in Nat /\ s >= 1
      /\ \A t \in 1 .. s : t \in 1 .. Len(sigils) /\ ~IsVar(sigils[t])
  BY DEF Fits, AllFixed
<1>5. \A t \in 1 .. s : at[t] \in Nat /\ at[t + 1] \in Nat /\ at[t + 1] = at[t] + w
  <2> SUFFICES ASSUME NEW t \in 1 .. s
               PROVE  at[t] \in Nat /\ at[t + 1] \in Nat /\ at[t + 1] = at[t] + w
    OBVIOUS
  <2> DEFINE c == PageColumn(recs, sigils, t)
  <2>1. at[t] \in Nat /\ at[t + 1] \in Nat /\ at[t + 1] = at[t] + Len(c)
    BY <1>4, ColumnInPage
  <2>2. Holds(c, CellsOf(recs, t), n, sigils[t])
    BY <1>1, <1>4, ColumnHolds
  <2>3. Len(c) = w
    BY <1>2, <1>3, <1>4, <2>2 DEF Holds
  <2>4. QED BY <2>1, <2>3
<1>6. at[s] = 6 + w * (s - 1)
  <2>1. PICK m \in Nat : s = m + 1
    BY <1>4
  <2> DEFINE f == [t \in 1 .. m + 1 |-> at[t] - 6]
             S == {t \in 1 .. m + 1 : at[t] = 6 + w * (t - 1)}
  <2>2. 1 \in S
    <3>1. at[1] = 6
      BY DEF PageLaid
    <3>2. 6 + w * (1 - 1) = 6
      OBVIOUS
    <3>3. QED BY <2>1, <3>1, <3>2
  <2>3. ASSUME NEW k \in 1 .. (m + 1) - 1, k \in S
        PROVE  k + 1 \in S
    <3>1. at[k] = 6 + w * (k - 1) /\ at[k + 1] = at[k] + w /\ k + 1 \in 1 .. m + 1
      BY <1>5, <2>1, <2>3
    <3>2. (6 + w * (k - 1)) + w = 6 + w * ((k + 1) - 1)
      OBVIOUS
    <3>3. QED BY <3>1, <3>2
  <2>4. 1 .. m + 1 \subseteq S
    <3>1. 1 \in Int /\ m + 1 \in Int /\ (1 <= m + 1 => 1 \in S)
      BY <2>2
    <3> HIDE DEF S
    <3>2. QED BY <2>3, <3>1, Upward, Zenon
  <2>5. m + 1 \in S
    BY <2>4
  <2>6. QED BY <2>1, <2>5
<1>7. PICK a \in Nat : a = off + at[s] /\ a = off + 6 + (s - 1) * w
  <2>1. at[s] \in Nat
    BY <1>4, <1>5
  <2>2. off + at[s] \in Nat
    BY <2>1
  <2>3. off + at[s] = off + 6 + (s - 1) * w
    BY <1>6
  <2>4. QED BY <2>2, <2>3
<1>8. data[off + 5][2] = n
  <2>1. Headed(data, off, start, Len(recs), Len(sigils))
    BY HeadIs, Zenon
  <2>2. QED BY <1>1, <2>1 DEF Headed
<1>9. ViewColumnAt(data, off, s) = a
  BY <1>2, <1>3, <1>7, <1>8 DEF ViewColumnAt
<1>10. /\ Present(data, a, i) <=> Populated(recs[i][s])
       /\ data[a + b + 2 * i - 1][2] = Stored(recs[i][s], sigils[s])
       /\ a + b + 2 * n <= Len(data)
  <2>1. ~IsVar(sigils[s])
    BY <1>4
  <2>2. a = off + at[s]
    BY <1>7
  <2>3. Reads(data, a, Len(recs), i, recs[i][s], sigils[s])
    BY <2>2, PageRead, Zenon
  <2>4. ~IsVar(sigils[s]) => a + BitmapWords(Len(recs)) + 2 * Len(recs) <= Len(data)
    BY <2>2, PageRead, Zenon
  <2>5. QED BY <1>1, <1>2, <2>1, <2>3, <2>4 DEF Reads
<1>11. ~(a + b + 2 * n > Len(data))
  BY SMTT(60), <1>10 DEF HasWords
<1>12. ViewGet(data, off, i, s) =
         IF ~Present(data, a, i) THEN None ELSE data[a + b + 2 * i - 1][2]
  BY <1>2, <1>8, <1>9, <1>11 DEF ViewGet
<1>13. ~IsVar(sigils[s])
  BY <1>4
<1>14. QED BY <1>10, <1>12, <1>13 DEF CellRead

----------------------------------------------------------------------------
(* The reader of a sealed file.                                            *)

(* Each half of a search interval holds the pages on its side of the middle. *)
LEMMA Halves ==
  ASSUME NEW lo \in Int, NEW hi \in Int, NEW m \in Int, lo <= m, m <= hi, NEW q \in Int
  PROVE  /\ q < m => (q \in lo .. hi <=> q \in lo .. m - 1)
         /\ q > m => (q \in lo .. hi <=> q \in m + 1 .. hi)
OBVIOUS

(* The tail-index has n pages, and the p-th ends where U[p + 1] records do. *)
Indexed(data, n, U) ==
  /\ Footer(data).pages = n
  /\ \A p \in 0 .. n - 1 : /\ PageStart(data, p) = U[p]
                           /\ PageStart(data, p) + PageCount(data, p) = U[p + 1]
  /\ \A j \in 0 .. n, k \in 0 .. n : j <= k => U[j] <= U[k]

(* The binary search finds the page that has the record.                   *)
LEMMA LocateIs ==
  ASSUME NEW data, NEW n \in Nat, NEW U \in [0 .. n -> Nat], Indexed(data, n, U), NEW record \in Nat, NEW q \in 0 .. n - 1, U[q] <= record, record < U[q + 1]
  PROVE  Locate(data, record) = q
<1> USE DEF Indexed
<1> DEFINE A == 0 .. n
           B == -1 .. n - 1
           mid(lo, hi) == (lo + hi) \div 2
           more(lo, hi, g) ==
             IF lo > hi THEN Nowhere
             ELSE IF record < PageStart(data, mid(lo, hi)) THEN g[<<lo, mid(lo, hi) - 1>>]
             ELSE IF record >= PageStart(data, mid(lo, hi)) + PageCount(data, mid(lo, hi))
                  THEN g[<<mid(lo, hi) + 1, hi>>]
             ELSE mid(lo, hi)
           Rec(g) == g = [z \in A \X B |-> more(z[1], z[2], g)]
           found(lo, hi) == IF q \in lo .. hi THEN q ELSE Nowhere
           h == [z \in A \X B |-> found(z[1], z[2])]
<1>1. ASSUME NEW lo \in A, NEW hi \in B, NEW g
      PROVE  \/ lo > hi /\ more(lo, hi, g) = Nowhere
             \/ \E m \in lo .. hi :
                  /\ m \in 0 .. n - 1
                  /\ \/ q < m /\ more(lo, hi, g) = g[<<lo, m - 1>>]
                     \/ q > m /\ more(lo, hi, g) = g[<<m + 1, hi>>]
                     \/ q = m /\ more(lo, hi, g) = q
  <2>1. CASE lo > hi
    BY <2>1
  <2>2. CASE ~(lo > hi)
    <3>1. PICK m \in lo .. hi : m = mid(lo, hi) /\ m \in 0 .. n - 1
      <4>1. lo \in Int /\ hi \in Int /\ lo <= hi /\ lo >= 0 /\ hi <= n - 1
        BY <2>2
      <4>2. (lo + hi) \div 2 \in lo .. hi
        BY <4>1
      <4>3. QED BY <4>1, <4>2
    <3>2. PICK a \in Nat, b \in Nat :
            /\ a = PageStart(data, m) /\ b = PageStart(data, m) + PageCount(data, m)
            /\ a = U[m] /\ b = U[m + 1]
      <4>1. m \in 0 .. n /\ m + 1 \in 0 .. n
        BY <3>1
      <4>2. U[m] \in Nat /\ U[m + 1] \in Nat
        BY <4>1
      <4>3. QED BY <3>1, <4>2
    <3>3. more(lo, hi, g) =
            IF record < a THEN g[<<lo, m - 1>>] ELSE IF record >= b THEN g[<<m + 1, hi>>] ELSE m
      BY <2>2, <3>1, <3>2, Zenon
    <3>4. PICK x \in Nat, y \in Nat : x = U[q] /\ y = U[q + 1] /\ x <= record /\ record < y
      <4>1. q \in 0 .. n /\ q + 1 \in 0 .. n
        OBVIOUS
      <4>2. U[q] \in Nat /\ U[q + 1] \in Nat
        BY <4>1
      <4>3. QED BY <4>2
    <3> HIDE DEF more
    <3>5. CASE record < a
      <4>1. q < m
        <5>1. SUFFICES ASSUME m <= q PROVE FALSE
          BY <3>1
        <5>2. m \in 0 .. n /\ q \in 0 .. n
          BY <3>1
        <5>3. U[m] <= U[q]
          BY <5>1, <5>2
        <5>4. QED BY <3>2, <3>4, <3>5, <5>3
      <4>2. more(lo, hi, g) = g[<<lo, m - 1>>]
        BY <3>3, <3>5
      <4>3. QED BY <3>1, <4>1, <4>2
    <3>6. CASE ~(record < a) /\ record >= b
      <4>1. q > m
        <5>1. SUFFICES ASSUME q <= m PROVE FALSE
          BY <3>1
        <5>2. m + 1 \in 0 .. n /\ q + 1 \in 0 .. n /\ q + 1 <= m + 1
          BY <3>1, <5>1
        <5>3. U[q + 1] <= U[m + 1]
          BY <5>2
        <5>4. QED BY <3>2, <3>4, <3>6, <5>3
      <4>2. more(lo, hi, g) = g[<<m + 1, hi>>]
        BY <3>3, <3>6
      <4>3. QED BY <3>1, <4>1, <4>2
    <3>7. CASE ~(record < a) /\ ~(record >= b)
      <4>1. ~(q < m)
        <5>1. SUFFICES ASSUME q < m PROVE FALSE
          OBVIOUS
        <5>2. q + 1 \in 0 .. n /\ m \in 0 .. n /\ q + 1 <= m
          BY <3>1, <5>1
        <5>3. U[q + 1] <= U[m]
          BY <5>2
        <5>4. QED BY <3>2, <3>4, <3>7, <5>3
      <4>2. ~(q > m)
        <5>1. SUFFICES ASSUME q > m PROVE FALSE
          OBVIOUS
        <5>2. m + 1 \in 0 .. n /\ q \in 0 .. n /\ m + 1 <= q
          BY <3>1, <5>1
        <5>3. U[m + 1] <= U[q]
          BY <5>2
        <5>4. QED BY <3>2, <3>4, <3>7, <5>3
      <4>3. q = m
        BY <3>1, <4>1, <4>2
      <4>4. more(lo, hi, g) = q
        BY <3>3, <3>7, <4>3
      <4>5. QED BY <3>1, <4>3, <4>4
    <3>8. QED BY <3>5, <3>6, <3>7
  <2>3. QED BY <2>1, <2>2
<1> HIDE DEF more
<1>2. \A lo \in A, hi \in B : h[<<lo, hi>>] = found(lo, hi)
  OBVIOUS
<1>3. Rec(h)
  <2>1. ASSUME NEW lo \in A, NEW hi \in B
        PROVE  found(lo, hi) = more(lo, hi, h)
    <3> HIDE DEF h
    <3>1. CASE lo > hi /\ more(lo, hi, h) = Nowhere
      <4>1. q \notin lo .. hi
        BY <3>1
      <4>2. QED BY <3>1, <4>1
    <3>2. ASSUME NEW m \in lo .. hi, m \in 0 .. n - 1, q < m, more(lo, hi, h) = h[<<lo, m - 1>>]
          PROVE  found(lo, hi) = more(lo, hi, h)
      <4>0. lo \in Int /\ hi \in Int /\ m \in Int /\ q \in Int /\ lo <= m /\ m <= hi
        BY <3>2
      <4>1. m - 1 \in B /\ (q \in lo .. hi <=> q \in lo .. m - 1)
        <5>1. q \in lo .. hi <=> q \in lo .. m - 1
          BY <3>2, <4>0, Halves, Zenon
        <5>2. m - 1 \in B
          BY <3>2, <4>0
        <5>3. QED BY <5>1, <5>2
      <4>2. QED BY <1>2, <3>2, <4>1
    <3>3. ASSUME NEW m \in lo .. hi, m \in 0 .. n - 1, q > m, more(lo, hi, h) = h[<<m + 1, hi>>]
          PROVE  found(lo, hi) = more(lo, hi, h)
      <4>0. lo \in Int /\ hi \in Int /\ m \in Int /\ q \in Int /\ lo <= m /\ m <= hi
        BY <3>3
      <4>1. m + 1 \in A /\ (q \in lo .. hi <=> q \in m + 1 .. hi)
        <5>1. q \in lo .. hi <=> q \in m + 1 .. hi
          BY <3>3, <4>0, Halves, Zenon
        <5>2. m + 1 \in A
          BY <3>3, <4>0
        <5>3. QED BY <5>1, <5>2
      <4>2. QED BY <1>2, <3>3, <4>1
    <3>4. ASSUME NEW m \in lo .. hi, q = m, more(lo, hi, h) = q
          PROVE  found(lo, hi) = more(lo, hi, h)
      BY <3>4
    <3> HIDE DEF found
    <3>5. QED BY <1>1, <3>1, <3>2, <3>3, <3>4
  <2> HIDE DEF found
  <2>2. h = [z \in A \X B |-> more(z[1], z[2], h)]
    BY <2>1 DEF h
  <2>3. QED BY <2>2
<1> DEFINE f == CHOOSE g : Rec(g)
<1>4. Rec(f)
  <2> HIDE DEF Rec, h
  <2>1. QED BY <1>3
<1> HIDE DEF f, h
<1>5. \A lo \in A, hi \in B : f[<<lo, hi>>] = more(lo, hi, f)
  <2>1. f = [z \in A \X B |-> more(z[1], z[2], f)]
    BY <1>4
  <2>2. QED BY <2>1
<1> HIDE DEF Rec
<1> DEFINE S == {d \in 0 .. n : \A lo \in A, hi \in B : hi - lo + 1 <= d => f[<<lo, hi>>] = found(lo, hi)}
<1>6. 0 \in S
  <2>1. ASSUME NEW lo \in A, NEW hi \in B, hi - lo + 1 <= 0
        PROVE  f[<<lo, hi>>] = found(lo, hi)
    <3>1. lo > hi /\ q \notin lo .. hi /\ ~\E m \in lo .. hi : TRUE
      BY <2>1
    <3>2. more(lo, hi, f) = Nowhere
      BY <1>1, <3>1
    <3>3. QED BY <1>5, <3>1, <3>2
  <2>2. QED BY <2>1
<1>7. ASSUME NEW d \in 0 .. n - 1, d \in S
      PROVE  d + 1 \in S
  <2>1. ASSUME NEW lo \in A, NEW hi \in B, hi - lo + 1 <= d + 1
        PROVE  f[<<lo, hi>>] = found(lo, hi)
    <3>1. CASE lo > hi /\ more(lo, hi, f) = Nowhere
      <4>1. q \notin lo .. hi
        BY <3>1
      <4>2. QED BY <1>5, <3>1, <4>1
    <3>2. ASSUME NEW m \in lo .. hi, m \in 0 .. n - 1, q < m, more(lo, hi, f) = f[<<lo, m - 1>>]
          PROVE  f[<<lo, hi>>] = found(lo, hi)
      <4>0. lo \in Int /\ hi \in Int /\ m \in Int /\ q \in Int /\ d \in Int /\ lo <= m /\ m <= hi
        BY <3>2
      <4>1. m - 1 \in B /\ (q \in lo .. hi <=> q \in lo .. m - 1) /\ (m - 1) - lo + 1 <= d
        <5>1. q \in lo .. hi <=> q \in lo .. m - 1
          BY <3>2, <4>0, Halves, Zenon
        <5>2. m - 1 \in B
          BY <3>2, <4>0
        <5>4. (m - 1) - lo + 1 <= d
          BY <2>1, <4>0
        <5>3. QED BY <5>1, <5>2, <5>4
      <4>2. f[<<lo, m - 1>>] = found(lo, m - 1)
        BY <1>7, <4>1
      <4>3. QED BY <1>5, <3>2, <4>1, <4>2
    <3>3. ASSUME NEW m \in lo .. hi, m \in 0 .. n - 1, q > m, more(lo, hi, f) = f[<<m + 1, hi>>]
          PROVE  f[<<lo, hi>>] = found(lo, hi)
      <4>0. lo \in Int /\ hi \in Int /\ m \in Int /\ q \in Int /\ d \in Int /\ lo <= m /\ m <= hi
        BY <3>3
      <4>1. m + 1 \in A /\ (q \in lo .. hi <=> q \in m + 1 .. hi) /\ hi - (m + 1) + 1 <= d
        <5>1. q \in lo .. hi <=> q \in m + 1 .. hi
          BY <3>3, <4>0, Halves, Zenon
        <5>2. m + 1 \in A
          BY <3>3, <4>0
        <5>4. hi - (m + 1) + 1 <= d
          BY <2>1, <4>0
        <5>3. QED BY <5>1, <5>2, <5>4
      <4>2. f[<<m + 1, hi>>] = found(m + 1, hi)
        BY <1>7, <4>1
      <4>3. QED BY <1>5, <3>3, <4>1, <4>2
    <3>4. ASSUME NEW m \in lo .. hi, q = m, more(lo, hi, f) = q
          PROVE  f[<<lo, hi>>] = found(lo, hi)
      BY <1>5, <3>4
    <3> HIDE DEF found, S
    <3>5. QED BY <1>1, <3>1, <3>2, <3>3, <3>4
  <2> HIDE DEF found
  <2>2. d + 1 \in 0 .. n
    OBVIOUS
  <2>3. QED BY <2>1, <2>2, Zenon
<1>8. 0 .. n \subseteq S
  <2>1. 0 \in Int /\ n \in Int
    OBVIOUS
  <2> HIDE DEF S
  <2>2. QED BY <1>6, <1>7, <2>1, Upward, Zenon
<1>9. f[<<0, n - 1>>] = found(0, n - 1)
  <2>1. 0 \in A /\ n - 1 \in B /\ (n - 1) - 0 + 1 <= n /\ n \in S
    <3>1. 0 <= n - 1
      OBVIOUS
    <3>2. n \in S
      <4> HIDE DEF S
      <4>1. n \in 0 .. n
        OBVIOUS
      <4>2. QED BY <1>8, <4>1
    <3>3. 0 \in A /\ n - 1 \in B /\ (n - 1) - 0 + 1 <= n
      BY <3>1
    <3>4. QED BY <3>2, <3>3
  <2>2. QED BY <2>1
<1>10. found(0, n - 1) = q
  OBVIOUS
<1>11. Locate(data, record) = f[<<0, n - 1>>]
  BY Zenon DEF Locate, f, Rec, more, A, B
<1>12. QED BY <1>9, <1>10, <1>11

(* The record is the i-th of the p-th page, which is whole at `off`.        *)
Sits(data, sigils, recs, record, p, off, i, s) ==
  /\ Fits(recs, sigils) /\ IsSeq(data) /\ off \in Nat /\ PageThere(data, off, recs, sigils)
  /\ s \in 1 .. Len(sigils) /\ i \in 1 .. Len(recs)
  /\ Locate(data, record) = p /\ p # Nowhere
  /\ data[Footer(data).tail + 7 * p + 5][2] = off /\ record - PageStart(data, p) + 1 = i

(* A sealed file's cell, in the page that the search finds.                *)
LEMMA SealedCell ==
  ASSUME NEW data, NEW sigils, NEW recs, NEW record, NEW p, NEW off, NEW i, NEW s,
         Sits(data, sigils, recs, record, p, off, i, s)
  PROVE  SealedGet(data, sigils, record, s) = CellRead(recs[i][s], sigils[s])
<1> USE DEF Sits
<1>0. PICK page, at, start :
        /\ PageLaid(page, at, start, recs, sigils) /\ HasWords(data, off, page)
        /\ off + Len(page) <= Len(data) /\ Len(page) \in Nat /\ Len(page) >= 7
  BY DEF PageThere
<1>1. PICK n \in Nat \ {0} : n = Len(recs)
  BY ColumnHolds
<1>2. Headed(data, off, start, Len(recs), Len(sigils))
  BY <1>0, HeadIs, Zenon
<1>3. data[off + 5][2] = n /\ data[off + 1][1] = "page" /\ ~(off + 6 > Len(data))
  <2>1. Len(data) \in Nat
    BY <1>0 DEF HasWords
  <2>2. QED BY <1>1, <1>2, <2>1 DEF Headed
<1>4. at[s] \in Nat /\ Len(sigils) \in Nat
  <2>1. at[s] \in Nat
    BY <1>0, ColumnInPage
  <2>2. QED BY <2>1 DEF Fits
<1>5. PICK a \in Nat : a = off + at[s]
  BY <1>4
<1>6. /\ Reads(data, a, Len(recs), i, recs[i][s], sigils[s])
      /\ Told(data, off, at, recs, sigils, s)
  BY <1>0, <1>5, PageRead, Zenon
<1>7. ColumnAt(data, off, n, sigils, s) = {a}
  <2>1. s \in 1 .. Len(sigils) + 1
    BY <1>4
  <2>2. ColumnAt(data, off, Len(recs), sigils, s)
           = IF Told(data, off, at, recs, sigils, s) THEN {off + at[s]} ELSE {}
    BY <1>0, <2>1, ColumnAtIs, Zenon
  <2>3. QED BY <1>1, <1>5, <1>6, <2>2
<1>8. Min(ColumnAt(data, off, n, sigils, s)) = a
  <2>1. a <= a
    OBVIOUS
  <2>2. QED BY <1>7, <2>1 DEF Min
<1>9. SealedGet(data, sigils, record, s) =
        IF ~Present(data, a, i) THEN None
        ELSE IF IsVar(sigils[s]) THEN TextAt(data, a, n, i)
        ELSE data[a + BitmapWords(n) + 2 * i - 1][2]
  BY <1>3, <1>8, Zenon DEF SealedGet
<1>10. /\ Present(data, a, i) <=> Populated(recs[i][s])
       /\ ~IsVar(sigils[s]) => data[a + BitmapWords(n) + 2 * i - 1][2] = Stored(recs[i][s], sigils[s])
       /\ IsVar(sigils[s]) => TextAt(data, a, n, i) = TextOf(recs[i][s])
  BY <1>1, <1>6 DEF Reads
<1>11. QED BY <1>9, <1>10 DEF CellRead

(* The sizes C of n pages cut from the records, their bytes P, and their   *)
(* ends E.                                                                 *)
CutInto(recs, width, size, start, n, C, P, E) ==
  /\ (Len(recs) + size - 1) \div size = n
  /\ \A p \in 0 .. n - 1 : Min({size, Len(recs) - p * size}) = C[p]
  /\ \A p \in 0 .. n - 1 :
       P[p] = EncodePage(p, p * size, SubSeq(recs, p * size + 1, p * size + C[p]), InferSigils(recs, width))
  /\ E[0] = start /\ \A p \in 1 .. n : E[p] = E[p - 1] + Len(P[p - 1])

(* These pages and their tail.                                             *)
Finished(recs, size, n, C, P, E) ==
  FlattenSeq([i \in 1 .. n |-> P[i - 1]])
    \o PaxTail([i \in 1 .. n |-> [index |-> i - 1, start |-> (i - 1) * size, count |-> C[i - 1],
                                  at |-> E[i - 1], len |-> Len(P[i - 1])]],
               E[n], Len(recs), size)

(* What finish_pax makes of them.                                          *)
LEMMA FinishIs ==
  ASSUME NEW recs, NEW width, NEW size, NEW start, NEW n \in Nat, NEW C, NEW P, NEW E,
         CutInto(recs, width, size, start, n, C, P, E)
  PROVE  FinishPax(recs, width, size, start)
           = Finished(recs, size, n, C, P, E)
<1>0. /\ (Len(recs) + size - 1) \div size = n
      /\ \A p \in 0 .. n - 1 : Min({size, Len(recs) - p * size}) = C[p]
      /\ \A p \in 0 .. n - 1 :
           P[p] = EncodePage(p, p * size, SubSeq(recs, p * size + 1, p * size + C[p]), InferSigils(recs, width))
      /\ E[0] = start /\ \A p \in 1 .. n : E[p] = E[p - 1] + Len(P[p - 1])
  BY Zenon DEF CutInto
<1> DEFINE sigils == InferSigils(recs, width)
           m == (Len(recs) + size - 1) \div size
           count(p) == Min({size, Len(recs) - p * size})
           page == [p \in 0 .. m - 1 |->
                      EncodePage(p, p * size, SubSeq(recs, p * size + 1, p * size + count(p)), sigils)]
           Rec(g) == g = [p \in 0 .. m |-> IF p = 0 THEN start ELSE g[p - 1] + Len(page[p - 1])]
           at == CHOOSE g : Rec(g)
           metas == [i \in 1 .. m |-> [index |-> i - 1, start |-> (i - 1) * size,
                                       count |-> count(i - 1), at |-> at[i - 1], len |-> Len(page[i - 1])]]
<1>1. FinishPax(recs, width, size, start)
        = FlattenSeq([i \in 1 .. m |-> page[i - 1]]) \o PaxTail(metas, at[m], Len(recs), size)
  BY Zenon DEF FinishPax, sigils, m, count, page, Rec, at, metas
<1>2. m = n /\ \A p \in 0 .. n - 1 : count(p) = C[p]
  BY <1>0
<1>3. \A p \in 0 .. n - 1 : page[p] = P[p]
  <2> HIDE DEF count, sigils
  <2> SUFFICES ASSUME NEW p \in 0 .. n - 1 PROVE page[p] = P[p]
    OBVIOUS
  <2>1. page[p] = EncodePage(p, p * size, SubSeq(recs, p * size + 1, p * size + count(p)), sigils)
    BY <1>2
  <2> HIDE DEF page
  <2>2. count(p) = C[p]
    BY <1>2
  <2>3. QED BY <1>0, <2>1, <2>2, Zenon DEF sigils
<1> HIDE DEF m, count, page, sigils
<1>4. Rec(at)
  <2> DEFINE h == [p \in 0 .. m |-> E[p]]
  <2>1. Rec(h)
    <3>1. ASSUME NEW p \in 0 .. m
          PROVE  h[p] = IF p = 0 THEN start ELSE h[p - 1] + Len(page[p - 1])
      <4>1. h[p] = E[p]
        OBVIOUS
      <4>2. CASE p = 0
        BY <1>0, <4>1, <4>2
      <4>3. CASE p # 0
        <5>1. p \in 1 .. n /\ p - 1 \in 0 .. n - 1 /\ p - 1 \in 0 .. m
          BY <1>2, <4>3
        <5>2. h[p - 1] = E[p - 1] /\ page[p - 1] = P[p - 1]
          BY <1>3, <5>1
        <5>3. E[p] = E[p - 1] + Len(P[p - 1])
          BY <1>0, <5>1
        <5> HIDE DEF h
        <5>4. QED BY <4>1, <4>3, <5>2, <5>3
      <4>4. QED BY <4>2, <4>3
    <3>2. QED BY <3>1, Zenon
  <2> HIDE DEF Rec, h
  <2>2. QED BY <2>1
<1> HIDE DEF at
<1>5. \A p \in 0 .. n : at[p] = E[p]
  <2>1. \A p \in 0 .. n : at[p] = IF p = 0 THEN start ELSE at[p - 1] + Len(page[p - 1])
    <3>1. at = [p \in 0 .. n |-> IF p = 0 THEN start ELSE at[p - 1] + Len(page[p - 1])]
      BY <1>2, <1>4
    <3>2. QED BY <3>1, Zenon
  <2> DEFINE S == {p \in 0 .. n : at[p] = E[p]}
  <2>2. 0 \in S
    <3>1. 0 \in 0 .. n
      OBVIOUS
    <3>2. QED BY <1>0, <2>1, <3>1
  <2>3. ASSUME NEW p \in 0 .. n - 1, p \in S PROVE p + 1 \in S
    <3>1. p + 1 \in 0 .. n /\ p + 1 \in 1 .. n /\ (p + 1) - 1 = p /\ p + 1 # 0
      OBVIOUS
    <3>2. at[p + 1] = at[p] + Len(page[p])
      BY <2>1, <3>1
    <3>3. E[p + 1] = E[p] + Len(P[p])
      BY <1>0, <3>1
    <3>4. QED BY <1>3, <2>3, <3>1, <3>2, <3>3
  <2>4. 0 .. n \subseteq S
    <3>1. 0 \in Int /\ n \in Int
      OBVIOUS
    <3> HIDE DEF S
    <3>2. QED BY <2>2, <2>3, <3>1, Upward, Zenon
  <2>5. QED BY <2>4
<1> HIDE DEF Rec
<1>6. \A i \in 1 .. n : i - 1 \in 0 .. n - 1 /\ i - 1 \in 0 .. n
  OBVIOUS
<1>7. metas = [i \in 1 .. n |-> [index |-> i - 1, start |-> (i - 1) * size, count |-> C[i - 1],
                                 at |-> E[i - 1], len |-> Len(P[i - 1])]]
  <2>1. ASSUME NEW i \in 1 .. n
        PROVE  [index |-> i - 1, start |-> (i - 1) * size,
                count |-> count(i - 1), at |-> at[i - 1], len |-> Len(page[i - 1])]
                = [index |-> i - 1, start |-> (i - 1) * size, count |-> C[i - 1],
                   at |-> E[i - 1], len |-> Len(P[i - 1])]
    <3>1. count(i - 1) = C[i - 1] /\ at[i - 1] = E[i - 1] /\ page[i - 1] = P[i - 1]
      BY <1>2, <1>3, <1>5, <1>6
    <3>2. QED BY <3>1, Zenon
  <2>2. QED BY <1>2, <2>1, Zenon DEF metas
<1>8. [i \in 1 .. m |-> page[i - 1]] = [i \in 1 .. n |-> P[i - 1]]
  <2>1. \A i \in 1 .. n : page[i - 1] = P[i - 1]
    BY <1>3, <1>6
  <2>2. QED BY <1>2, <2>1, Zenon
<1>9. at[m] = E[n]
  <2>1. n \in 0 .. n
    OBVIOUS
  <2>2. QED BY <1>2, <1>5, <2>1
<1> HIDE DEF metas
<1>10. QED BY <1>1, <1>7, <1>8, <1>9, Zenon DEF Finished
=============================================================================
