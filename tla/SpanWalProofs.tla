--------------------------- MODULE SpanWalProofs ---------------------------
(* Proofs about SpanWal, for every set of spans, every record size and     *)
(* buffer capacity, and every kind of crash: its types, the inductive      *)
(* invariant, conjunct by conjunct, the safety properties that follow, and *)
(* what survives a crash.                                                  *)
EXTENDS SpanWal, SequenceTheorems, TLAPS

----------------------------------------------------------------------------
(* Cells.                                                                  *)

(* The cells a record takes are cells of a log.                            *)
LEMMA RecordCellsType ==
  ASSUME NEW s \in Spans
  PROVE  /\ RecordCells(s) \in Seq(Cell)
         /\ Len(RecordCells(s)) = Size[s]
         /\ Size[s] \in Nat /\ Size[s] >= 3
         /\ \A i \in 1 .. Size[s] : RecordCells(s)[i] = [span |-> s, part |-> i]
<1>1. Size[s] \in Nat /\ Size[s] >= 3
  BY SpanWalAssumption
<1>2. \A i \in 1 .. Size[s] : [span |-> s, part |-> i] \in Cell
  BY <1>1 DEF Cell
<1>3. RecordCells(s) \in [1 .. Size[s] -> Cell]
  BY <1>2 DEF RecordCells
<1>4. RecordCells(s) \in Seq(Cell)
  BY <1>1, <1>3, SeqDef
<1>5. QED
  BY <1>1, <1>3, <1>4, LenProperties DEF RecordCells

(* So are those of the header.                                             *)
LEMMA HeaderCellsType ==
  /\ HeaderCells \in Seq(Cell) /\ Len(HeaderCells) = HeaderLen
  /\ HeaderLen \in Nat /\ HeaderLen >= 2
<1>1. HeaderLen \in Nat /\ HeaderLen >= 2
  BY SpanWalAssumption
<1>2. \A i \in 1 .. HeaderLen : [span |-> WalHeader, part |-> i] \in Cell
  BY <1>1 DEF Cell
<1>3. HeaderCells \in [1 .. HeaderLen -> Cell]
  BY <1>2 DEF HeaderCells
<1>4. HeaderCells \in Seq(Cell)
  BY <1>1, <1>3, SeqDef
<1>5. QED
  BY <1>1, <1>3, <1>4, LenProperties

(* A prefix of a sequence, as SubSeq(_, 1, k) takes it.                    *)
LEMMA PrefixType ==
  ASSUME NEW S, NEW q \in Seq(S), NEW k \in 0 .. Len(q)
  PROVE  /\ SubSeq(q, 1, k) \in Seq(S)
         /\ Len(SubSeq(q, 1, k)) = k
         /\ \A i \in 1 .. k : SubSeq(q, 1, k)[i] = q[i]
<1>1. \A i \in 1 .. k : q[i] \in S
  BY ElementOfSeq
<1>2. QED
  BY <1>1, SubSeqProperties

(* write_all leaves between `written` and all of the cells in the file.    *)
LEMMA WrittenAfterRange ==
  ASSUME TypeOK, NEW d \in Nat
  PROVE  /\ WrittenAfter(d) \in Nat
         /\ WrittenAfter(d) >= written
         /\ WrittenAfter(d) = Len(log) + d \/ WrittenAfter(d) = Len(log)
            \/ WrittenAfter(d) = written
<1>1. Len(log) \in Nat /\ written \in Nat /\ written <= Len(log) /\ BufCap \in Nat
  BY SpanWalAssumption, LenProperties DEF TypeOK
<1>2. QED
  BY <1>1 DEF WrittenAfter

----------------------------------------------------------------------------
(* Types.                                                                  *)

(* What a crash leaves of log and records is a log and records.            *)
LEMMA CutToType ==
  ASSUME TypeOK, NEW cells \in Seq(Cell), NEW recs \in Seq(Entry),
         NEW k \in 0 .. Len(cells), NEW n \in 0 .. Len(recs),
         CutTo(cells, recs, k, n)
  PROVE  /\ log' \in Seq(Cell) /\ written' \in 0 .. Len(log')
         /\ laid' \in Seq(Entry) /\ safe' \in 0 .. Len(laid')
         /\ tear' \in Nat \cup {NoTear}
<1>1. /\ SubSeq(cells, 1, k) \in Seq(Cell) /\ Len(SubSeq(cells, 1, k)) = k
      /\ SubSeq(recs, 1, n) \in Seq(Entry) /\ Len(SubSeq(recs, 1, n)) = n
      /\ k \in Nat /\ n \in Nat
  BY PrefixType
<1>2. Edge(recs, n) \in Nat
  <2>1. CASE n = 0
    BY <2>1, SpanWalAssumption DEF Edge
  <2>2. CASE n # 0
    <3>1. recs[n] \in Entry
      BY <2>2, <1>1, ElementOfSeq
    <3>2. QED
      BY <2>2, <3>1, SpanWalAssumption DEF Edge, End, Entry
  <2>3. QED
    BY <2>1, <2>2
<1>3. QED
  BY <1>1, <1>2 DEF CutTo, TypeOK

(* What index.push() leaves: the entries there were, and perhaps one more. *)
LEMMA PushedType ==
  ASSUME NEW idx \in Seq(Listed), NEW id \in Spans \cup {Stray, NoId}, NEW pos \in Nat
  PROVE  Pushed(idx, id, pos) \in Seq(Listed)
<1>1. CASE id = NoId
  BY <1>1 DEF Pushed
<1>2. CASE id # NoId
  <2>1. [span |-> id, offset |-> pos] \in Listed
    BY <1>2 DEF Listed
  <2>2. QED
    BY <1>2, <2>1, AppendProperties DEF Pushed
<1>3. QED
  BY <1>1, <1>2

(* The types hold of no file ...                                           *)
LEMMA TypeInit == Init => TypeOK
<1> SUFFICES ASSUME Init PROVE TypeOK
  OBVIOUS
<1>1. /\ << >> \in Seq(Entry) /\ << >> \in Seq(Listed) /\ << >> \in Seq(Cell)
      /\ Len(log) = 0 /\ Len(laid) = 0
  BY EmptySeq DEF Init
<1>2. scan \in [pos : Nat, index : Seq(Listed), count : Nat]
  BY <1>1 DEF Init, NoScan
<1>3. sealed \in [entries : SUBSET Listed, records : Nat]
  BY DEF Init, NoSeal
<1>4. mode \in Modes
  BY DEF Init, Modes
<1>5. exists \in BOOLEAN /\ written = 0 /\ safe = 0
  BY DEF Init
<1>6. /\ log \in Seq(Cell) /\ index \in Seq(Listed) /\ laid \in Seq(Entry)
      /\ recordCount \in Nat /\ currentOffset \in Nat /\ tear \in {NoTear} /\ crashes \in Nat
  BY <1>1 DEF Init
<1>7. QED
  BY <1>1, <1>2, <1>3, <1>4, <1>5, <1>6 DEF TypeOK

(* ... and every step keeps them.                                          *)
LEMMA TypeNext == TypeOK /\ [Next]_vars => TypeOK'
<1> SUFFICES ASSUME TypeOK, [Next]_vars PROVE TypeOK'
  OBVIOUS
<1> USE DEF TypeOK
<1>len. /\ Len(log) \in Nat /\ Len(laid) \in Nat /\ Len(index) \in Nat
        /\ << >> \in Seq(Entry) /\ << >> \in Seq(Listed) /\ << >> \in Seq(Cell)
  BY LenProperties, EmptySeq
<1>1. CASE OpenNew
  BY <1>1 DEF OpenNew, Modes, history
<1>2. CASE WriteHeader
  BY <1>2, HeaderCellsType DEF WriteHeader, Modes, history
<1>3. CASE OpenExisting
  BY <1>3 DEF OpenExisting, Modes, history
<1>4. ASSUME NEW s \in Spans, AppendSpan(s) PROVE TypeOK'
  <2>0. /\ RecordCells(s) \in Seq(Cell) /\ Len(RecordCells(s)) = Size[s]
        /\ Size[s] \in Nat
    BY RecordCellsType
  <2>1. log' = log \o RecordCells(s)
    BY <1>4 DEF AppendSpan
  <2>2. written' = WrittenAfter(Size[s])
    BY <1>4 DEF AppendSpan
  <2>3. currentOffset' = currentOffset + Size[s] /\ recordCount' = recordCount + 1
    BY <1>4 DEF AppendSpan
  <2>4. /\ index' = Append(index, [span |-> s, offset |-> currentOffset])
        /\ laid' = Append(laid, [span |-> s, offset |-> Len(log)])
    BY <1>4 DEF AppendSpan
  <2>5. safe' = IF written' > Len(log) THEN Len(laid) + 1
                ELSE IF written' = Len(log) THEN Len(laid) ELSE safe
    BY <1>4 DEF AppendSpan
  <2>6. UNCHANGED <<exists, mode, scan, sealed, tear, crashes>>
    BY <1>4 DEF AppendSpan
  <2>7. /\ [span |-> s, offset |-> currentOffset] \in Listed
        /\ [span |-> s, offset |-> Len(log)] \in Entry
    BY <1>len DEF Entry, Listed
  <2>8. log' \in Seq(Cell) /\ Len(log') = Len(log) + Size[s]
    <3>1. log \in Seq(Cell)
      OBVIOUS
    <3>2. /\ log \o RecordCells(s) \in Seq(Cell)
          /\ Len(log \o RecordCells(s)) = Len(log) + Len(RecordCells(s))
      BY <2>0, <3>1, ConcatProperties DEF Cell
    <3>3. QED
      BY <2>0, <2>1, <3>2
  <2>9. /\ laid' \in Seq(Entry) /\ Len(laid') = Len(laid) + 1
        /\ index' \in Seq(Listed)
    BY <2>4, <2>7
  <2>10. /\ written' \in Nat /\ written' >= written
         /\ \/ written' = Len(log) + Size[s] \/ written' = Len(log) \/ written' = written
    BY <2>0, <2>2, WrittenAfterRange
  <2>11. written' \in 0 .. Len(log')
    BY <1>len, <2>0, <2>8, <2>10
  <2>12. safe' \in 0 .. Len(laid')
    BY <1>len, <2>5, <2>9
  <2>13. currentOffset' \in Nat /\ recordCount' \in Nat
    BY <2>0, <2>3
  <2>14. QED
    BY <2>6, <2>8, <2>9, <2>11, <2>12, <2>13
<1>5. CASE Flush
  BY <1>5, <1>len DEF Flush
<1>6. CASE RecoverBegin
  BY <1>6, <1>len, HeaderCellsType DEF RecoverBegin, Modes, history
<1>7. CASE RecoverFails
  BY <1>7 DEF RecoverFails, Modes, history
<1>8. CASE RecoverRecord
  <2> DEFINE s == File[scan.pos + 1].span
  <2>1. s \in Spans
    BY <1>8 DEF RecoverRecord, RecordAt
  <2>3. IdsAt(File, scan.pos) \subseteq Spans \cup {Stray, NoId}
    BY <2>1 DEF IdsAt
  <2> HIDE DEF s
  <2>2. scan.pos \in Nat /\ scan.pos + Size[s] \in Nat /\ scan.count + 1 \in Nat
    <3>1. Size[s] \in Nat
      BY <2>1, RecordCellsType
    <3>2. scan.pos \in Nat /\ scan.count \in Nat
      BY DEF TypeOK
    <3>3. QED
      BY <3>1, <3>2
  <2>4. PICK id \in IdsAt(File, scan.pos) :
          scan' = [pos   |-> scan.pos + Size[s],
                   index |-> Pushed(scan.index, id, scan.pos),
                   count |-> scan.count + 1]
    BY <1>8 DEF RecoverRecord, s
  <2>5. Pushed(scan.index, id, scan.pos) \in Seq(Listed)
    BY <2>2, <2>3, PushedType
  <2>6. QED
    BY <1>8, <2>2, <2>4, <2>5 DEF RecoverRecord, history
<1>8a. CASE RecoverFields
  <2>1. PICK n \in 1 .. MaxRecord, id \in {NoId, Stray} :
          scan' = [pos   |-> scan.pos + n,
                   index |-> Pushed(scan.index, id, scan.pos),
                   count |-> scan.count + 1]
    BY <1>8a DEF RecoverFields
  <2>2. scan.pos \in Nat /\ scan.pos + n \in Nat /\ scan.count + 1 \in Nat
    BY SpanWalAssumption
  <2>3. Pushed(scan.index, id, scan.pos) \in Seq(Listed)
    BY <2>2, PushedType
  <2>4. QED
    BY <1>8a, <2>1, <2>2, <2>3 DEF RecoverFields, history
<1>9. CASE RecoverEnd
  <2>1. Len(File) \in Nat
    BY PrefixType DEF File
  <2>2. QED
    BY <1>9, <1>len, <2>1 DEF RecoverEnd, Modes, history, NoScan
<1>10. CASE Seal
  <2>1. PICK others \in SUBSET Torn :
          sealed' = [entries |-> Decoded(log, others), records |-> recordCount]
    BY <1>10 DEF Seal
  <2>2. Decoded(log, others) \in SUBSET Listed
    BY ElementOfSeq, LenProperties DEF Decoded, Torn
  <2>3. QED
    BY <1>10, <1>len, <2>1, <2>2 DEF Seal
<1>11. CASE Close
  BY <1>11, <1>len DEF Close, NoHandle, Modes
<1>12. CASE CrashBetween
  <2>1. CutTo(log, laid, written, safe)
    BY <1>12 DEF CrashBetween
  <2>2. QED
    BY <1>12, <1>len, <2>1, CutToType DEF CrashBetween, Die, NoHandle, Modes, NoScan
<1>13. CASE CrashTorn
  <2>1. /\ log' \in Seq(Cell) /\ written' \in 0 .. Len(log')
        /\ laid' \in Seq(Entry) /\ safe' \in 0 .. Len(laid')
        /\ tear' \in Nat \cup {NoTear}
    <3>1. ASSUME NEW k \in written .. Len(log), NEW n \in safe .. Len(laid),
                 CutTo(log, laid, k, n)
          PROVE  <2>1!:
      <4>1. k \in 0 .. Len(log) /\ n \in 0 .. Len(laid)
        BY <1>len
      <4>2. QED
        BY <3>1, <4>1, CutToType
    <3>2. ASSUME NEW s \in Spans,
                 NEW k \in Len(log) + 1 .. Len(log \o RecordCells(s)),
                 NEW n \in Len(laid) .. Len(Append(laid, [span |-> s, offset |-> Len(log)])),
                 CutTo(log \o RecordCells(s), Append(laid, [span |-> s, offset |-> Len(log)]), k, n)
          PROVE  <2>1!:
      <4>1. [span |-> s, offset |-> Len(log)] \in Entry
        BY <1>len DEF Entry
      <4>2. log \o RecordCells(s) \in Seq(Cell)
        BY RecordCellsType, ConcatProperties
      <4>3. Append(laid, [span |-> s, offset |-> Len(log)]) \in Seq(Entry)
        BY <4>1
      <4>4. /\ k \in 0 .. Len(log \o RecordCells(s))
            /\ n \in 0 .. Len(Append(laid, [span |-> s, offset |-> Len(log)]))
        BY <1>len, <4>2, <4>3, LenProperties
      <4>5. QED
        BY <3>2, <4>2, <4>3, <4>4, CutToType
    <3>3. QED
      BY <1>13, <3>1, <3>2 DEF CrashTorn
  <2>2. QED
    BY <1>13, <1>len, <2>1 DEF CrashTorn, Die, NoHandle, Modes, NoScan
<1>14. CASE CrashCreating
  <2>1. PICK k \in 0 .. HeaderLen - 1 : log' = SubSeq(HeaderCells, 1, k) /\ written' = k
    BY <1>14 DEF CrashCreating
  <2>2. k \in 0 .. Len(HeaderCells)
    BY <2>1, HeaderCellsType
  <2>3. SubSeq(HeaderCells, 1, k) \in Seq(Cell) /\ Len(SubSeq(HeaderCells, 1, k)) = k
    BY <2>2, HeaderCellsType, PrefixType
  <2>4. QED
    BY <1>14, <1>len, <2>1, <2>2, <2>3 DEF CrashCreating, Die, NoHandle, Modes, NoScan
<1>15. CASE UNCHANGED vars
  BY <1>15 DEF vars
<1>16. QED
  BY <1>1, <1>2, <1>3, <1>4, <1>5, <1>6, <1>7, <1>8, <1>8a, <1>9, <1>10, <1>11,
     <1>12, <1>13, <1>14, <1>15 DEF Next

(* Every value of the log, of the handle and of the recovery keeps its     *)
(* type: in particular no more cells are in the file than in the log.      *)
THEOREM TypeCorrect == SafetySpec => []TypeOK
<1>1. QED
  BY TypeInit, TypeNext, PTL DEF SafetySpec

----------------------------------------------------------------------------
(* What recover() and seal() read.                                         *)

(* A file that has every written cell is the log.                          *)
LEMMA FileIsLog ==
  ASSUME TypeOK, written = Len(log)
  PROVE  File = log
<1>1. log \in Seq(Cell)
  BY DEF TypeOK
<1>2. QED
  BY <1>1, SubSeqFull DEF File

----------------------------------------------------------------------------
(* Crashes: what is cut is the log, or the log and one record on its way.  *)

(* What a crash leaves begins as before.                                   *)
LEMMA CutToShape ==
  ASSUME NEW cells \in Seq(Cell), NEW recs \in Seq(Entry),
         NEW k \in 0 .. Len(cells), NEW n \in 0 .. Len(recs),
         CutTo(cells, recs, k, n)
  PROVE  /\ Len(log') = k /\ written' = k
         /\ Len(laid') = n /\ safe' = n
         /\ \A i \in 1 .. k : log'[i] = cells[i]
         /\ \A i \in 1 .. n : laid'[i] = recs[i]
<1>1. /\ log' = SubSeq(cells, 1, k) /\ written' = k
      /\ laid' = SubSeq(recs, 1, n) /\ safe' = n
  BY DEF CutTo
<1>2. /\ Len(SubSeq(cells, 1, k)) = k
      /\ \A i \in 1 .. k : SubSeq(cells, 1, k)[i] = cells[i]
  BY PrefixType
<1>3. /\ Len(SubSeq(recs, 1, n)) = n
      /\ \A i \in 1 .. n : SubSeq(recs, 1, n)[i] = recs[i]
  BY PrefixType
<1>4. QED
  BY <1>1, <1>2, <1>3

Extended(s) == log \o RecordCells(s)
EntryAtEnd(s) == [span |-> s, offset |-> Len(log)]

(* A record laid down makes the log longer and keeps what was there.       *)
LEMMA ExtendedType ==
  ASSUME TypeOK, NEW s \in Spans
  PROVE  /\ Extended(s) \in Seq(Cell)
         /\ Len(Extended(s)) = Len(log) + Size[s]
         /\ Len(log) \in Nat /\ Size[s] \in Nat /\ Size[s] >= 3
         /\ \A i \in 1 .. Len(log) : Extended(s)[i] = log[i]
         /\ \A i \in 1 .. Size[s] : Extended(s)[Len(log) + i] = [span |-> s, part |-> i]
         /\ EntryAtEnd(s) \in Entry
         /\ Append(laid, EntryAtEnd(s)) \in Seq(Entry)
         /\ Len(laid) \in Nat
         /\ Len(Append(laid, EntryAtEnd(s))) = Len(laid) + 1
         /\ \A i \in 1 .. Len(laid) : Append(laid, EntryAtEnd(s))[i] = laid[i]
         /\ Append(laid, EntryAtEnd(s))[Len(laid) + 1] = EntryAtEnd(s)
<1>1. /\ RecordCells(s) \in Seq(Cell) /\ Len(RecordCells(s)) = Size[s]
      /\ Size[s] \in Nat /\ Size[s] >= 3
      /\ \A i \in 1 .. Size[s] : RecordCells(s)[i] = [span |-> s, part |-> i]
  BY RecordCellsType
<1>2. log \in Seq(Cell) /\ Len(log) \in Nat
  BY LenProperties DEF TypeOK
<1>3. /\ Extended(s) \in Seq(Cell)
      /\ Len(Extended(s)) = Len(log) + Len(RecordCells(s))
      /\ \A i \in 1 .. Len(log) + Len(RecordCells(s)) :
            Extended(s)[i] = IF i <= Len(log) THEN log[i] ELSE RecordCells(s)[i - Len(log)]
  BY <1>1, <1>2, ConcatProperties DEF Extended, Cell
<1>4. \A i \in 1 .. Len(log) : Extended(s)[i] = log[i]
  <2> SUFFICES ASSUME NEW i \in 1 .. Len(log) PROVE Extended(s)[i] = log[i]
    OBVIOUS
  <2>1. i \in 1 .. Len(log) + Len(RecordCells(s)) /\ i <= Len(log)
    BY <1>1, <1>2
  <2>2. QED
    BY <1>3, <2>1
<1>5. \A i \in 1 .. Size[s] : Extended(s)[Len(log) + i] = [span |-> s, part |-> i]
  <2> SUFFICES ASSUME NEW i \in 1 .. Size[s]
               PROVE  Extended(s)[Len(log) + i] = [span |-> s, part |-> i]
    OBVIOUS
  <2> DEFINE m == Len(log) + i
  <2>1. /\ m \in 1 .. Len(log) + Len(RecordCells(s))
        /\ ~(m <= Len(log)) /\ m - Len(log) = i
    BY <1>1, <1>2
  <2>2. RecordCells(s)[i] = [span |-> s, part |-> i]
    BY <1>1
  <2> HIDE DEF m
  <2>3. Extended(s)[m] = RecordCells(s)[i]
    BY <1>3, <2>1
  <2>4. QED
    BY <2>2, <2>3 DEF m
<1>6. EntryAtEnd(s) \in Entry
  BY <1>2 DEF EntryAtEnd, Entry
<1>7. laid \in Seq(Entry) /\ Len(laid) \in Nat
  BY LenProperties DEF TypeOK
<1>8. /\ Append(laid, EntryAtEnd(s)) \in Seq(Entry)
      /\ Len(Append(laid, EntryAtEnd(s))) = Len(laid) + 1
      /\ \A i \in 1 .. Len(laid) : Append(laid, EntryAtEnd(s))[i] = laid[i]
      /\ Append(laid, EntryAtEnd(s))[Len(laid) + 1] = EntryAtEnd(s)
  BY <1>6, <1>7, AppendProperties
<1>9. QED
  BY <1>1, <1>2, <1>3, <1>4, <1>5, <1>6, <1>7, <1>8

(* What the two crashes of a synchronised log have in common.              *)
Cut(cells, recs, k, n) ==
  /\ cells \in Seq(Cell) /\ recs \in Seq(Entry)
  /\ k \in 0 .. Len(cells) /\ n \in 0 .. Len(recs)
  /\ \/ cells = log /\ recs = laid
     \/ \E s \in Spans : cells = Extended(s) /\ recs = Append(laid, EntryAtEnd(s))
  /\ written <= k /\ safe <= n
  /\ CutTo(cells, recs, k, n)

(* A crash, between records or within one, cuts the log at some cell.      *)
LEMMA CrashCuts ==
  ASSUME TypeOK, CrashBetween \/ CrashTorn
  PROVE  \E cells, recs, k, n : Cut(cells, recs, k, n)
<1>1. /\ log \in Seq(Cell) /\ laid \in Seq(Entry)
      /\ written \in 0 .. Len(log) /\ safe \in 0 .. Len(laid)
      /\ Len(log) \in Nat /\ Len(laid) \in Nat
  BY LenProperties DEF TypeOK
<1>2. CASE CrashBetween
  <2>1. Cut(log, laid, written, safe)
    BY <1>1, <1>2 DEF CrashBetween, Cut
  <2>2. QED
    BY <2>1
<1>3. CASE CrashTorn
  <2>1. ASSUME NEW k \in written .. Len(log), NEW n \in safe .. Len(laid),
               CutTo(log, laid, k, n)
        PROVE  \E cells, recs, j, m : Cut(cells, recs, j, m)
    <3>1. k \in 0 .. Len(log) /\ n \in 0 .. Len(laid) /\ written <= k /\ safe <= n
      BY <1>1
    <3>2. Cut(log, laid, k, n)
      BY <1>1, <2>1, <3>1 DEF Cut
    <3>3. QED
      BY <3>2
  <2>2. ASSUME NEW s \in Spans,
               NEW k \in Len(log) + 1 .. Len(Extended(s)),
               NEW n \in Len(laid) .. Len(Append(laid, EntryAtEnd(s))),
               CutTo(Extended(s), Append(laid, EntryAtEnd(s)), k, n)
        PROVE  \E cells, recs, j, m : Cut(cells, recs, j, m)
    <3>1. /\ Extended(s) \in Seq(Cell) /\ Len(Extended(s)) \in Nat
          /\ Append(laid, EntryAtEnd(s)) \in Seq(Entry)
          /\ Len(Append(laid, EntryAtEnd(s))) \in Nat
      BY ExtendedType
    <3>2. /\ k \in 0 .. Len(Extended(s)) /\ n \in 0 .. Len(Append(laid, EntryAtEnd(s)))
          /\ written <= k /\ safe <= n
      BY <1>1, <3>1
    <3>3. Cut(Extended(s), Append(laid, EntryAtEnd(s)), k, n)
      BY <2>2, <3>1, <3>2 DEF Cut
    <3>4. QED
      BY <3>3
  <2>3. QED
    BY <1>3, <2>1, <2>2 DEF CrashTorn, Extended, EntryAtEnd
<1>4. QED
  BY <1>2, <1>3

----------------------------------------------------------------------------
(* A handle that is not synchronised has nothing buffered and no index.    *)

(* A crash takes the handle away and leaves nothing unwritten.             *)
LEMMA CrashDrains ==
  ASSUME TypeOK, Drained, CrashBetween \/ CrashTorn \/ CrashCreating
  PROVE  /\ mode' = "down" /\ written' = Len(log') /\ exists' = exists /\ exists
         /\ index' = << >> /\ recordCount' = 0 /\ currentOffset' = 0 /\ scan' = NoScan
         /\ sealed' = sealed
<1>1. /\ mode' = "down" /\ index' = << >> /\ recordCount' = 0 /\ currentOffset' = 0
      /\ scan' = NoScan /\ exists' = exists /\ sealed' = sealed
  BY DEF CrashBetween, CrashTorn, CrashCreating, Die, NoHandle
<1>2. exists
  BY DEF CrashBetween, CrashTorn, CrashCreating, Drained, TypeOK
<1>3. written' = Len(log')
  <2>1. CASE CrashBetween \/ CrashTorn
    <3>1. PICK cells, recs, k, n : Cut(cells, recs, k, n)
      BY <2>1, CrashCuts
    <3>2. QED
      BY <3>1, CutToShape DEF Cut
  <2>2. CASE CrashCreating
    <3>1. PICK k \in 0 .. HeaderLen - 1 : log' = SubSeq(HeaderCells, 1, k) /\ written' = k
      BY <2>2 DEF CrashCreating
    <3>2. k \in 0 .. Len(HeaderCells)
      BY <3>1, HeaderCellsType
    <3>3. QED
      BY <3>1, <3>2, HeaderCellsType, PrefixType
  <2>3. QED
    BY <2>1, <2>2
<1>4. QED
  BY <1>1, <1>2, <1>3

(* Every step leaves cells unwritten only in a ready handle.               *)
LEMMA DrainedNext ==
  ASSUME TypeOK, Drained, [Next]_vars
  PROVE  Drained'
<1> USE DEF Drained, Born
<1>1. CASE OpenNew
  BY <1>1 DEF OpenNew, history
<1>2. CASE WriteHeader
  BY <1>2 DEF WriteHeader, history
<1>3. CASE OpenExisting
  BY <1>3 DEF OpenExisting, history
<1>4. ASSUME NEW s \in Spans, AppendSpan(s) PROVE Drained'
  BY <1>4 DEF AppendSpan
<1>5. CASE Flush
  BY <1>5 DEF Flush
<1>6. CASE RecoverBegin
  BY <1>6 DEF RecoverBegin, history
<1>7. CASE RecoverFails
  BY <1>7 DEF RecoverFails, history
<1>8. CASE RecoverRecord \/ RecoverFields
  BY <1>8 DEF RecoverRecord, RecoverFields, history
<1>9. CASE RecoverEnd
  BY <1>9 DEF RecoverEnd, history
<1>10. CASE Seal
  BY <1>10 DEF Seal
<1>11. CASE Close
  <2>1. mode' = "down" /\ written' = Len(log') /\ exists' = exists /\ exists /\ scan' = scan
        /\ index' = << >> /\ recordCount' = 0 /\ currentOffset' = 0
    BY <1>11 DEF Close, NoHandle
  <2>2. scan = NoScan
    BY <1>11 DEF Close, TypeOK
  <2>3. QED
    BY <2>1, <2>2
<1>12. CASE CrashBetween \/ CrashTorn \/ CrashCreating
  <2>1. mode' = "down" /\ written' = Len(log') /\ exists' /\ index' = << >>
        /\ recordCount' = 0 /\ currentOffset' = 0 /\ scan' = NoScan
    BY <1>12, CrashDrains
  <2>2. QED
    BY <2>1
<1>13. CASE UNCHANGED vars
  BY <1>13 DEF vars
<1>14. QED
  BY <1>1, <1>2, <1>3, <1>4, <1>5, <1>6, <1>7, <1>8, <1>9, <1>10, <1>11, <1>12, <1>13 DEF Next

----------------------------------------------------------------------------
(* current_offset of a synchronised handle is the end of the log.          *)

(* Every step keeps the offset at the end of the log.                      *)
LEMMA OffsetNext ==
  ASSUME TypeOK, Drained, OffsetInSync, [Next]_vars
  PROVE  OffsetInSync'
<1> USE DEF OffsetInSync
<1>1. CASE OpenNew
  BY <1>1 DEF OpenNew
<1>2. CASE WriteHeader
  BY <1>2, HeaderCellsType DEF WriteHeader
<1>3. CASE OpenExisting
  <2>1. log' = log /\ currentOffset' = currentOffset /\ (mode' = "ready" => log = << >>)
    BY <1>3 DEF OpenExisting
  <2>2. currentOffset = 0
    BY <1>3 DEF OpenExisting, Drained
  <2>3. Len(<< >>) = 0
    OBVIOUS
  <2>4. QED
    BY <2>1, <2>2, <2>3
<1>4. ASSUME NEW s \in Spans, AppendSpan(s) PROVE OffsetInSync'
  <2>1. /\ log' = Extended(s) /\ currentOffset' = currentOffset + Size[s]
        /\ mode = "ready"
    BY <1>4 DEF AppendSpan, Extended
  <2>2. Len(Extended(s)) = Len(log) + Size[s]
    BY ExtendedType
  <2>3. QED
    BY <2>1, <2>2
<1>5. CASE Flush
  BY <1>5 DEF Flush
<1>6. CASE RecoverBegin
  BY <1>6 DEF RecoverBegin
<1>7. CASE RecoverFails
  BY <1>7 DEF RecoverFails
<1>8. CASE RecoverRecord \/ RecoverFields
  BY <1>8 DEF RecoverRecord, RecoverFields
<1>9. CASE RecoverEnd
  <2>1. written = Len(log)
    BY <1>9 DEF RecoverEnd, Drained
  <2>2. File = log
    BY <2>1, FileIsLog
  <2>3. QED
    BY <1>9, <2>2 DEF RecoverEnd
<1>10. CASE Seal
  BY <1>10 DEF Seal
<1>11. CASE Close
  BY <1>11 DEF Close, NoHandle
<1>12. CASE CrashBetween \/ CrashTorn \/ CrashCreating
  BY <1>12, CrashDrains
<1>13. CASE UNCHANGED vars
  BY <1>13 DEF vars
<1>14. QED
  BY <1>1, <1>2, <1>3, <1>4, <1>5, <1>6, <1>7, <1>8, <1>9, <1>10, <1>11, <1>12, <1>13 DEF Next

----------------------------------------------------------------------------
(* Where recover() reads.                                                  *)

(* A turn of recover()'s loop: what the record at its position is.         *)
LEMMA RecordHere ==
  ASSUME TypeOK, Drained, mode = "scanning", RecordAt(File, scan.pos)
  PROVE  /\ File = log /\ written = Len(log)
         /\ log[scan.pos + 1].span \in Spans
         /\ scan.pos \in Nat /\ Len(log) \in Nat
         /\ log[scan.pos + 1] = [span |-> log[scan.pos + 1].span, part |-> 1]
         /\ Size[log[scan.pos + 1].span] \in Nat /\ Size[log[scan.pos + 1].span] >= 3
         /\ scan.pos + Size[log[scan.pos + 1].span] <= Len(log)
<1>1. written = Len(log)
  BY DEF Drained
<1>2. File = log
  BY <1>1, FileIsLog
<1>3. /\ scan.pos < Len(log) /\ log[scan.pos + 1].span \in Spans
      /\ log[scan.pos + 1].part = 1
      /\ scan.pos + Size[log[scan.pos + 1].span] <= Len(log)
  BY <1>2 DEF RecordAt
<1>4. scan.pos \in Nat /\ Len(log) \in Nat /\ log \in Seq(Cell)
  BY LenProperties DEF TypeOK
<1>5. log[scan.pos + 1] \in Cell
  <2>1. scan.pos + 1 \in 1 .. Len(log)
    BY <1>3, <1>4
  <2>2. QED
    BY <1>4, <2>1, ElementOfSeq
<1>6. log[scan.pos + 1] = [span |-> log[scan.pos + 1].span, part |-> 1]
  BY <1>3, <1>5 DEF Cell
<1>7. QED
  BY <1>1, <1>2, <1>3, <1>4, <1>6, RecordCellsType

----------------------------------------------------------------------------
(* The part of the invariant that stands by itself.                        *)

(* Both hold of no file ...                                                *)
LEMMA IndexInit == Init => Drained /\ OffsetInSync
  BY DEF Init, Drained, Born, OffsetInSync, NoTear

(* ... and every step keeps them.                                          *)
LEMMA IndexNext ==
  TypeOK /\ Drained /\ OffsetInSync /\ [Next]_vars
  => (TypeOK /\ Drained /\ OffsetInSync)'
<1> SUFFICES ASSUME TypeOK, Drained, OffsetInSync, [Next]_vars
             PROVE  TypeOK' /\ Drained' /\ OffsetInSync'
  OBVIOUS
<1>1. QED
  BY TypeNext, DrainedNext, OffsetNext

(* append() may trust current_offset: in every synchronised handle it is   *)
(* the length of the file and the buffer, whatever crashes, cut writes and *)
(* scans led to the handle.                                                *)
THEOREM OffsetsAgree == SafetySpec => []OffsetInSync
<1>1. QED
  BY TypeInit, IndexInit, IndexNext, PTL DEF SafetySpec

(***************************************************************************)
(* What survives: the records of a log lie one after the other, recover()  *)
(* walks exactly over them, and the index of every later handle begins     *)
(* with those that were laid down before the first cut write.  And what is *)
(* kept: when no write is cut and recover() accepts every record, each     *)
(* step of SpanWal is a step of SpanLog or leaves it unchanged, for every  *)
(* set of spans, record sizes and buffer capacity and any number of        *)
(* crashes between two writes.                                             *)
(***************************************************************************)
----------------------------------------------------------------------------
(* Records.                                                                *)

(* What an index entry is made of.                                         *)
LEMMA EntryFacts ==
  ASSUME NEW recs \in Seq(Entry), NEW i \in 1 .. Len(recs)
  PROVE  /\ recs[i] \in Entry
         /\ recs[i].offset \in Nat /\ recs[i].span \in Spans
         /\ Size[recs[i].span] \in Nat /\ Size[recs[i].span] >= 3
         /\ End(recs[i]) = recs[i].offset + Size[recs[i].span]
         /\ End(recs[i]) \in Nat
<1>1. recs[i] \in Entry
  BY ElementOfSeq
<1>2. recs[i].offset \in Nat /\ recs[i].span \in Spans
  BY <1>1 DEF Entry
<1>3. Size[recs[i].span] \in Nat /\ Size[recs[i].span] >= 3
  BY <1>2, SpanWalAssumption
<1>4. End(recs[i]) = recs[i].offset + Size[recs[i].span]
  BY DEF End
<1>5. QED
  BY <1>1, <1>2, <1>3, <1>4

(* Where the first n records end: behind the header if n is 0.             *)
LEMMA EdgeType ==
  ASSUME NEW recs \in Seq(Entry), NEW n \in 0 .. Len(recs)
  PROVE  /\ Edge(recs, n) \in Nat
         /\ n = 0 => Edge(recs, n) = HeaderLen
         /\ n # 0 => Edge(recs, n) = End(recs[n])
<1>1. CASE n = 0
  BY <1>1, SpanWalAssumption DEF Edge
<1>2. CASE n # 0
  <2>1. n \in 1 .. Len(recs)
    BY <1>2
  <2>2. End(recs[n]) \in Nat
    BY <2>1, EntryFacts
  <2>3. QED
    BY <1>2, <2>2 DEF Edge
<1>3. QED
  BY <1>1, <1>2

(* A cut write is somewhere, or nowhere.                                   *)
LEMMA TearType == ASSUME TypeOK PROVE tear \in Nat \/ tear = NoTear
  BY DEF TypeOK

(* The same cells elsewhere: a record stays whole in a file that agrees    *)
(* with the old one up to the record's end.                                *)
LEMMA IntactKept ==
  ASSUME NEW c \in Seq(Cell), NEW c2, NEW k \in Nat, NEW e \in Entry,
         Intact(c, e), End(e) <= k, k <= Len(c2),
         \A i \in 1 .. k : c2[i] = c[i], Len(c2) \in Nat
  PROVE  Intact(c2, e)
<1>1. /\ e.offset \in Nat /\ Size[e.span] \in Nat
      /\ End(e) = e.offset + Size[e.span] /\ End(e) \in Nat
  BY SpanWalAssumption DEF Entry, End
<1>2. End(e) <= Len(c2)
  BY <1>1
<1>3. ASSUME NEW i \in 1 .. Size[e.span]
      PROVE  c2[e.offset + i] = [span |-> e.span, part |-> i]
  <2>1. e.offset + i \in 1 .. k
    BY <1>1
  <2>2. c[e.offset + i] = [span |-> e.span, part |-> i]
    BY DEF Intact
  <2>3. QED
    BY <2>1, <2>2
<1>4. e.span \in Spans
  BY DEF Entry
<1>5. QED
  BY <1>2, <1>3, <1>4 DEF Intact

(* A cut keeps the records that end before it.                             *)
LEMMA RecordsCut ==
  ASSUME NEW c \in Seq(Cell), NEW recs \in Seq(Entry),
         NEW k \in 0 .. Len(c), NEW n \in 0 .. Len(recs),
         NEW c2, NEW recs2, NEW t, NEW t2, t = NoTear \/ t2 = t,
         Records(c, recs, t),
         \A i \in DOMAIN recs : End(recs[i]) <= k <=> i <= n,
         Len(c2) = k, \A i \in 1 .. k : c2[i] = c[i],
         recs2 \in Seq(Entry), Len(recs2) = n, \A i \in 1 .. n : recs2[i] = recs[i]
  PROVE  Records(c2, recs2, t2)
<1>1. /\ DOMAIN recs = 1 .. Len(recs) /\ DOMAIN recs2 = 1 .. n
      /\ Len(recs) \in Nat /\ Len(c) \in Nat
  BY LenProperties
<1>2. ASSUME NEW i \in 1 .. n PROVE Intact(c2, recs2[i])
  <2>1. i \in 1 .. Len(recs) /\ i <= n /\ recs2[i] = recs[i]
    BY <1>1
  <2>2. Intact(c, recs[i]) /\ End(recs[i]) <= k /\ recs[i] \in Entry
    BY <1>1, <2>1, EntryFacts DEF Records
  <2>3. k \in Nat /\ k <= Len(c2) /\ Len(c2) \in Nat
    BY <1>1
  <2>4. QED
    BY <2>1, <2>2, <2>3, IntactKept
<1>3. ASSUME NEW i \in 1 .. n, NEW j \in 1 .. n, i < j
      PROVE  End(recs2[i]) <= recs2[j].offset
  <2>1. i \in 1 .. Len(recs) /\ j \in 1 .. Len(recs) /\ recs2[i] = recs[i] /\ recs2[j] = recs[j]
    BY <1>1
  <2>2. End(recs[i]) <= recs[j].offset
    BY <1>1, <1>3, <2>1 DEF Records
  <2>3. QED
    BY <2>1, <2>2
<1>4. ASSUME NEW i \in 1 .. n, t2 = NoTear \/ recs2[i].offset < t2
      PROVE  recs2[i].offset = Edge(recs2, i - 1)
  <2>1. i \in 1 .. Len(recs) /\ recs2[i] = recs[i]
    BY <1>1
  <2>2. t = NoTear \/ recs[i].offset < t
    BY <1>4, <2>1
  <2>3. recs[i].offset = Edge(recs, i - 1)
    BY <1>1, <2>1, <2>2 DEF Records
  <2>4. Edge(recs, i - 1) = Edge(recs2, i - 1)
    <3>1. CASE i = 1
      BY <3>1 DEF Edge
    <3>2. CASE i # 1
      <4>1. i - 1 \in 1 .. n
        BY <3>2, <1>1
      <4>2. recs2[i - 1] = recs[i - 1]
        BY <4>1
      <4>3. QED
        BY <4>2 DEF Edge
    <3>3. QED
      BY <3>1, <3>2
  <2>5. QED
    BY <2>1, <2>3, <2>4
<1>5. QED
  BY <1>1, <1>2, <1>3, <1>4 DEF Records

(* A record appended at the end of the log joins the others.               *)
LEMMA RecordsExtended ==
  ASSUME TypeOK, Layout, Born, NEW s \in Spans
  PROVE  /\ Records(Extended(s), Append(laid, EntryAtEnd(s)), tear)
         /\ End(EntryAtEnd(s)) = Len(Extended(s))
<1> DEFINE new == Append(laid, EntryAtEnd(s))
           c2  == Extended(s)
<1>1. /\ c2 \in Seq(Cell) /\ Len(c2) = Len(log) + Size[s]
      /\ Len(log) \in Nat /\ Size[s] \in Nat
      /\ \A i \in 1 .. Len(log) : c2[i] = log[i]
      /\ \A i \in 1 .. Size[s] : c2[Len(log) + i] = [span |-> s, part |-> i]
      /\ new \in Seq(Entry) /\ Len(laid) \in Nat /\ Len(new) = Len(laid) + 1
      /\ \A i \in 1 .. Len(laid) : new[i] = laid[i]
      /\ new[Len(laid) + 1] = EntryAtEnd(s)
  BY ExtendedType
<1>2. /\ log \in Seq(Cell) /\ laid \in Seq(Entry) /\ DOMAIN laid = 1 .. Len(laid)
      /\ DOMAIN new = 1 .. Len(laid) + 1
      /\ Records(log, laid, tear)
      /\ tear = NoTear => Len(log) = Edge(laid, Len(laid))
      /\ tear <= Len(log)
  <2>1. log \in Seq(Cell) /\ laid \in Seq(Entry) /\ written <= Len(log)
        /\ written \in Nat /\ tear \in Nat \cup {NoTear}
    BY <1>1 DEF TypeOK
  <2>2. DOMAIN laid = 1 .. Len(laid) /\ DOMAIN new = 1 .. Len(laid) + 1
    BY <1>1, <2>1, LenProperties
  <2>3. Records(log, laid, tear) /\ tear <= written
        /\ (tear = NoTear => Len(log) = Edge(laid, Len(laid)))
    BY DEF Layout
  <2>4. tear <= Len(log)
    <3>1. CASE tear = NoTear
      BY <1>1, <3>1 DEF NoTear
    <3>2. CASE tear \in Nat
      BY <1>1, <2>1, <2>3, <3>2
    <3>3. QED
      BY <2>1, <3>1, <3>2
  <2>5. QED
    BY <2>1, <2>2, <2>3, <2>4
<1>3. /\ EntryAtEnd(s).offset = Len(log) /\ EntryAtEnd(s).span = s
      /\ End(EntryAtEnd(s)) = Len(log) + Size[s]
  BY DEF EntryAtEnd, End
<1>4. ASSUME NEW i \in 1 .. Len(laid)
      PROVE  Intact(log, laid[i]) /\ End(laid[i]) <= Len(log) /\ laid[i] \in Entry
  <2>1. Intact(log, laid[i])
    BY <1>2 DEF Records
  <2>2. QED
    BY <1>2, <2>1, EntryFacts DEF Intact
<1> HIDE DEF new, c2
<1>5. ASSUME NEW i \in 1 .. Len(laid) + 1 PROVE Intact(c2, new[i])
  <2>1. CASE i \in 1 .. Len(laid)
    <3>1. Len(log) <= Len(c2) /\ Len(c2) \in Nat
      BY <1>1
    <3>2. Intact(c2, laid[i])
      BY <1>1, <1>2, <1>4, <2>1, <3>1, IntactKept
    <3>3. QED
      BY <1>1, <2>1, <3>2
  <2>2. CASE i = Len(laid) + 1
    <3> DEFINE e == EntryAtEnd(s)
    <3> HIDE DEF e
    <3>e. e.offset = Len(log) /\ e.span = s /\ s \in Spans /\ End(e) = Len(c2)
      BY <1>1, <1>3 DEF e
    <3>c. \A m \in 1 .. Size[e.span] : c2[e.offset + m] = [span |-> e.span, part |-> m]
      BY <1>1, <3>e
    <3>d. End(e) <= Len(c2)
      BY <1>1, <3>e
    <3>1. Intact(c2, EntryAtEnd(s))
      BY <3>c, <3>d, <3>e DEF Intact, e
    <3>2. QED
      BY <1>1, <2>2, <3>1
  <2>3. QED
    BY <1>1, <2>1, <2>2
<1>6. ASSUME NEW i \in 1 .. Len(laid) + 1, NEW j \in 1 .. Len(laid) + 1, i < j
      PROVE  End(new[i]) <= new[j].offset
  <2>1. i \in 1 .. Len(laid) /\ new[i] = laid[i]
    BY <1>1, <1>6
  <2>2. CASE j \in 1 .. Len(laid)
    <3>1. End(laid[i]) <= laid[j].offset
      BY <1>2, <1>6, <2>1, <2>2 DEF Records
    <3>2. QED
      BY <1>1, <2>1, <2>2, <3>1
  <2>3. CASE j = Len(laid) + 1
    BY <1>1, <1>3, <1>4, <2>1, <2>3
  <2>4. QED
    BY <1>1, <2>2, <2>3
<1>7. ASSUME NEW i \in 1 .. Len(laid) + 1, tear = NoTear \/ new[i].offset < tear
      PROVE  new[i].offset = Edge(new, i - 1)
  <2>1. \A m \in 0 .. Len(laid) : Edge(new, m) = Edge(laid, m)
    <3> SUFFICES ASSUME NEW m \in 0 .. Len(laid) PROVE Edge(new, m) = Edge(laid, m)
      OBVIOUS
    <3>1. m # 0 => new[m] = laid[m]
      BY <1>1
    <3>2. QED
      BY <3>1 DEF Edge
  <2>2. CASE i \in 1 .. Len(laid)
    <3>1. laid[i].offset = Edge(laid, i - 1)
      BY <1>1, <1>2, <1>7, <2>2 DEF Records
    <3>2. i - 1 \in 0 .. Len(laid)
      BY <1>1, <2>2
    <3>3. QED
      BY <1>1, <2>1, <2>2, <3>1, <3>2
  <2>3. CASE i = Len(laid) + 1
    <3>1. new[i].offset = Len(log)
      BY <1>1, <1>3, <2>3
    <3>2. tear = NoTear
      BY <1>1, <1>2, <1>7, <3>1, TearType
    <3>3. i - 1 = Len(laid) /\ Len(laid) \in 0 .. Len(laid)
      BY <1>1, <2>3
    <3>4. QED
      BY <1>2, <2>1, <3>1, <3>2, <3>3
  <2>4. QED
    BY <1>1, <2>2, <2>3
<1>8. Records(c2, new, tear)
  BY <1>2, <1>5, <1>6, <1>7 DEF Records
<1>9. QED
  BY <1>1, <1>3, <1>8 DEF new, c2

----------------------------------------------------------------------------
(* Layout.                                                                 *)

(* The layout holds of no file ...                                         *)
LEMMA LayoutInit == Init => Layout
<1> SUFFICES ASSUME Init PROVE Layout
  OBVIOUS
<1>1. laid = << >> /\ tear = NoTear /\ written = 0 /\ ~Born
  BY DEF Init, Born
<1>2. Records(log, laid, tear)
  BY <1>1 DEF Records
<1>3. tear <= written
  BY <1>1 DEF NoTear
<1>4. QED
  BY <1>1, <1>2, <1>3 DEF Layout

(* A step that at most moves the BufWriter's cells to the file.            *)
LEMMA LayoutKept ==
  ASSUME TypeOK, Layout, log' = log, laid' = laid, tear' = tear,
         written' = written \/ written' = Len(log), Born' => Born
  PROVE  Layout'
<1>1. /\ written \in Nat /\ written <= Len(log) /\ Len(log) \in Nat /\ HeaderLen \in Nat
      /\ tear \in Nat \/ tear = NoTear
  BY TearType, LenProperties, SpanWalAssumption DEF TypeOK
<1>2. written' >= written /\ written' \in Nat
  BY <1>1
<1>3. Records(log', laid', tear')
  BY DEF Layout
<1>4. tear' <= written'
  BY <1>1, <1>2 DEF Layout, NoTear
<1>5. ASSUME Born', tear' = NoTear
      PROVE  Len(log') = Edge(laid', Len(laid')) /\ written' >= HeaderLen
  BY <1>1, <1>2, <1>5 DEF Layout
<1>6. QED
  BY <1>3, <1>4, <1>5 DEF Layout

(* The records of what a crash cuts, before it is cut.                     *)
LEMMA CutRecords ==
  ASSUME TypeOK, Layout, Born, NEW cells, NEW recs, NEW k, NEW n,
         Cut(cells, recs, k, n)
  PROVE  Records(cells, recs, tear)
<1>1. CASE cells = log /\ recs = laid
  BY <1>1 DEF Layout
<1>2. CASE \E s \in Spans : cells = Extended(s) /\ recs = Append(laid, EntryAtEnd(s))
  BY <1>2, RecordsExtended
<1>3. QED
  BY <1>1, <1>2 DEF Cut

(* Only a file that was born crashes with records.                         *)
LEMMA CrashBorn ==
  ASSUME Drained, CrashBetween \/ CrashTorn
  PROVE  Born
BY DEF CrashBetween, CrashTorn, Drained, Born

(* A crash cuts the log at the edge of a record, or tears one.             *)
LEMMA LayoutCut ==
  ASSUME TypeOK, Layout, Drained, CrashBetween \/ CrashTorn
  PROVE  Layout'
<1>1. PICK cells, recs, k, n : Cut(cells, recs, k, n)
  BY CrashCuts
<1>2. /\ cells \in Seq(Cell) /\ recs \in Seq(Entry)
      /\ k \in 0 .. Len(cells) /\ n \in 0 .. Len(recs)
      /\ written <= k /\ CutTo(cells, recs, k, n)
  BY <1>1 DEF Cut
<1>3. /\ Len(log') = k /\ written' = k /\ Len(laid') = n
      /\ \A i \in 1 .. k : log'[i] = cells[i]
      /\ \A i \in 1 .. n : laid'[i] = recs[i]
  BY <1>2, CutToShape
<1>4. laid' \in Seq(Entry)
  BY <1>2, CutToType
<1>5. /\ tear' = IF tear = NoTear /\ k # Edge(recs, n) THEN Edge(recs, n) ELSE tear
      /\ \A i \in DOMAIN recs : End(recs[i]) <= k <=> i <= n
  BY <1>2 DEF CutTo
<1>6. Born
  BY CrashBorn
<1>7. Records(log', laid', tear')
  <2>1. Records(cells, recs, tear)
    BY <1>1, <1>6, CutRecords
  <2>2. tear = NoTear \/ tear' = tear
    BY <1>5
  <2>3. QED
    BY <1>2, <1>3, <1>4, <1>5, <2>1, <2>2, RecordsCut
<1>8. /\ k \in Nat /\ n \in Nat /\ written \in Nat /\ HeaderLen \in Nat
      /\ Len(recs) \in Nat
  BY <1>2, LenProperties, SpanWalAssumption DEF TypeOK
<1>9. tear = NoTear => HeaderLen <= k
  <2>1. tear = NoTear => written >= HeaderLen
    BY <1>6 DEF Layout
  <2>2. QED
    BY <1>2, <1>8, <2>1
<1>10. Edge(recs, n) \in Nat /\ (tear = NoTear => Edge(recs, n) <= k)
  <2>1. CASE n = 0
    BY <1>2, <1>9, <2>1, EdgeType
  <2>2. CASE n # 0
    <3>1. n \in 1 .. Len(recs) /\ DOMAIN recs = 1 .. Len(recs)
      BY <1>2, <1>8, <2>2, LenProperties
    <3>2. End(recs[n]) <= k
      BY <1>5, <1>8, <3>1
    <3>3. QED
      BY <1>2, <2>2, <3>2, EdgeType
  <2>3. QED
    BY <2>1, <2>2
<1>11. tear' <= written'
  <2>1. CASE tear = NoTear
    BY <1>3, <1>5, <1>8, <1>10, <2>1 DEF NoTear
  <2>2. CASE tear # NoTear
    <3>1. tear \in Nat /\ tear <= written
      BY <2>2, TearType DEF Layout
    <3>2. QED
      BY <1>2, <1>3, <1>5, <1>8, <2>2, <3>1
  <2>3. QED
    BY <2>1, <2>2
<1>12. ASSUME tear' = NoTear
       PROVE  Len(log') = Edge(laid', Len(laid')) /\ written' >= HeaderLen
  <2>1. tear = NoTear /\ k = Edge(recs, n)
    BY <1>5, <1>10, <1>12 DEF NoTear
  <2>2. Edge(laid', n) = Edge(recs, n)
    <3>1. n # 0 => laid'[n] = recs[n]
      BY <1>3, <1>8
    <3>2. QED
      BY <3>1 DEF Edge
  <2>3. QED
    BY <1>3, <1>8, <1>9, <2>1, <2>2
<1>13. QED
  BY <1>7, <1>11, <1>12 DEF Layout

(* An append lays its record behind the last.                              *)
LEMMA LayoutAppend ==
  ASSUME TypeOK, Layout, Drained, NEW s \in Spans, AppendSpan(s)
  PROVE  Layout'
<1>1. /\ log' = Extended(s) /\ laid' = Append(laid, EntryAtEnd(s)) /\ tear' = tear
      /\ mode = "ready" /\ mode' = mode /\ exists' = exists
      /\ written' = WrittenAfter(Size[s])
  BY DEF AppendSpan, Extended, EntryAtEnd
<1>2. Born
  BY <1>1 DEF Born, Drained
<1>3. /\ Records(log', laid', tear')
      /\ End(EntryAtEnd(s)) = Len(Extended(s))
  BY <1>1, <1>2, RecordsExtended
<1>4. /\ Len(laid) \in Nat /\ Len(laid') = Len(laid) + 1
      /\ laid'[Len(laid) + 1] = EntryAtEnd(s)
      /\ Size[s] \in Nat
  BY <1>1, ExtendedType
<1>5. Len(log') = Edge(laid', Len(laid'))
  BY <1>1, <1>3, <1>4 DEF Edge
<1>6. /\ written' \in Nat /\ written' >= written /\ written \in Nat /\ HeaderLen \in Nat
      /\ tear \in Nat \/ tear = NoTear
  BY <1>1, <1>4, WrittenAfterRange, TearType, SpanWalAssumption DEF TypeOK
<1>7. tear' <= written'
  BY <1>1, <1>6 DEF Layout, NoTear
<1>8. tear' = NoTear => written' >= HeaderLen
  BY <1>1, <1>2, <1>6 DEF Layout
<1>9. QED
  BY <1>3, <1>5, <1>7, <1>8 DEF Layout

(* ... and every step keeps it.                                            *)
LEMMA LayoutNext ==
  ASSUME TypeOK, Layout, Drained, [Next]_vars
  PROVE  Layout'
<1>1. CASE OpenNew
  <2>1. log' = log /\ laid' = laid /\ tear' = tear /\ written' = written /\ ~Born'
    BY <1>1 DEF OpenNew, history, Born
  <2>2. QED
    BY <2>1, LayoutKept
<1>2. CASE WriteHeader
  <2>1. log' = HeaderCells /\ written' = HeaderLen /\ laid' = laid /\ tear' = tear
    BY <1>2 DEF WriteHeader, history
  <2>2. laid = << >> /\ tear = NoTear
    BY <1>2 DEF WriteHeader, Drained, Born
  <2>3. Records(log', laid', tear')
    BY <2>1, <2>2 DEF Records
  <2>4. Len(log') = HeaderLen /\ HeaderLen \in Nat /\ Len(laid') = 0
    BY <2>1, <2>2, HeaderCellsType
  <2>5. tear' <= written' /\ written' >= HeaderLen
    BY <2>1, <2>2, <2>4 DEF NoTear
  <2>6. QED
    BY <2>3, <2>4, <2>5 DEF Layout, Edge
<1>3. CASE OpenExisting
  <2>1. log' = log /\ laid' = laid /\ tear' = tear /\ written' = written /\ Born
    BY <1>3 DEF OpenExisting, history, Born
  <2>2. QED
    BY <2>1, LayoutKept
<1>4. ASSUME NEW s \in Spans, AppendSpan(s) PROVE Layout'
  BY <1>4, LayoutAppend
<1>5. CASE Flush \/ Seal \/ Close
  <2>1. log' = log /\ laid' = laid /\ tear' = tear /\ written' = Len(log)
    BY <1>5 DEF Flush, Seal, Close
  <2>2. Born
    BY <1>5 DEF Flush, Seal, Close, Drained, Born
  <2>3. QED
    BY <2>1, <2>2, LayoutKept
<1>6. CASE RecoverBegin \/ RecoverFails \/ RecoverRecord \/ RecoverFields \/ RecoverEnd
  <2>1. log' = log /\ laid' = laid /\ tear' = tear /\ written' = written
    BY <1>6 DEF RecoverBegin, RecoverFails, RecoverRecord, RecoverFields, RecoverEnd, history
  <2>2. Born
    BY <1>6 DEF RecoverBegin, RecoverFails, RecoverRecord, RecoverFields, RecoverEnd, Drained, Born
  <2>3. QED
    BY <2>1, <2>2, LayoutKept
<1>7. CASE CrashBetween \/ CrashTorn
  BY <1>7, LayoutCut
<1>8. CASE CrashCreating
  <2>1. laid' = << >> /\ tear' = 0
    BY <1>8 DEF CrashCreating
  <2>2. written' \in Nat
    <3>1. TypeOK'
      BY TypeNext
    <3>2. QED
      BY <3>1 DEF TypeOK
  <2>3. Records(log', laid', tear')
    BY <2>1 DEF Records
  <2>4. tear' # NoTear /\ tear' <= written'
    BY <2>1, <2>2 DEF NoTear
  <2>5. QED
    BY <2>3, <2>4 DEF Layout
<1>9. CASE UNCHANGED vars
  <2>1. log' = log /\ laid' = laid /\ tear' = tear /\ written' = written /\ (Born' => Born)
    BY <1>9 DEF vars, Born
  <2>2. QED
    BY <2>1, LayoutKept
<1>10. QED
  BY <1>1, <1>2, <1>3, <1>4, <1>5, <1>6, <1>7, <1>8, <1>9 DEF Next

----------------------------------------------------------------------------
(* safe counts the records that are in the file.                           *)

(* A record that is laid down ends in the log, and is whole there.         *)
LEMMA EndsInLog ==
  ASSUME TypeOK, Layout, NEW i \in 1 .. Len(laid)
  PROVE  End(laid[i]) \in Nat /\ End(laid[i]) <= Len(log) /\ Intact(log, laid[i])
<1>1. laid \in Seq(Entry) /\ DOMAIN laid = 1 .. Len(laid)
  BY LenProperties DEF TypeOK
<1>2. Intact(log, laid[i])
  BY <1>1 DEF Layout, Records
<1>3. QED
  BY <1>1, <1>2, EntryFacts DEF Intact

(* An append that spills makes safe the records it writes.                 *)
LEMMA SafeAppend ==
  ASSUME TypeOK, Layout, Drained, SafeIsWritten, NEW s \in Spans, AppendSpan(s)
  PROVE  SafeIsWritten'
<1>1. /\ laid' = Append(laid, EntryAtEnd(s)) /\ written' = WrittenAfter(Size[s])
      /\ safe' = IF written' > Len(log) THEN Len(laid) + 1
                 ELSE IF written' = Len(log) THEN Len(laid) ELSE safe
  BY DEF AppendSpan, EntryAtEnd
<1>2. /\ Len(laid) \in Nat /\ Len(log) \in Nat /\ Size[s] \in Nat /\ Size[s] >= 3
      /\ laid' \in Seq(Entry) /\ Len(laid') = Len(laid) + 1
      /\ \A i \in 1 .. Len(laid) : laid'[i] = laid[i]
      /\ laid'[Len(laid) + 1] = EntryAtEnd(s)
  BY <1>1, ExtendedType
<1>3. /\ DOMAIN laid' = 1 .. Len(laid) + 1 /\ DOMAIN laid = 1 .. Len(laid)
      /\ written \in Nat /\ written <= Len(log) /\ safe \in Nat /\ safe <= Len(laid)
  BY <1>2, LenProperties DEF TypeOK
<1>4. End(EntryAtEnd(s)) = Len(log) + Size[s]
  BY DEF EntryAtEnd, End
<1>5. /\ written' \in Nat
      /\ written' = Len(log) + Size[s] \/ written' = Len(log) \/ written' = written
  BY <1>1, <1>2, WrittenAfterRange
<1>6. ASSUME NEW i \in 1 .. Len(laid) + 1
      PROVE  End(laid'[i]) <= written' <=> i <= safe'
  <2>1. CASE i \in 1 .. Len(laid)
    <3>1. laid'[i] = laid[i] /\ (End(laid[i]) <= written <=> i <= safe)
      BY <1>2, <1>3, <2>1 DEF SafeIsWritten
    <3>2. End(laid[i]) \in Nat /\ End(laid[i]) <= Len(log)
      BY <2>1, EndsInLog
    <3>3. QED
      BY <1>1, <1>2, <1>3, <1>5, <2>1, <3>1, <3>2
  <2>2. CASE i = Len(laid) + 1
    BY <1>1, <1>2, <1>3, <1>4, <1>5, <2>2
  <2>3. QED
    BY <1>2, <2>1, <2>2
<1>7. QED
  BY <1>3, <1>6 DEF SafeIsWritten

(* Every step keeps safe at the records that are in the file.              *)
LEMMA SafeNext ==
  ASSUME TypeOK, Layout, Drained, SafeIsWritten, [Next]_vars
  PROVE  SafeIsWritten'
<1>1. CASE WriteHeader \/ CrashCreating
  <2>1. laid' = << >>
    BY <1>1 DEF WriteHeader, CrashCreating, history, Drained, Born
  <2>2. QED
    BY <2>1 DEF SafeIsWritten
<1>2. ASSUME NEW s \in Spans, AppendSpan(s) PROVE SafeIsWritten'
  BY <1>2, SafeAppend
<1>3. CASE Flush \/ Seal \/ Close
  <2>1. laid' = laid /\ written' = Len(log) /\ safe' = Len(laid)
    BY <1>3 DEF Flush, Seal, Close
  <2>2. DOMAIN laid = 1 .. Len(laid) /\ Len(laid) \in Nat
    BY LenProperties DEF TypeOK
  <2>3. QED
    BY <2>1, <2>2, EndsInLog DEF SafeIsWritten
<1>4. CASE OpenNew \/ OpenExisting \/ RecoverBegin \/ RecoverFails \/ RecoverRecord
           \/ RecoverFields \/ RecoverEnd \/ UNCHANGED vars
  <2>1. laid' = laid /\ written' = written /\ safe' = safe
    BY <1>4 DEF OpenNew, OpenExisting, RecoverBegin, RecoverFails, RecoverRecord,
                RecoverFields, RecoverEnd, history, vars
  <2>2. QED
    BY <2>1 DEF SafeIsWritten
<1>5. CASE CrashBetween \/ CrashTorn
  <2>1. PICK cells, recs, k, n : Cut(cells, recs, k, n)
    BY <1>5, CrashCuts
  <2>2. /\ cells \in Seq(Cell) /\ recs \in Seq(Entry)
        /\ k \in 0 .. Len(cells) /\ n \in 0 .. Len(recs)
        /\ CutTo(cells, recs, k, n)
    BY <2>1 DEF Cut
  <2>3. /\ written' = k /\ safe' = n /\ Len(laid') = n
        /\ \A i \in 1 .. n : laid'[i] = recs[i]
    BY <2>2, CutToShape
  <2>4. laid' \in Seq(Entry)
    BY <2>2, CutToType
  <2>5. \A i \in DOMAIN recs : End(recs[i]) <= k <=> i <= n
    BY <2>2 DEF CutTo
  <2>6. DOMAIN laid' = 1 .. n /\ DOMAIN recs = 1 .. Len(recs) /\ Len(recs) \in Nat
    BY <2>2, <2>3, <2>4, LenProperties
  <2>7. ASSUME NEW i \in 1 .. n PROVE End(laid'[i]) <= k <=> i <= n
    <3>1. i \in DOMAIN recs /\ laid'[i] = recs[i]
      BY <2>2, <2>3, <2>6
    <3>2. QED
      BY <2>5, <3>1
  <2>8. QED
    BY <2>3, <2>6, <2>7 DEF SafeIsWritten
<1>6. QED
  BY <1>1, <1>2, <1>3, <1>4, <1>5 DEF Next

----------------------------------------------------------------------------
(* Every entry is a complete record, or lies behind the first cut write.   *)

(* The edge below a record does not change with what is laid behind it.    *)
LEMMA EdgeKept ==
  ASSUME NEW recs, NEW more, NEW n, n = 0 \/ more[n] = recs[n]
  PROVE  Edge(more, n) = Edge(recs, n)
BY DEF Edge, End

(* What a laid record leaves in the log: its header, table and identity.   *)
LEMMA LaidCells ==
  ASSUME TypeOK, Layout, NEW i \in 1 .. Len(laid)
  PROVE  /\ laid[i] \in Entry /\ laid[i].offset \in Nat /\ laid[i].span \in Spans
         /\ Size[laid[i].span] \in Nat /\ Size[laid[i].span] >= 3
         /\ End(laid[i]) = laid[i].offset + Size[laid[i].span]
         /\ laid[i] = [span |-> laid[i].span, offset |-> laid[i].offset]
         /\ log[laid[i].offset + 1] = [span |-> laid[i].span, part |-> 1]
         /\ log[laid[i].offset + 2] = [span |-> laid[i].span, part |-> 2]
         /\ log[laid[i].offset + 3] = [span |-> laid[i].span, part |-> 3]
<1>1. laid \in Seq(Entry) /\ Intact(log, laid[i])
  BY EndsInLog DEF TypeOK
<1>2. /\ laid[i] \in Entry /\ laid[i].offset \in Nat /\ laid[i].span \in Spans
      /\ Size[laid[i].span] \in Nat /\ Size[laid[i].span] >= 3
      /\ End(laid[i]) = laid[i].offset + Size[laid[i].span]
  BY <1>1, EntryFacts
<1>3. 1 \in 1 .. Size[laid[i].span] /\ 2 \in 1 .. Size[laid[i].span] /\ 3 \in 1 .. Size[laid[i].span]
  BY <1>2
<1>4. laid[i] = [span |-> laid[i].span, offset |-> laid[i].offset]
  BY <1>2 DEF Entry
<1>5. QED
  BY <1>1, <1>2, <1>3, <1>4 DEF Intact

(* A later record begins and ends behind an earlier one.                   *)
LEMMA LaidOrder ==
  ASSUME TypeOK, Layout, NEW i \in 1 .. Len(laid), NEW j \in 1 .. Len(laid), i <= j
  PROVE  laid[i].offset <= laid[j].offset /\ End(laid[i]) <= End(laid[j])
<1>1. /\ laid[i].offset \in Nat /\ laid[j].offset \in Nat
      /\ Size[laid[i].span] \in Nat /\ Size[laid[j].span] \in Nat
      /\ End(laid[i]) = laid[i].offset + Size[laid[i].span]
      /\ End(laid[j]) = laid[j].offset + Size[laid[j].span]
  BY LaidCells
<1>2. CASE i = j
  BY <1>1, <1>2
<1>3. CASE i < j
  <2>1. DOMAIN laid = 1 .. Len(laid)
    BY LenProperties DEF TypeOK
  <2>2. End(laid[i]) <= laid[j].offset
    BY <1>3, <2>1 DEF Layout, Records
  <2>3. QED
    BY <1>1, <2>2
<1>4. QED
  BY <1>2, <1>3

(* Two records do not begin at the same place.                             *)
LEMMA LaidApart ==
  ASSUME TypeOK, Layout, NEW i \in 1 .. Len(laid), NEW j \in 1 .. Len(laid),
         laid[i].offset = laid[j].offset
  PROVE  laid[i] = laid[j]
<1>1. /\ log[laid[i].offset + 1] = [span |-> laid[i].span, part |-> 1]
      /\ log[laid[j].offset + 1] = [span |-> laid[j].span, part |-> 1]
      /\ laid[i] = [span |-> laid[i].span, offset |-> laid[i].offset]
      /\ laid[j] = [span |-> laid[j].span, offset |-> laid[j].offset]
  BY LaidCells
<1>2. laid[i].span = laid[j].span
  BY <1>1
<1>3. QED
  BY <1>1, <1>2

(* Before the first cut write there is a record behind every edge but the  *)
(* last.                                                                   *)
LEMMA NotTheLast ==
  ASSUME TypeOK, Layout, Born, TearAtEdge, NEW c \in 0 .. Len(laid),
         Edge(laid, c) < Len(log), tear = NoTear \/ Edge(laid, c) < tear
  PROVE  /\ c + 1 \in 1 .. Len(laid) /\ laid[c + 1].offset = Edge(laid, c)
         /\ Edge(laid, c + 1) = End(laid[c + 1])
<1>1. /\ laid \in Seq(Entry) /\ DOMAIN laid = 1 .. Len(laid) /\ Len(laid) \in Nat
      /\ Len(log) \in Nat /\ HeaderLen \in Nat
  BY LenProperties, SpanWalAssumption DEF TypeOK
<1>2. /\ Edge(laid, c) \in Nat
      /\ c = 0 => Edge(laid, c) = HeaderLen
      /\ c # 0 => Edge(laid, c) = End(laid[c])
  BY <1>1, EdgeType
<1>3. ASSUME c + 1 \in 1 .. Len(laid), tear = NoTear \/ laid[c + 1].offset < tear
      PROVE  laid[c + 1].offset = Edge(laid, c)
  <2>1. laid[c + 1].offset = Edge(laid, (c + 1) - 1)
    BY <1>1, <1>3 DEF Layout, Records
  <2>2. (c + 1) - 1 = c
    BY <1>1
  <2>3. QED
    BY <2>1, <2>2
<1>4. ASSUME c + 1 \in 1 .. Len(laid) PROVE Edge(laid, c + 1) = End(laid[c + 1])
  BY <1>1, <1>4, EdgeType
<1>5. CASE tear = NoTear
  <2>1. Len(log) = Edge(laid, Len(laid))
    BY <1>5 DEF Layout
  <2>2. c # Len(laid)
    <3>1. SUFFICES ASSUME c = Len(laid) PROVE FALSE
      OBVIOUS
    <3>2. Edge(laid, c) = Len(log)
      BY <2>1, <3>1, Zenon
    <3>3. QED
      BY <1>1, <1>2, <3>2
  <2>3. c + 1 \in 1 .. Len(laid)
    <3> DEFINE n == Len(laid)
    <3>1. n \in Nat /\ c \in 0 .. n /\ c # n
      BY <1>1, <2>2
    <3> HIDE DEF n
    <3>2. c + 1 \in 1 .. n
      BY <3>1
    <3>3. QED
      BY <3>2 DEF n
  <2>4. QED
    BY <1>3, <1>4, <1>5, <2>3
<1>6. CASE tear # NoTear
  <2>1. tear \in Nat /\ Edge(laid, c) < tear
    BY <1>6, TearType
  <2>2. PICK n \in 0 .. Len(laid) : tear = Edge(laid, n)
    BY <1>2, <1>6, <2>1 DEF TearAtEdge
  <2>3. /\ n = 0 => Edge(laid, n) = HeaderLen
        /\ n # 0 => Edge(laid, n) = End(laid[n])
    BY <1>1, <2>2, EdgeType
  <2>4. ASSUME n <= c PROVE FALSE
    <3>1. CASE n = 0
      <4>1. c \in 1 .. Len(laid) /\ 1 \in 1 .. Len(laid) /\ 1 <= c
        BY <1>1, <1>2, <2>1, <2>2, <2>3, <3>1
      <4>2. laid[1].offset <= laid[c].offset
        BY <4>1, LaidOrder
      <4>3. /\ laid[c].offset \in Nat /\ laid[1].offset \in Nat
            /\ Size[laid[c].span] \in Nat
            /\ End(laid[c]) = laid[c].offset + Size[laid[c].span]
        BY <4>1, LaidCells
      <4>4. End(laid[c]) < tear
        BY <1>1, <1>2, <2>1, <4>1
      <4>5. laid[1].offset < tear
        <5> DEFINE a == laid[1].offset
                   b == laid[c].offset
                   z == Size[laid[c].span]
        <5>1. a \in Nat /\ b \in Nat /\ z \in Nat /\ a <= b
          BY <4>2, <4>3
        <5>2. b + z < tear
          BY <4>3, <4>4
        <5> HIDE DEF a, b, z
        <5>3. a < tear
          BY <2>1, <5>1, <5>2
        <5>4. QED
          BY <5>3 DEF a
      <4>6. laid[1].offset = Edge(laid, 1 - 1)
        BY <1>1, <4>1, <4>5 DEF Layout, Records
      <4>7. 1 - 1 = 0
        OBVIOUS
      <4>8. laid[1].offset = tear
        BY <2>2, <3>1, <4>6, <4>7
      <4>9. QED
        BY <2>1, <4>3, <4>5, <4>8
    <3>2. CASE n # 0
      <4>1. n \in 1 .. Len(laid) /\ c \in 1 .. Len(laid)
        BY <1>1, <2>2, <2>4, <3>2
      <4>2. End(laid[n]) <= End(laid[c])
        BY <2>4, <4>1, LaidOrder
      <4>3. tear = End(laid[n]) /\ Edge(laid, c) = End(laid[c])
        BY <1>1, <1>2, <2>2, <2>3, <3>2, <4>1
      <4>4. QED
        BY <1>2, <2>1, <4>2, <4>3
    <3>3. QED
      BY <3>1, <3>2
  <2>5. c + 1 \in 1 .. Len(laid) /\ n \in 1 .. Len(laid) /\ c + 1 <= n
    BY <1>1, <2>2, <2>4
  <2>6. laid[c + 1].offset < tear
    <3>1. laid[c + 1].offset <= laid[n].offset
      BY <2>5, LaidOrder
    <3>2. /\ laid[n].offset \in Nat /\ laid[c + 1].offset \in Nat
          /\ Size[laid[n].span] \in Nat /\ Size[laid[n].span] >= 3
          /\ End(laid[n]) = laid[n].offset + Size[laid[n].span]
      BY <2>5, LaidCells
    <3>3. tear = End(laid[n])
      BY <1>1, <2>2, <2>3, <2>5
    <3>4. QED
      BY <2>1, <3>1, <3>2, <3>3
  <2>7. QED
    BY <1>3, <1>4, <2>5, <2>6
<1>7. QED
  BY <1>5, <1>6

(* Every step keeps the first cut write at an edge.                        *)
LEMMA TearNext ==
  ASSUME TypeOK, Layout, Drained, TearAtEdge, [Next]_vars
  PROVE  TearAtEdge'
<1>1. /\ laid \in Seq(Entry) /\ DOMAIN laid = 1 .. Len(laid) /\ Len(laid) \in Nat
  BY LenProperties DEF TypeOK
<1>2. CASE laid' = laid /\ tear' = tear
  BY <1>2 DEF TearAtEdge, Edge, End
<1>3. ASSUME NEW s \in Spans, AppendSpan(s) PROVE TearAtEdge'
  <2>1. tear' = tear /\ laid' = Append(laid, EntryAtEnd(s))
    BY <1>3 DEF AppendSpan, EntryAtEnd
  <2>2. /\ Len(laid') = Len(laid) + 1
        /\ \A i \in 1 .. Len(laid) : laid'[i] = laid[i]
    BY <2>1, ExtendedType
  <2>3. ASSUME NEW n \in 0 .. Len(laid) PROVE Edge(laid', n) = Edge(laid, n)
    <3>1. n = 0 \/ laid'[n] = laid[n]
      BY <1>1, <2>2
    <3>2. QED
      BY <3>1, EdgeKept
  <2>4. CASE tear \in {NoTear, 0}
    BY <2>1, <2>4 DEF TearAtEdge
  <2>5. CASE \E n \in 0 .. Len(laid) : tear = Edge(laid, n)
    <3>1. PICK n \in 0 .. Len(laid) : tear = Edge(laid, n)
      BY <2>5
    <3>2. n \in 0 .. Len(laid') /\ tear' = Edge(laid', n)
      BY <1>1, <2>1, <2>2, <2>3, <3>1
    <3>3. \E q \in 0 .. Len(laid') : tear' = Edge(laid', q)
      BY <3>2
    <3>4. QED
      BY <3>3, Zenon DEF TearAtEdge
  <2>6. QED
    BY <2>4, <2>5 DEF TearAtEdge
<1>4. CASE CrashBetween \/ CrashTorn
  <2>1. PICK cells, recs, k, n : Cut(cells, recs, k, n)
    BY <1>4, CrashCuts
  <2>2. /\ cells \in Seq(Cell) /\ recs \in Seq(Entry)
        /\ k \in 0 .. Len(cells) /\ n \in 0 .. Len(recs) /\ written <= k
        /\ CutTo(cells, recs, k, n)
    BY <2>1 DEF Cut
  <2>3. Len(laid') = n /\ \A i \in 1 .. n : laid'[i] = recs[i]
    BY <2>2, CutToShape
  <2>4. /\ tear' = IF tear = NoTear /\ k # Edge(recs, n) THEN Edge(recs, n) ELSE tear
        /\ \A i \in DOMAIN recs : End(recs[i]) <= k <=> i <= n
    BY <2>2 DEF CutTo
  <2>5. /\ k \in Nat /\ n \in Nat /\ Len(recs) \in Nat /\ written \in Nat
        /\ DOMAIN recs = 1 .. Len(recs)
    BY <2>2, LenProperties DEF TypeOK
  <2>6. ASSUME NEW q \in 0 .. n PROVE Edge(laid', q) = Edge(recs, q)
    <3>1. q = 0 \/ laid'[q] = recs[q]
      BY <2>3, <2>5
    <3>2. QED
      BY <3>1, EdgeKept
  <2>7. CASE tear = NoTear
    <3>1. CASE k = Edge(recs, n)
      BY <2>4, <2>7, <3>1 DEF TearAtEdge
    <3>2. CASE k # Edge(recs, n)
      <4>1. n \in 0 .. n /\ n \in 0 .. Len(laid')
        BY <2>3, <2>5
      <4>2. tear' = Edge(laid', n)
        BY <2>4, <2>6, <2>7, <3>2, <4>1
      <4>3. \E q \in 0 .. Len(laid') : tear' = Edge(laid', q)
        BY <4>1, <4>2
      <4>4. QED
        BY <4>3, Zenon DEF TearAtEdge
    <3>3. QED
      BY <3>1, <3>2
  <2>8. CASE tear = 0
    <3>1. tear' = 0
      BY <2>4, <2>8 DEF NoTear
    <3>2. QED
      BY <3>1 DEF TearAtEdge
  <2>9. CASE tear \notin {NoTear, 0}
    <3>1. PICK q \in 0 .. Len(laid) : tear = Edge(laid, q)
      BY <2>9 DEF TearAtEdge
    <3>2. Len(laid) <= Len(recs) /\ \A i \in 1 .. Len(laid) : recs[i] = laid[i]
      <4>1. CASE recs = laid
        BY <1>1, <4>1
      <4>2. CASE recs # laid
        <5>1. PICK s \in Spans : recs = Append(laid, EntryAtEnd(s))
          BY <2>1, <4>2 DEF Cut
        <5>2. QED
          BY <1>1, <5>1, ExtendedType
      <4>3. QED
        BY <4>1, <4>2
    <3>3. tear <= k /\ tear' = tear
      <4>1. tear \in Nat /\ tear <= written
        BY <2>9, TearType DEF Layout
      <4>2. QED
        BY <2>2, <2>4, <2>5, <2>9, <4>1
    <3>4. q \in 0 .. n
      <4>1. CASE q = 0
        BY <2>5, <4>1
      <4>2. CASE q # 0
        <5>1. q \in 1 .. Len(laid)
          BY <1>1, <3>1, <4>2
        <5>1a. q \in DOMAIN recs /\ recs[q] = laid[q]
          BY <1>1, <2>5, <3>2, <5>1
        <5>2. tear = End(recs[q])
          BY <3>1, <4>2, <5>1a DEF Edge
        <5>3. QED
          BY <1>1, <2>4, <2>5, <3>3, <5>1, <5>1a, <5>2
      <4>3. QED
        BY <4>1, <4>2
    <3>5. Edge(recs, q) = Edge(laid, q)
      <4>1. q = 0 \/ recs[q] = laid[q]
        BY <1>1, <3>1, <3>2
      <4>2. QED
        BY <4>1, EdgeKept
    <3>6. tear' = Edge(laid', q)
      BY <2>6, <3>1, <3>3, <3>4, <3>5
    <3>7. \E i \in 0 .. Len(laid') : tear' = Edge(laid', i)
      BY <2>3, <3>4, <3>6
    <3>8. QED
      BY <3>7, Zenon DEF TearAtEdge
  <2>10. QED
    BY <2>7, <2>8, <2>9
<1>5. CASE CrashCreating
  <2>1. tear' = 0
    BY <1>5 DEF CrashCreating
  <2>2. QED
    BY <2>1 DEF TearAtEdge
<1>6. CASE \/ OpenNew \/ WriteHeader \/ OpenExisting \/ Flush \/ RecoverBegin \/ RecoverFails
           \/ RecoverRecord \/ RecoverFields \/ RecoverEnd \/ Seal \/ Close \/ UNCHANGED vars
  <2>1. laid' = laid /\ tear' = tear
    BY <1>6 DEF OpenNew, WriteHeader, OpenExisting, Flush, RecoverBegin, RecoverFails,
       RecoverRecord, RecoverFields, RecoverEnd, Seal, Close, history, vars
  <2>2. QED
    BY <1>2, <2>1
<1>7. QED
  BY <1>3, <1>4, <1>5, <1>6 DEF Next

(* The entry a turn of recover()'s loop may push, and the index with it.   *)
LEMMA PushedPoints ==
  ASSUME TypeOK, NEW idx \in Seq(Listed), NEW id \in Spans \cup {Stray, NoId},
         NEW pos \in Nat, NEW end \in Nat, pos < end,
         Points(idx), \A i \in DOMAIN idx : idx[i].offset < pos,
         id = NoId \/ AtRecord([span |-> id, offset |-> pos])
                   \/ BehindTear([span |-> id, offset |-> pos])
  PROVE  /\ Points(Pushed(idx, id, pos))
         /\ \A i \in DOMAIN Pushed(idx, id, pos) : Pushed(idx, id, pos)[i].offset < end
<1> DEFINE e == [span |-> id, offset |-> pos]
<1>1. DOMAIN idx = 1 .. Len(idx) /\ Len(idx) \in Nat
  BY LenProperties
<1>2. \A i \in DOMAIN idx : idx[i].offset \in Nat
  <2>1. \A i \in 1 .. Len(idx) : idx[i] \in Listed
    BY ElementOfSeq
  <2>2. QED
    BY <1>1, <2>1 DEF Listed
<1>3. CASE id = NoId
  BY <1>1, <1>2, <1>3 DEF Pushed
<1>4. CASE id # NoId
  <2>1. e \in Listed /\ e.offset = pos
    BY <1>4 DEF Listed
  <2>2. AtRecord(e) \/ BehindTear(e)
    BY <1>4
  <2> HIDE DEF e
  <2>3. Pushed(idx, id, pos) = Append(idx, e)
    BY <1>4 DEF Pushed, e
  <2>4. /\ DOMAIN Append(idx, e) = 1 .. Len(idx) + 1
        /\ \A i \in 1 .. Len(idx) : Append(idx, e)[i] = idx[i]
        /\ Append(idx, e)[Len(idx) + 1] = e
    BY <2>1, AppendProperties
  <2>5. ASSUME NEW i \in 1 .. Len(idx) + 1
        PROVE  /\ AtRecord(Append(idx, e)[i]) \/ BehindTear(Append(idx, e)[i])
               /\ Append(idx, e)[i].offset < end
    <3>1. CASE i \in 1 .. Len(idx)
      BY <1>1, <1>2, <2>4, <3>1 DEF Points
    <3>2. CASE i = Len(idx) + 1
      BY <2>1, <2>2, <2>4, <3>2
    <3>3. QED
      BY <1>1, <3>1, <3>2
  <2>6. ASSUME NEW i \in 1 .. Len(idx) + 1, NEW j \in 1 .. Len(idx) + 1, i < j
        PROVE  Append(idx, e)[i].offset < Append(idx, e)[j].offset
    <3>1. i \in 1 .. Len(idx)
      BY <1>1, <2>6
    <3>2. CASE j \in 1 .. Len(idx)
      BY <1>1, <2>4, <2>6, <3>1, <3>2 DEF Points
    <3>3. CASE j = Len(idx) + 1
      BY <1>1, <2>1, <2>4, <3>1, <3>3
    <3>4. QED
      BY <1>1, <3>2, <3>3
  <2>7. QED
    BY <2>3, <2>4, <2>5, <2>6 DEF Points
<1>5. QED
  BY <1>3, <1>4

(* Points, of records and a tear given as values.                          *)
PointsIn(recs, t, idx) ==
  /\ \A i \in DOMAIN idx :
       \/ \E k \in DOMAIN recs : idx[i] = recs[k]
       \/ /\ t # NoTear /\ idx[i].offset >= t
          /\ \A k \in DOMAIN recs : recs[k].offset # idx[i].offset
  /\ \A i, j \in DOMAIN idx : i < j => idx[i].offset < idx[j].offset

(* A record laid down at the end of the log may be listed behind the rest. *)
LEMMA PointsAppended ==
  ASSUME NEW recs \in Seq(Entry), NEW idx \in Seq(Listed), NEW t \in Nat \cup {NoTear},
         NEW e \in Entry, NEW n \in Nat, e.offset < n,
         PointsIn(recs, t, idx), \A i \in DOMAIN idx : idx[i].offset < e.offset
  PROVE  /\ PointsIn(Append(recs, e), t, Append(idx, e))
         /\ \A i \in DOMAIN Append(idx, e) : Append(idx, e)[i].offset < n
<1>1. /\ Len(recs) \in Nat /\ DOMAIN recs = 1 .. Len(recs)
      /\ Len(idx) \in Nat /\ DOMAIN idx = 1 .. Len(idx)
  BY LenProperties
<1>2. e \in Listed /\ e.offset \in Nat
  BY DEF Entry, Listed
<1>3. \A i \in 1 .. Len(idx) : idx[i].offset \in Nat
  <2>1. \A i \in 1 .. Len(idx) : idx[i] \in Listed
    BY ElementOfSeq
  <2>2. QED
    BY <2>1 DEF Listed
<1> DEFINE r2 == Append(recs, e)
           x2 == Append(idx, e)
<1>4. /\ DOMAIN r2 = 1 .. Len(recs) + 1 /\ \A i \in 1 .. Len(recs) : r2[i] = recs[i]
      /\ r2[Len(recs) + 1] = e
  BY AppendProperties
<1>5. /\ DOMAIN x2 = 1 .. Len(idx) + 1 /\ \A i \in 1 .. Len(idx) : x2[i] = idx[i]
      /\ x2[Len(idx) + 1] = e
  BY <1>2, AppendProperties
<1> HIDE DEF r2, x2
<1>6. ASSUME NEW i \in 1 .. Len(idx) + 1
      PROVE  /\ \/ \E k \in DOMAIN r2 : x2[i] = r2[k]
                \/ /\ t # NoTear /\ x2[i].offset >= t
                   /\ \A k \in DOMAIN r2 : r2[k].offset # x2[i].offset
             /\ x2[i].offset < n
  <2>1. CASE i = Len(idx) + 1
    <3>1. Len(recs) + 1 \in DOMAIN r2
      BY <1>1, <1>4
    <3>2. QED
      BY <1>4, <1>5, <2>1, <3>1
  <2>2. CASE i \in 1 .. Len(idx)
    <3>1. x2[i] = idx[i] /\ idx[i].offset < e.offset /\ idx[i].offset \in Nat
      BY <1>1, <1>3, <1>5, <2>2
    <3>2. CASE \E k \in DOMAIN recs : idx[i] = recs[k]
      <4>1. PICK k \in DOMAIN recs : idx[i] = recs[k]
        BY <3>2
      <4>2. k \in DOMAIN r2 /\ r2[k] = x2[i]
        BY <1>1, <1>4, <3>1, <4>1
      <4>3. QED
        BY <1>2, <3>1, <4>2
    <3>3. CASE /\ t # NoTear /\ idx[i].offset >= t
               /\ \A k \in DOMAIN recs : recs[k].offset # idx[i].offset
      <4>1. ASSUME NEW k \in DOMAIN r2 PROVE r2[k].offset # x2[i].offset
        <5>1. CASE k \in 1 .. Len(recs)
          BY <1>1, <1>4, <3>1, <3>3, <5>1
        <5>2. CASE k = Len(recs) + 1
          BY <1>2, <1>4, <3>1, <5>2
        <5>3. QED
          BY <1>1, <1>4, <5>1, <5>2
      <4>2. QED
        BY <1>2, <3>1, <3>3, <4>1
    <3>4. QED
      BY <1>1, <2>2, <3>2, <3>3 DEF PointsIn
  <2>3. QED
    BY <1>1, <2>1, <2>2
<1>7. ASSUME NEW i \in 1 .. Len(idx) + 1, NEW j \in 1 .. Len(idx) + 1, i < j
      PROVE  x2[i].offset < x2[j].offset
  <2>1. i \in 1 .. Len(idx)
    BY <1>1, <1>7
  <2>2. CASE j \in 1 .. Len(idx)
    BY <1>1, <1>5, <1>7, <2>1, <2>2 DEF PointsIn
  <2>3. CASE j = Len(idx) + 1
    BY <1>1, <1>5, <2>1, <2>3
  <2>4. QED
    BY <1>1, <2>2, <2>3
<1>8. QED
  BY <1>5, <1>6, <1>7 DEF PointsIn, r2, x2

(* What the invariant says of recover()'s locals, and of the index.        *)
Scanned(sc) ==
  /\ tear = NoTear \/ sc.pos < tear => sc.count <= Len(laid) /\ sc.pos = Edge(laid, sc.count)
  /\ \A i \in DOMAIN sc.index : sc.index[i].offset < sc.pos
  /\ sc.pos <= Len(log) \/ sc.index = << >>
  /\ Points(sc.index)
Walking == TearAtEdge /\ ScanOnRecords /\ IndexInLog /\ IndexPointsAtRecords

(* A turn on a header: it is a record, or lies behind the first cut write. *)
LEMMA RecordScanned ==
  ASSUME TypeOK, Layout, Drained, Walking, RecoverRecord
  PROVE  Scanned(scan')
<1> DEFINE s == log[scan.pos + 1].span
           c == scan.count
<1>1. mode = "scanning" /\ RecordAt(File, scan.pos)
  BY DEF RecoverRecord
<1>2. /\ File = log /\ s \in Spans /\ scan.pos \in Nat /\ Len(log) \in Nat /\ Born
      /\ log[scan.pos + 1] = [span |-> s, part |-> 1]
      /\ Size[s] \in Nat /\ Size[s] >= 3 /\ scan.pos + Size[s] <= Len(log)
  BY <1>1, RecordHere DEF Born, Drained
<1>3. /\ Scanned(scan) /\ TearAtEdge
      /\ scan.index \in Seq(Listed) /\ c \in Nat /\ Len(laid) \in Nat
  BY <1>1, LenProperties DEF TypeOK, Walking, ScanOnRecords, IndexPointsAtRecords, Scanned
<1>4. IdsAt(log, scan.pos) \subseteq Spans \cup {Stray, NoId}
  BY <1>2 DEF IdsAt
<1>5. PICK id \in IdsAt(log, scan.pos) :
         scan' = [pos   |-> scan.pos + Size[s],
                  index |-> Pushed(scan.index, id, scan.pos),
                  count |-> c + 1]
  BY <1>2 DEF RecoverRecord
<1> HIDE DEF s, c
<1>6. ASSUME NEW i \in 1 .. Len(laid), laid[i].offset = scan.pos
      PROVE  id = laid[i].span /\ id # NoId /\ AtRecord([span |-> id, offset |-> scan.pos])
             /\ laid[i].span = s
  <2>1. /\ laid[i] = [span |-> laid[i].span, offset |-> laid[i].offset]
        /\ laid[i].span \in Spans
        /\ log[scan.pos + 1] = [span |-> laid[i].span, part |-> 1]
        /\ log[scan.pos + 2] = [span |-> laid[i].span, part |-> 2]
        /\ log[scan.pos + 3] = [span |-> laid[i].span, part |-> 3]
    BY <1>6, LaidCells
  <2>2. laid[i].span = s /\ IdsAt(log, scan.pos) = {laid[i].span}
    BY <2>1 DEF IdsAt, s
  <2>3. id = laid[i].span /\ id # NoId
    BY <1>5, <2>1, <2>2, SpanWalAssumption
  <2>4. DOMAIN laid = 1 .. Len(laid)
    BY LenProperties DEF TypeOK
  <2>5. laid[i] = [span |-> id, offset |-> scan.pos]
    BY <1>6, <2>1, <2>3
  <2>6. QED
    BY <2>2, <2>3, <2>4, <2>5 DEF AtRecord
<1>7. ASSUME tear = NoTear \/ scan.pos < tear
      PROVE  /\ c + 1 \in 1 .. Len(laid) /\ laid[c + 1].offset = scan.pos
             /\ scan.pos + Size[s] = Edge(laid, c + 1)
  <2>1. c \in 0 .. Len(laid) /\ scan.pos = Edge(laid, c)
    BY <1>3, <1>7 DEF Scanned, c
  <2>2. Edge(laid, c) < Len(log) /\ (tear = NoTear \/ Edge(laid, c) < tear)
    BY <1>2, <1>7, <2>1
  <2>3. /\ c + 1 \in 1 .. Len(laid) /\ laid[c + 1].offset = Edge(laid, c)
        /\ Edge(laid, c + 1) = End(laid[c + 1])
    BY <1>2, <1>3, <2>1, <2>2, NotTheLast
  <2>4. laid[c + 1].span = s
    BY <1>6, <2>1, <2>3
  <2>5. QED
    BY <2>1, <2>3, <2>4 DEF End
<1>8. \/ id = NoId \/ AtRecord([span |-> id, offset |-> scan.pos])
      \/ BehindTear([span |-> id, offset |-> scan.pos])
  <2>1. CASE \E i \in 1 .. Len(laid) : laid[i].offset = scan.pos
    BY <1>6, <2>1
  <2>2. CASE ~\E i \in 1 .. Len(laid) : laid[i].offset = scan.pos
    <3>1. ~(tear = NoTear \/ scan.pos < tear)
      BY <1>7, <2>2
    <3>2. tear \in Nat /\ tear # NoTear /\ scan.pos >= tear
      BY <1>2, <3>1, TearType
    <3>3. DOMAIN laid = 1 .. Len(laid)
      BY LenProperties DEF TypeOK
    <3>4. QED
      BY <2>2, <3>2, <3>3 DEF BehindTear
  <2>3. QED
    BY <2>1, <2>2
<1>9. /\ Points(Pushed(scan.index, id, scan.pos))
      /\ \A i \in DOMAIN Pushed(scan.index, id, scan.pos) :
            Pushed(scan.index, id, scan.pos)[i].offset < scan.pos + Size[s]
  <2>1. scan.pos + Size[s] \in Nat /\ scan.pos < scan.pos + Size[s]
    BY <1>2
  <2>2. id \in Spans \cup {Stray, NoId}
    BY <1>4, <1>5
  <2>3. Points(scan.index) /\ \A i \in DOMAIN scan.index : scan.index[i].offset < scan.pos
    BY <1>3 DEF Scanned
  <2>4. QED
    BY <1>2, <1>3, <1>8, <2>1, <2>2, <2>3, PushedPoints
<1>10. ASSUME tear = NoTear \/ scan.pos + Size[s] < tear
       PROVE  c + 1 <= Len(laid) /\ scan.pos + Size[s] = Edge(laid, c + 1)
  <2>1. tear = NoTear \/ scan.pos < tear
    BY <1>2, <1>10, TearType
  <2>2. QED
    BY <1>3, <1>7, <2>1
<1>11. QED
  BY <1>2, <1>5, <1>9, <1>10 DEF Scanned

(* A turn on fields lies behind the first cut write.                       *)
LEMMA FieldsScanned ==
  ASSUME TypeOK, Layout, Drained, Walking, RecoverFields
  PROVE  Scanned(scan')
<1> DEFINE c == scan.count
<1>1. mode = "scanning" /\ FieldsAt(File, scan.pos)
  BY DEF RecoverFields
<1>2. File = log /\ Born
  BY <1>1, FileIsLog DEF Drained, Born
<1>3. /\ scan.pos \in Nat /\ Len(log) \in Nat /\ scan.pos < Len(log)
      /\ log[scan.pos + 1].part >= 3
  BY <1>1, <1>2, LenProperties DEF TypeOK, FieldsAt
<1>4. /\ Scanned(scan) /\ TearAtEdge
      /\ scan.index \in Seq(Listed) /\ c \in Nat /\ Len(laid) \in Nat
  BY <1>1, LenProperties DEF TypeOK, Walking, ScanOnRecords, IndexPointsAtRecords, Scanned
<1>5. PICK n \in 1 .. MaxRecord, id \in {NoId, Stray} :
         /\ scan.pos + n <= Len(log)
         /\ scan' = [pos   |-> scan.pos + n,
                     index |-> Pushed(scan.index, id, scan.pos),
                     count |-> c + 1]
  BY <1>2 DEF RecoverFields
<1>6. n \in Nat /\ n >= 1
  BY SpanWalAssumption
<1> HIDE DEF c
<1>7. ASSUME NEW i \in 1 .. Len(laid) PROVE laid[i].offset # scan.pos
  <2>1. SUFFICES ASSUME laid[i].offset = scan.pos PROVE FALSE
    OBVIOUS
  <2>2. log[scan.pos + 1] = [span |-> laid[i].span, part |-> 1]
    BY <2>1, LaidCells
  <2>3. QED
    BY <1>3, <2>2
<1>8. ~(tear = NoTear \/ scan.pos < tear)
  <2>1. SUFFICES ASSUME tear = NoTear \/ scan.pos < tear PROVE FALSE
    OBVIOUS
  <2>2. c \in 0 .. Len(laid) /\ scan.pos = Edge(laid, c)
    BY <1>4, <2>1 DEF Scanned, c
  <2>3. Edge(laid, c) < Len(log) /\ (tear = NoTear \/ Edge(laid, c) < tear)
    BY <1>3, <2>1, <2>2
  <2>4. c + 1 \in 1 .. Len(laid) /\ laid[c + 1].offset = scan.pos
    BY <1>2, <1>4, <2>2, <2>3, NotTheLast
  <2>5. QED
    BY <1>7, <2>4
<1>9. tear \in Nat /\ tear # NoTear /\ scan.pos >= tear
  BY <1>3, <1>8, TearType
<1>10. BehindTear([span |-> id, offset |-> scan.pos])
  <2>1. DOMAIN laid = 1 .. Len(laid)
    BY LenProperties DEF TypeOK
  <2>2. QED
    BY <1>7, <1>9, <2>1 DEF BehindTear
<1>11. /\ Points(Pushed(scan.index, id, scan.pos))
       /\ \A i \in DOMAIN Pushed(scan.index, id, scan.pos) :
             Pushed(scan.index, id, scan.pos)[i].offset < scan.pos + n
  <2>1. scan.pos + n \in Nat /\ scan.pos < scan.pos + n
    BY <1>3, <1>6
  <2>2. Points(scan.index) /\ \A i \in DOMAIN scan.index : scan.index[i].offset < scan.pos
    BY <1>4 DEF Scanned
  <2>3. QED
    BY <1>3, <1>4, <1>10, <2>1, <2>2, PushedPoints
<1>12. ~(tear = NoTear \/ scan.pos + n < tear)
  BY <1>3, <1>6, <1>9
<1>13. QED
  BY <1>5, <1>11, <1>12 DEF Scanned

(* Every step keeps recover() and the index on records or behind a tear.   *)
LEMMA WalkNext ==
  ASSUME TypeOK, Layout, Drained, OffsetInSync, Walking, [Next]_vars
  PROVE  Walking'
<1>0. TearAtEdge'
  BY TearNext DEF Walking
<1> DEFINE Rest == ScanOnRecords /\ IndexInLog /\ IndexPointsAtRecords
<1>1. CASE mode' \notin {"ready", "scanning"}
  BY <1>0, <1>1 DEF Walking, ScanOnRecords, IndexInLog, IndexPointsAtRecords
<1>2. CASE WriteHeader \/ (OpenExisting /\ mode' = "ready")
  <2>1. mode' = "ready" /\ index' = << >>
    BY <1>2 DEF WriteHeader, OpenExisting, Drained
  <2>2. DOMAIN << >> = {}
    OBVIOUS
  <2>3. QED
    BY <1>0, <2>1, <2>2 DEF Walking, ScanOnRecords, IndexInLog, IndexPointsAtRecords, Points
<1>3. ASSUME NEW s \in Spans, AppendSpan(s) PROVE Walking'
  <2>1. /\ mode = "ready" /\ mode' = "ready" /\ log' = Extended(s) /\ tear' = tear
        /\ laid' = Append(laid, EntryAtEnd(s)) /\ index' = Append(index, EntryAtEnd(s))
    BY <1>3 DEF AppendSpan, Extended, EntryAtEnd, OffsetInSync
  <2>2. /\ Len(log') = Len(log) + Size[s] /\ Len(log) \in Nat
        /\ Size[s] \in Nat /\ Size[s] >= 3
        /\ EntryAtEnd(s) \in Entry /\ EntryAtEnd(s).offset = Len(log)
    BY <2>1, ExtendedType DEF EntryAtEnd
  <2>3. Len(log) \in Nat /\ Len(log') \in Nat /\ Len(log) < Len(log')
    BY <2>2
  <2>4. laid \in Seq(Entry) /\ index \in Seq(Listed) /\ DOMAIN index = 1 .. Len(index)
    BY LenProperties DEF TypeOK
  <2>5. PointsIn(laid, tear, index) /\ \A i \in DOMAIN index : index[i].offset < Len(log)
    BY <2>1 DEF Walking, IndexInLog, IndexPointsAtRecords, Points, PointsIn, AtRecord,
       BehindTear
  <2>6. tear \in Nat \cup {NoTear}
    BY DEF TypeOK
  <2> DEFINE e == EntryAtEnd(s)
             recs == Append(laid, e)
             idx == Append(index, e)
             n == Len(log')
  <2>7. e \in Entry /\ n \in Nat /\ e.offset < n /\ \A i \in DOMAIN index : index[i].offset < e.offset
    BY <2>2, <2>3, <2>5
  <2> HIDE DEF e, n
  <2>8. PointsIn(recs, tear, idx) /\ \A i \in DOMAIN idx : idx[i].offset < n
    BY <2>4, <2>5, <2>6, <2>7, PointsAppended
  <2>9. recs = laid' /\ idx = index'
    BY <2>1 DEF e
  <2>10. PointsIn(laid', tear', index') /\ \A i \in DOMAIN index' : index'[i].offset < Len(log')
    BY <2>1, <2>8, <2>9 DEF n
  <2>11. IndexInLog' /\ ScanOnRecords'
    BY <2>1, <2>10 DEF IndexInLog, ScanOnRecords
  <2>12. Points(index)'
    BY <2>10 DEF Points, PointsIn, AtRecord, BehindTear
  <2>13. IndexPointsAtRecords'
    BY <2>1, <2>12 DEF IndexPointsAtRecords
  <2>14. QED
    BY <1>0, <2>11, <2>13 DEF Walking
<1>4. CASE Flush \/ Seal \/ UNCHANGED vars
  <2>1. UNCHANGED <<mode, log, index, scan, laid, tear>>
    BY <1>4 DEF Flush, Seal, vars
  <2>2. (ScanOnRecords /\ IndexInLog)' /\ Points(index)' = Points(index)
        /\ Points(scan.index)' = Points(scan.index)
    BY <2>1 DEF Walking, ScanOnRecords, IndexInLog, Points, AtRecord, BehindTear, Edge, End
  <2>3. QED
    BY <1>0, <2>1, <2>2 DEF Walking, IndexPointsAtRecords
<1>5. CASE RecoverBegin \/ RecoverRecord \/ RecoverFields
  <2>1. mode' = "scanning" /\ UNCHANGED <<log, laid, tear>>
    BY <1>5 DEF RecoverBegin, RecoverRecord, RecoverFields, history
  <2>2. Scanned(scan')
    <3>1. CASE RecoverBegin
      <4>1. scan'.index = << >> /\ scan'.pos = HeaderLen /\ scan'.count = 0
        BY <3>1 DEF RecoverBegin
      <4>2. DOMAIN << >> = {} /\ Edge(laid, 0) = HeaderLen /\ Len(laid) \in Nat
        BY LenProperties DEF Edge, TypeOK
      <4>3. QED
        BY <4>1, <4>2 DEF Scanned, Points
    <3>2. QED
      BY <1>5, <3>1, RecordScanned, FieldsScanned
  <2>3. ScanOnRecords' /\ IndexInLog'
    BY <2>1, <2>2 DEF Scanned, ScanOnRecords, IndexInLog, Edge, End
  <2>4. Points(scan.index)'
    BY <2>1, <2>2 DEF Scanned, Points, AtRecord, BehindTear
  <2>5. IndexPointsAtRecords'
    BY <2>1, <2>4 DEF IndexPointsAtRecords
  <2>6. QED
    BY <1>0, <2>3, <2>5 DEF Walking
<1>6. CASE RecoverEnd
  <2>1. /\ mode = "scanning" /\ mode' = "ready" /\ index' = scan.index
        /\ UNCHANGED <<log, laid, tear>>
    BY <1>6 DEF RecoverEnd, history
  <2>2. /\ Points(scan.index)
        /\ \A i \in DOMAIN scan.index : scan.index[i].offset < scan.pos
        /\ scan.pos <= Len(log) \/ scan.index = << >>
    BY <2>1 DEF Walking, ScanOnRecords, IndexPointsAtRecords
  <2>3. /\ scan.pos \in Nat /\ Len(log) \in Nat /\ DOMAIN << >> = {}
        /\ \A i \in DOMAIN scan.index : scan.index[i].offset \in Nat
    <3>1. /\ scan.index \in Seq(Listed) /\ DOMAIN scan.index = 1 .. Len(scan.index)
          /\ scan.pos \in Nat /\ Len(log) \in Nat
      BY LenProperties DEF TypeOK
    <3>2. \A i \in 1 .. Len(scan.index) : scan.index[i] \in Listed
      BY <3>1, ElementOfSeq
    <3>3. DOMAIN << >> = {}
      OBVIOUS
    <3>4. QED
      BY <3>1, <3>2, <3>3 DEF Listed
  <2>4. \A i \in DOMAIN index' : index'[i].offset < Len(log')
    BY <2>1, <2>2, <2>3
  <2>5. Points(index)'
    BY <2>1, <2>2 DEF Points, AtRecord, BehindTear
  <2>6. QED
    BY <1>0, <2>1, <2>4, <2>5 DEF Walking, ScanOnRecords, IndexInLog, IndexPointsAtRecords
<1>7. QED
  BY <1>1, <1>2, <1>3, <1>4, <1>5, <1>6, CrashDrains DEF Next, OpenNew, OpenExisting,
     RecoverFails, Close, NoHandle

----------------------------------------------------------------------------
(* recover() walks over the reachable records.                             *)

(* What is before a reachable record is reachable.                         *)
LEMMA ReachableDown ==
  ASSUME TypeOK, Layout, NEW i \in 1 .. Len(laid), NEW j \in 1 .. i, Reachable(i)
  PROVE  j \in 1 .. Len(laid) /\ Reachable(j)
<1>1. laid \in Seq(Entry) /\ DOMAIN laid = 1 .. Len(laid) /\ Len(laid) \in Nat
  BY LenProperties DEF TypeOK
<1>2. j \in 1 .. Len(laid) /\ j <= i
  BY <1>1
<1>3. tear = NoTear \/ laid[j].offset < tear
  <2>1. CASE i = j
    BY <2>1 DEF Reachable
  <2>2. CASE i # j
    <3>1. End(laid[j]) <= laid[i].offset
      BY <1>1, <1>2, <2>2 DEF Layout, Records
    <3>2. /\ laid[i].offset \in Nat /\ laid[j].offset \in Nat
          /\ Size[laid[j].span] \in Nat
          /\ End(laid[j]) = laid[j].offset + Size[laid[j].span]
      BY <1>1, <1>2, EntryFacts
    <3>3. laid[j].offset <= laid[i].offset
      BY <3>1, <3>2
    <3>4. tear = NoTear \/ laid[i].offset < tear
      BY DEF Reachable
    <3>5. CASE tear = NoTear
      BY <3>5
    <3>6. CASE tear \in Nat /\ laid[i].offset < tear
      BY <3>2, <3>3, <3>6
    <3>7. QED
      BY <3>4, <3>5, <3>6, TearType
  <2>3. QED
    BY <2>1, <2>2
<1>4. \A m \in 1 .. j : Size[laid[m].span] <= MaxRecord
  <2>1. \A m \in 1 .. j : m \in 1 .. i
    BY <1>1
  <2>2. QED
    BY <2>1 DEF Reachable
<1>5. QED
  BY <1>2, <1>3, <1>4 DEF Reachable

(* Without cut writes and oversized records every record is reachable.     *)
LEMMA CleanReachable ==
  ASSUME TypeOK, Clean, NEW i \in 1 .. Len(laid)
  PROVE  Reachable(i)
<1>1. DOMAIN laid = 1 .. Len(laid) /\ Len(laid) \in Nat
  BY LenProperties DEF TypeOK
<1>2. \A m \in 1 .. i : m \in DOMAIN laid
  BY <1>1
<1>3. QED
  BY <1>2 DEF Clean, Reachable

(* A reachable record that begins at recover()'s position is accepted, is  *)
(* identified, and is the next entry.                                      *)
LEMMA NextRecord ==
  ASSUME TypeOK, Layout, NEW m \in 0 .. Len(laid), m + 1 \in 1 .. Len(laid),
         Reachable(m + 1), scan.pos = Edge(laid, m)
  PROVE  /\ RecordAt(log, scan.pos)
         /\ IdsAt(log, scan.pos) = {log[scan.pos + 1].span}
         /\ log[scan.pos + 1].part = 1
         /\ laid[m + 1] = [span |-> log[scan.pos + 1].span, offset |-> scan.pos]
         /\ scan.pos + Size[log[scan.pos + 1].span] = Edge(laid, m + 1)
<1> DEFINE e == laid[m + 1]
<1>1. laid \in Seq(Entry) /\ DOMAIN laid = 1 .. Len(laid) /\ Len(laid) \in Nat
      /\ Len(log) \in Nat
  BY LenProperties DEF TypeOK
<1>2. /\ e \in Entry /\ e.offset \in Nat /\ e.span \in Spans
      /\ Size[e.span] \in Nat /\ Size[e.span] >= 3
      /\ End(e) = e.offset + Size[e.span]
  BY <1>1, EntryFacts
<1>3. Intact(log, e) /\ End(e) <= Len(log)
  BY EndsInLog
<1>4. e.offset = scan.pos
  <2>1. e.offset = Edge(laid, (m + 1) - 1)
    BY <1>1 DEF Layout, Records, Reachable
  <2>2. (m + 1) - 1 = m
    BY <1>1
  <2>3. QED
    BY <2>1, <2>2
<1>5. Size[e.span] <= MaxRecord
  <2>1. m + 1 \in 1 .. m + 1
    BY <1>1
  <2>2. QED
    BY <2>1 DEF Reachable
<1>6. Edge(laid, m + 1) = End(e)
  <2>1. m + 1 # 0
    BY <1>1
  <2>2. QED
    BY <2>1 DEF Edge
<1> HIDE DEF e
<1>7. /\ log[e.offset + 1] = [span |-> e.span, part |-> 1]
      /\ log[e.offset + 2] = [span |-> e.span, part |-> 2]
      /\ log[e.offset + 3] = [span |-> e.span, part |-> 3]
  <2>1. 1 \in 1 .. Size[e.span] /\ 2 \in 1 .. Size[e.span] /\ 3 \in 1 .. Size[e.span]
    BY <1>2
  <2>2. QED
    BY <1>3, <2>1 DEF Intact
<1>8. /\ log[scan.pos + 1].span = e.span /\ log[scan.pos + 1].part = 1
      /\ log[scan.pos + 2] = [span |-> e.span, part |-> 2]
      /\ log[scan.pos + 3] = [span |-> e.span, part |-> 3]
  BY <1>4, <1>7
<1>9. scan.pos < Len(log) /\ scan.pos + Size[e.span] <= Len(log)
  BY <1>1, <1>2, <1>3, <1>4
<1>10. RecordAt(log, scan.pos)
  BY <1>2, <1>5, <1>8, <1>9 DEF RecordAt
<1>11. IdsAt(log, scan.pos) = {e.span}
  BY <1>8 DEF IdsAt
<1>12. e = [span |-> e.span, offset |-> e.offset]
  BY <1>2 DEF Entry
<1>13. QED
  BY <1>2, <1>4, <1>6, <1>8, <1>10, <1>11, <1>12 DEF e

(* ScanFollowsLaid, of the locals sc of recover().                         *)
Follows(sc) ==
  /\ \A i \in 1 .. Len(laid) : Reachable(i) /\ i <= Len(sc.index) => sc.index[i] = laid[i]
  /\ \A i \in 1 .. Len(laid) :
       Reachable(i) /\ i > Len(sc.index) => sc.pos = Edge(laid, Len(sc.index))
  /\ Clean => /\ Len(sc.index) <= Len(laid)
              /\ sc.pos = Edge(laid, Len(sc.index)) /\ sc.count = Len(sc.index)

(* One record of recover(): it lands on the next one, or at the end.       *)
LEMMA ScanStep ==
  ASSUME TypeOK, Layout, Drained, ScanFollowsLaid, RecoverRecord
  PROVE  Follows(scan')
<1> DEFINE m == Len(scan.index)
           s == log[scan.pos + 1].span
           e == [span |-> s, offset |-> scan.pos]
<1>1. mode = "scanning" /\ RecordAt(File, scan.pos)
  BY DEF RecoverRecord
<1>2. /\ File = log /\ scan.pos \in Nat /\ Len(log) \in Nat /\ Born
      /\ s \in Spans
  BY <1>1, RecordHere DEF Born, Drained
<1>3. PICK id \in IdsAt(log, scan.pos) :
         scan' = [pos   |-> scan.pos + Size[s],
                  index |-> Pushed(scan.index, id, scan.pos),
                  count |-> scan.count + 1]
  BY <1>2 DEF RecoverRecord
<1>3a. /\ scan'.index = IF id = NoId THEN scan.index
                         ELSE Append(scan.index, [span |-> id, offset |-> scan.pos])
       /\ scan'.pos = scan.pos + Size[s] /\ scan'.count = scan.count + 1
  BY <1>3 DEF Pushed
<1>3b. id \in Spans \cup {Stray, NoId} /\ s # NoId
  BY <1>2, <1>3, SpanWalAssumption DEF IdsAt
<1>4. /\ laid \in Seq(Entry) /\ DOMAIN laid = 1 .. Len(laid) /\ Len(laid) \in Nat
      /\ scan.index \in Seq(Listed) /\ m \in Nat /\ scan.count \in Nat
      /\ id # NoId => [span |-> id, offset |-> scan.pos] \in Listed
  BY <1>2, <1>3b, LenProperties DEF TypeOK, Listed
<1>5. /\ \A i \in 1 .. Len(laid) : Reachable(i) /\ i <= m => scan.index[i] = laid[i]
      /\ \A i \in 1 .. Len(laid) : Reachable(i) /\ i > m => scan.pos = Edge(laid, m)
      /\ Clean => m <= Len(laid) /\ scan.pos = Edge(laid, m) /\ scan.count = m
  BY <1>1, <1>4 DEF ScanFollowsLaid
<1>6. /\ Len(scan'.index) = IF id = NoId THEN m ELSE m + 1
      /\ \A i \in 1 .. m : scan'.index[i] = scan.index[i]
      /\ id # NoId => scan'.index[m + 1] = [span |-> id, offset |-> scan.pos]
  <2>1. CASE id = NoId
    BY <1>3a, <2>1
  <2>2. CASE id # NoId
    BY <1>3a, <1>4, <2>2, AppendProperties
  <2>3. QED
    BY <2>1, <2>2
<1> HIDE DEF m, s, e
<1>7. ASSUME NEW i \in 1 .. Len(laid), Reachable(i), i > m
      PROVE  /\ m + 1 \in 1 .. Len(laid) /\ Reachable(m + 1)
             /\ id # NoId /\ laid[m + 1] = [span |-> id, offset |-> scan.pos]
             /\ scan.pos + Size[s] = Edge(laid, m + 1)
  <2>1. m + 1 \in 1 .. i /\ m \in 0 .. Len(laid)
    BY <1>4, <1>7
  <2>2. m + 1 \in 1 .. Len(laid) /\ Reachable(m + 1)
    BY <1>7, <2>1, ReachableDown
  <2>3. scan.pos = Edge(laid, m)
    BY <1>5, <1>7
  <2>4. /\ IdsAt(log, scan.pos) = {s} /\ laid[m + 1] = e
        /\ scan.pos + Size[s] = Edge(laid, m + 1)
    BY <2>1, <2>2, <2>3, NextRecord DEF s, e
  <2>5. id = s
    BY <1>3, <2>4
  <2>6. QED
    BY <1>3b, <2>2, <2>4, <2>5 DEF e
<1>9. ASSUME NEW i \in 1 .. Len(laid), Reachable(i), i <= Len(scan'.index)
      PROVE  scan'.index[i] = laid[i]
  <2>1. CASE i <= m
    <3>1. i \in 1 .. m /\ scan.index[i] = laid[i]
      BY <1>4, <1>5, <1>9, <2>1
    <3>2. QED
      BY <1>6, <3>1
  <2>2. CASE i > m
    <3>1. id # NoId /\ laid[m + 1] = [span |-> id, offset |-> scan.pos]
      BY <1>7, <1>9, <2>2
    <3>2. i = m + 1
      BY <1>4, <1>6, <1>9, <2>2, <3>1
    <3>3. QED
      BY <1>6, <3>1, <3>2
  <2>3. QED
    BY <1>4, <2>1, <2>2
<1>10. ASSUME NEW i \in 1 .. Len(laid), Reachable(i), i > Len(scan'.index)
       PROVE  scan'.pos = Edge(laid, Len(scan'.index))
  <2>1. i > m
    BY <1>4, <1>6, <1>10
  <2>2. Len(scan'.index) = m + 1 /\ scan.pos + Size[s] = Edge(laid, m + 1)
    BY <1>6, <1>7, <1>10, <2>1
  <2>3. QED
    BY <1>3a, <2>2
<1>11. ASSUME Clean
       PROVE  /\ Len(scan'.index) <= Len(laid)
              /\ scan'.pos = Edge(laid, Len(scan'.index))
              /\ scan'.count = Len(scan'.index)
  <2>1. m <= Len(laid) /\ scan.pos = Edge(laid, m) /\ scan.count = m
    BY <1>5, <1>11
  <2>2. m # Len(laid)
    <3>1. SUFFICES ASSUME m = Len(laid) PROVE FALSE
      OBVIOUS
    <3>2. tear = NoTear
      BY <1>11 DEF Clean
    <3>3. Len(log) = Edge(laid, Len(laid))
      BY <1>2, <3>2 DEF Layout
    <3>4. scan.pos < Len(log)
      BY <1>1, <1>2 DEF RecordAt
    <3>5. QED
      BY <1>2, <2>1, <3>1, <3>3, <3>4
  <2>n. m \in Nat /\ Len(laid) \in Nat
    BY <1>4
  <2>3. m + 1 \in 1 .. Len(laid) /\ m + 1 > m
    BY <2>n, <2>1, <2>2
  <2>4. Reachable(m + 1)
    BY <1>11, <2>3, CleanReachable
  <2>5. id # NoId /\ scan.pos + Size[s] = Edge(laid, m + 1)
    BY <1>7, <2>3, <2>4
  <2>6. QED
    BY <1>3a, <1>4, <1>6, <2>1, <2>3, <2>5
<1>12. QED
  BY <1>9, <1>10, <1>11 DEF Follows

(* Fields are not where a reachable record begins: recover() is past them. *)
LEMMA FieldsStep ==
  ASSUME TypeOK, Layout, Drained, ScanFollowsLaid, RecoverFields
  PROVE  Follows(scan')
<1> DEFINE m == Len(scan.index)
<1>1. mode = "scanning" /\ FieldsAt(File, scan.pos)
  BY DEF RecoverFields
<1>2. File = log /\ Born
  BY <1>1, FileIsLog DEF Drained, Born
<1>3. PICK id \in {NoId, Stray} : scan'.index = Pushed(scan.index, id, scan.pos)
  BY DEF RecoverFields
<1>4. /\ laid \in Seq(Entry) /\ DOMAIN laid = 1 .. Len(laid) /\ Len(laid) \in Nat
      /\ scan.index \in Seq(Listed) /\ m \in Nat /\ scan.pos \in Nat /\ Len(log) \in Nat
      /\ id # NoId => [span |-> id, offset |-> scan.pos] \in Listed
  BY LenProperties DEF TypeOK, Listed
<1>5. /\ \A i \in 1 .. Len(laid) : Reachable(i) /\ i <= m => scan.index[i] = laid[i]
      /\ \A i \in 1 .. Len(laid) : Reachable(i) /\ i > m => scan.pos = Edge(laid, m)
      /\ Clean => m <= Len(laid) /\ scan.pos = Edge(laid, m) /\ scan.count = m
  BY <1>1, <1>4 DEF ScanFollowsLaid
<1>6. /\ Len(scan'.index) \in {m, m + 1}
      /\ \A i \in 1 .. m : scan'.index[i] = scan.index[i]
  <2>1. CASE id = NoId
    BY <1>3, <2>1 DEF Pushed
  <2>2. CASE id # NoId
    BY <1>3, <1>4, <2>2, AppendProperties DEF Pushed
  <2>3. QED
    BY <2>1, <2>2
<1> HIDE DEF m
<1>7. ASSUME NEW i \in 1 .. Len(laid), Reachable(i) PROVE i <= m
  <2>1. SUFFICES ASSUME i > m PROVE FALSE
    BY <1>4
  <2>2. scan.pos = Edge(laid, m)
    BY <1>5, <1>7, <2>1
  <2>3. m + 1 \in 1 .. i /\ m \in 0 .. Len(laid)
    BY <1>4, <2>1
  <2>4. m + 1 \in 1 .. Len(laid) /\ Reachable(m + 1)
    BY <1>7, <2>3, ReachableDown
  <2>5. log[scan.pos + 1].part = 1
    BY <2>2, <2>3, <2>4, NextRecord
  <2>6. QED
    BY <1>1, <1>2, <2>5 DEF FieldsAt
<1>8. ~Clean
  <2>1. SUFFICES ASSUME Clean PROVE FALSE
    OBVIOUS
  <2>2. m <= Len(laid) /\ scan.pos = Edge(laid, m)
    BY <1>5, <2>1
  <2>3. m = Len(laid)
    <3> DEFINE n == Len(laid)
    <3>0. m \in Nat /\ n \in Nat /\ m <= n
      BY <1>4, <2>2
    <3>1. ~(m < n)
      <4>1. SUFFICES ASSUME m < n PROVE FALSE
        OBVIOUS
      <4>2. m + 1 \in 1 .. Len(laid)
        BY <3>0, <4>1
      <4>3. m + 1 <= m
        BY <1>7, <2>1, <4>2, CleanReachable
      <4>4. QED
        BY <1>4, <4>3
    <3> HIDE DEF n
    <3>2. m = n
      BY <3>0, <3>1
    <3>3. QED
      BY <3>2 DEF n
  <2>4. Len(log) = Edge(laid, Len(laid))
    BY <1>2, <2>1 DEF Layout, Clean
  <2>5. scan.pos < Len(log)
    BY <1>1, <1>2 DEF FieldsAt
  <2>6. QED
    BY <1>4, <2>2, <2>3, <2>4, <2>5
<1>9. ASSUME NEW i \in 1 .. Len(laid), Reachable(i)
      PROVE  i <= Len(scan'.index) /\ scan'.index[i] = laid[i]
  <2>1. i \in 1 .. m
    BY <1>4, <1>7, <1>9
  <2>2. scan'.index[i] = laid[i]
    BY <1>5, <1>6, <1>9, <2>1
  <2>3. QED
    BY <1>4, <1>6, <2>1, <2>2
<1>10. Len(scan'.index) \in Nat
  BY <1>4, <1>6
<1>11. QED
  BY <1>8, <1>9, <1>10 DEF Follows

(* Every step keeps the scan on the records.                               *)
LEMMA ScanNext ==
  ASSUME TypeOK, Layout, Drained, ScanFollowsLaid, [Next]_vars
  PROVE  ScanFollowsLaid'
<1>1. CASE mode' # "scanning"
  BY <1>1 DEF ScanFollowsLaid
<1>2. CASE UNCHANGED vars
  BY <1>2 DEF vars, ScanFollowsLaid, Reachable, Clean, Edge, End
<1>3. CASE RecoverBegin \/ RecoverRecord \/ RecoverFields
  <2>1. laid' = laid /\ tear' = tear
    BY <1>3 DEF RecoverBegin, RecoverRecord, RecoverFields, history
  <2>2. DOMAIN laid = 1 .. Len(laid) /\ Len(laid) \in Nat
    BY LenProperties DEF TypeOK
  <2>3. Follows(scan')
    <3>1. CASE RecoverBegin
      <4>1. scan'.index = << >> /\ scan'.pos = HeaderLen /\ scan'.count = 0
        BY <3>1 DEF RecoverBegin
      <4>2. Len(scan'.index) = 0 /\ scan'.pos = Edge(laid, 0)
        BY <4>1 DEF Edge
      <4>3. QED
        BY <2>2, <4>1, <4>2 DEF Follows
    <3>2. CASE RecoverRecord
      BY <3>2, ScanStep
    <3>3. CASE RecoverFields
      BY <3>3, FieldsStep
    <3>4. QED
      BY <1>3, <3>1, <3>2, <3>3
  <2>4. QED
    BY <2>1, <2>2, <2>3 DEF Follows, ScanFollowsLaid, Reachable, Clean, Edge, End
<1>4. CASE mode' = "scanning" /\ ~UNCHANGED vars
  <2>1. RecoverBegin \/ RecoverRecord \/ RecoverFields
    BY <1>4, CrashDrains DEF Next, OpenNew, WriteHeader, OpenExisting, AppendSpan, Flush,
       RecoverFails, RecoverEnd, Seal, Close, NoHandle
  <2>2. QED
    BY <1>3, <2>1
<1>5. QED
  BY <1>1, <1>2, <1>4

----------------------------------------------------------------------------
(* The index of a synchronised handle.                                     *)

(* What recover() leaves when its loop ends.                               *)
LEMMA RecoverLeaves ==
  ASSUME TypeOK, Layout, Drained, ScanFollowsLaid, RecoverEnd
  PROVE  /\ index' = scan.index /\ recordCount' = scan.count
         /\ laid' = laid /\ tear' = tear
         /\ \A i \in 1 .. Len(laid) :
              Reachable(i) => i <= Len(scan.index) /\ scan.index[i] = laid[i]
         /\ Clean => scan.index = laid /\ scan.count = Len(laid)
<1> DEFINE m == Len(scan.index)
<1>1. /\ mode = "scanning" /\ ~RecordAt(File, scan.pos)
      /\ index' = scan.index /\ recordCount' = scan.count /\ laid' = laid /\ tear' = tear
  BY DEF RecoverEnd, history
<1>2. File = log
  BY <1>1, FileIsLog DEF Drained
<1>3. /\ laid \in Seq(Entry) /\ DOMAIN laid = 1 .. Len(laid) /\ Len(laid) \in Nat
      /\ scan.index \in Seq(Listed) /\ m \in Nat
  BY LenProperties DEF TypeOK
<1>4. /\ \A i \in 1 .. Len(laid) : Reachable(i) /\ i <= m => scan.index[i] = laid[i]
      /\ \A i \in 1 .. Len(laid) : Reachable(i) /\ i > m => scan.pos = Edge(laid, m)
      /\ Clean => m <= Len(laid) /\ scan.pos = Edge(laid, m) /\ scan.count = m
  BY <1>1, <1>3 DEF ScanFollowsLaid
<1> HIDE DEF m
<1>5. ASSUME NEW i \in 1 .. Len(laid), Reachable(i) PROVE i <= m
  <2>1. SUFFICES ASSUME i > m PROVE FALSE
    BY <1>3
  <2>2. scan.pos = Edge(laid, m)
    BY <1>4, <1>5, <2>1
  <2>3. m + 1 \in 1 .. i /\ m \in 0 .. Len(laid)
    BY <1>3, <2>1
  <2>4. m + 1 \in 1 .. Len(laid) /\ Reachable(m + 1)
    BY <1>5, <2>3, ReachableDown
  <2>5. RecordAt(log, scan.pos)
    BY <2>2, <2>3, <2>4, NextRecord
  <2>6. QED
    BY <1>1, <1>2, <2>5
<1>6. ASSUME Clean PROVE scan.index = laid /\ scan.count = Len(laid)
  <2>1. m <= Len(laid) /\ scan.count = m
    BY <1>4, <1>6
  <2>2. \A i \in 1 .. Len(laid) : Reachable(i)
    BY <1>6, CleanReachable
  <2>3. m = Len(laid)
    <3>1. CASE Len(laid) = 0
      BY <1>3, <2>1, <3>1
    <3>2. CASE Len(laid) # 0
      <4>1. Len(laid) \in 1 .. Len(laid)
        BY <1>3, <3>2
      <4>2. Len(laid) <= m
        BY <1>5, <2>2, <4>1
      <4>3. m \in Nat /\ Len(laid) \in Nat
        BY <1>3
      <4>4. QED
        BY <2>1, <4>2, <4>3
    <3>3. QED
      BY <3>1, <3>2
  <2>4. \A i \in 1 .. Len(laid) : scan.index[i] = laid[i]
    BY <1>4, <2>2, <1>5
  <2>5. scan.index = laid
    BY <1>3, <2>3, <2>4, SeqEqual DEF m
  <2>6. QED
    BY <2>1, <2>3, <2>5
<1>7. QED
  BY <1>1, <1>4, <1>5, <1>6 DEF m

(* An empty file has no records.                                           *)
LEMMA EmptyLog ==
  ASSUME TypeOK, Layout, log = << >>
  PROVE  laid = << >>
<1>1. laid \in Seq(Entry) /\ Len(laid) \in Nat /\ Len(log) = 0
  BY LenProperties DEF TypeOK
<1>2. ASSUME Len(laid) # 0 PROVE FALSE
  <2>1. 1 \in 1 .. Len(laid)
    BY <1>1, <1>2
  <2>2. /\ End(laid[1]) <= 0 /\ laid[1].offset \in Nat
        /\ Size[laid[1].span] \in Nat /\ Size[laid[1].span] >= 3
        /\ End(laid[1]) = laid[1].offset + Size[laid[1].span]
    BY <1>1, <2>1, EndsInLog, EntryFacts
  <2>3. QED
    BY <2>2
<1>3. QED
  BY <1>1, <1>2, EmptySeq

(* What is true of a synchronised handle at the same time.                 *)
Synced == OffsetInSync /\ IndexIsLog /\ SurvivorsIndexed

(* An append keeps the index of a ready handle complete.                   *)
LEMMA ReadyAppend ==
  ASSUME TypeOK, Layout, Drained, Synced, NEW s \in Spans, AppendSpan(s)
  PROVE  IndexIsLog' /\ SurvivorsIndexed'
<1>1. /\ mode = "ready" /\ tear' = tear
      /\ laid' = Append(laid, EntryAtEnd(s)) /\ recordCount' = recordCount + 1
      /\ index' = Append(index, [span |-> s, offset |-> currentOffset])
  BY DEF AppendSpan, EntryAtEnd
<1>2. index' = Append(index, EntryAtEnd(s))
  BY <1>1 DEF Synced, OffsetInSync, EntryAtEnd
<1>3. /\ Len(laid) \in Nat /\ Len(log) \in Nat
      /\ EntryAtEnd(s) \in Entry
      /\ laid' \in Seq(Entry) /\ Len(laid') = Len(laid) + 1
      /\ \A i \in 1 .. Len(laid) : laid'[i] = laid[i]
      /\ laid'[Len(laid) + 1] = EntryAtEnd(s)
  BY <1>1, ExtendedType
<1>4. /\ DOMAIN laid' = 1 .. Len(laid) + 1 /\ DOMAIN laid = 1 .. Len(laid)
      /\ index \in Seq(Listed) /\ Len(index) \in Nat
      /\ EntryAtEnd(s) \in Listed
      /\ written <= Len(log) /\ written \in Nat
  BY <1>3, LenProperties DEF TypeOK, Entry, Listed
<1>5. /\ Len(index') = Len(index) + 1
      /\ \A i \in 1 .. Len(index) : index'[i] = index[i]
  BY <1>2, <1>3, <1>4, AppendProperties
<1>6. ASSUME Clean' PROVE index' = laid' /\ recordCount' = Len(laid')
  <2>1. tear = NoTear
    BY <1>1, <1>6 DEF Clean
  <2>2. \A i \in 1 .. Len(laid) + 1 : Size[laid'[i].span] <= MaxRecord
    BY <1>4, <1>6 DEF Clean
  <2>3. ASSUME NEW i \in 1 .. Len(laid) PROVE Size[laid[i].span] <= MaxRecord
    <3>1. i \in 1 .. Len(laid) + 1 /\ laid'[i] = laid[i]
      BY <1>3
    <3>2. QED
      BY <2>2, <3>1
  <2>4. Clean
    BY <1>4, <2>1, <2>3 DEF Clean
  <2>5. index = laid /\ recordCount = Len(laid)
    BY <1>1, <2>4 DEF Synced, IndexIsLog
  <2>6. QED
    BY <1>1, <1>2, <1>3, <2>5
<1>7. ASSUME NEW i \in DOMAIN laid', Reachable(i)'
      PROVE  i <= Len(index') /\ index'[i] = laid'[i]
  <2>1. /\ tear = NoTear \/ laid'[i].offset < tear
        /\ \A j \in 1 .. i : Size[laid'[j].span] <= MaxRecord
    BY <1>1, <1>7 DEF Reachable
  <2>2. CASE i \in 1 .. Len(laid)
    <3>1. laid'[i] = laid[i]
      BY <1>3, <2>2
    <3>2. ASSUME NEW j \in 1 .. i PROVE Size[laid[j].span] <= MaxRecord
      <4>1. j \in 1 .. Len(laid)
        BY <1>3, <2>2
      <4>2. laid'[j] = laid[j]
        BY <1>3, <4>1
      <4>3. QED
        BY <2>1, <4>2
    <3>3. Reachable(i)
      BY <2>1, <3>1, <3>2 DEF Reachable
    <3>4. i <= Len(index) /\ index[i] = laid[i]
      BY <1>1, <1>4, <2>2, <3>3 DEF Synced, SurvivorsIndexed
    <3>5. i \in 1 .. Len(index)
      BY <1>3, <1>4, <2>2, <3>4
    <3>6. index'[i] = index[i]
      BY <1>5, <3>5
    <3>7. i <= Len(index')
      BY <1>4, <1>5, <3>5
    <3>8. QED
      BY <3>1, <3>4, <3>6, <3>7
  <2>3. CASE i = Len(laid) + 1
    <3>1. laid'[i].offset = Len(log)
      BY <1>3, <2>3 DEF EntryAtEnd
    <3>2. tear = NoTear
      <4>1. CASE tear \in Nat
        <5>1. tear <= written
          BY DEF Layout
        <5>2. QED
          BY <1>3, <1>4, <2>1, <3>1, <4>1, <5>1
      <4>2. QED
        BY <4>1, TearType
    <3>3. Clean'
      BY <1>1, <1>4, <2>1, <2>3, <3>2 DEF Clean
    <3>4. index' = laid'
      BY <1>6, <3>3
    <3>5. i <= Len(laid')
      BY <1>3, <2>3
    <3>6. QED
      BY <3>4, <3>5
  <2>4. QED
    BY <1>3, <1>4, <2>2, <2>3
<1>8. QED
  BY <1>6, <1>7 DEF IndexIsLog, SurvivorsIndexed

(* Every step keeps the index of a ready handle complete.                  *)
LEMMA ReadyNext ==
  ASSUME TypeOK, Layout, Drained, ScanFollowsLaid, Synced, [Next]_vars
  PROVE  IndexIsLog' /\ SurvivorsIndexed'
<1>1. CASE mode' # "ready"
  BY <1>1 DEF IndexIsLog, SurvivorsIndexed
<1>2. CASE WriteHeader \/ (OpenExisting /\ mode' = "ready")
  <2>1. index' = << >> /\ recordCount' = 0 /\ laid' = << >>
    <3>1. index' = index /\ recordCount' = recordCount /\ laid' = laid
      BY <1>2 DEF WriteHeader, OpenExisting, history
    <3>2. index = << >> /\ recordCount = 0
      BY <1>2 DEF WriteHeader, OpenExisting, Drained
    <3>3. laid = << >>
      BY <1>2, EmptyLog DEF WriteHeader, OpenExisting, Drained, Born
    <3>4. QED
      BY <3>1, <3>2, <3>3
  <2>2. Len(<< >>) = 0 /\ DOMAIN << >> = {}
    OBVIOUS
  <2>3. QED
    BY <2>1, <2>2 DEF IndexIsLog, SurvivorsIndexed
<1>3. ASSUME NEW s \in Spans, AppendSpan(s) PROVE IndexIsLog' /\ SurvivorsIndexed'
  BY <1>3, ReadyAppend
<1>4. CASE Flush \/ Seal \/ UNCHANGED vars
  <2>1. /\ mode' = mode /\ index' = index /\ recordCount' = recordCount
        /\ laid' = laid /\ tear' = tear
    BY <1>4 DEF Flush, Seal, vars
  <2>2. QED
    BY <2>1 DEF Synced, IndexIsLog, SurvivorsIndexed, Clean, Reachable
<1>5. CASE RecoverEnd
  <2>1. /\ index' = scan.index /\ recordCount' = scan.count
        /\ laid' = laid /\ tear' = tear
        /\ \A i \in 1 .. Len(laid) :
             Reachable(i) => i <= Len(scan.index) /\ scan.index[i] = laid[i]
        /\ Clean => scan.index = laid /\ scan.count = Len(laid)
    BY <1>5, RecoverLeaves
  <2>2. DOMAIN laid = 1 .. Len(laid)
    BY LenProperties DEF TypeOK
  <2>3. QED
    BY <2>1, <2>2 DEF IndexIsLog, SurvivorsIndexed, Clean, Reachable
<1>6. QED
  BY <1>1, <1>2, <1>3, <1>4, <1>5, CrashDrains DEF Next, OpenNew, RecoverBegin, RecoverFails,
     RecoverRecord, RecoverFields, Close, NoHandle

----------------------------------------------------------------------------
(* A segment stays what it was.                                            *)

(* A step that lays down or takes away records behind the safe ones.       *)
LEMMA SealedKept ==
  ASSUME TypeOK, SealedInFile, sealed' = sealed,
         tear' = NoTear => tear = NoTear,
         safe' \in Nat, safe' >= safe, \A i \in 1 .. safe : laid'[i] = laid[i]
  PROVE  SealedInFile'
<1>1. safe \in Nat /\ sealed.records \in Nat
  BY LenProperties DEF TypeOK
<1>2. SUFFICES ASSUME tear' = NoTear, \A i \in 1 .. safe' : Size[laid'[i].span] <= MaxRecord
               PROVE  /\ sealed'.records <= safe'
                      /\ sealed'.entries = FirstRecords(sealed.records)'
  BY DEF SealedInFile
<1>3. ASSUME NEW i \in 1 .. safe PROVE Size[laid[i].span] <= MaxRecord
  <2>1. i \in 1 .. safe' /\ laid'[i] = laid[i]
    BY <1>1
  <2>2. QED
    BY <1>2, <2>1
<1>4. /\ sealed.records <= safe
      /\ sealed.entries = FirstRecords(sealed.records)
  BY <1>2, <1>3 DEF SealedInFile
<1>5. \A i \in 1 .. sealed.records : laid'[i] = laid[i]
  <2>1. \A i \in 1 .. sealed.records : i \in 1 .. safe
    BY <1>1, <1>4
  <2>2. QED
    BY <2>1
<1>6. FirstRecords(sealed.records)' = FirstRecords(sealed.records)
  BY <1>5 DEF FirstRecords
<1>7. sealed'.records <= safe'
  BY <1>1, <1>4
<1>8. QED
  BY <1>4, <1>6, <1>7

(* seal() writes what is safe.                                             *)
LEMMA SealSeals ==
  ASSUME TypeOK, Layout, Synced, Seal
  PROVE  SealedInFile'
<1>1. mode = "ready" /\ safe' = Len(laid) /\ laid' = laid /\ tear' = tear
  BY DEF Seal
<1>2. PICK others \in SUBSET Torn :
         sealed' = [entries |-> Decoded(log, others), records |-> recordCount]
  BY DEF Seal
<1>3. DOMAIN laid = 1 .. Len(laid)
  BY LenProperties DEF TypeOK
<1>4. SUFFICES ASSUME tear = NoTear, \A i \in 1 .. Len(laid) : Size[laid[i].span] <= MaxRecord
               PROVE  /\ sealed'.records <= Len(laid)
                      /\ sealed'.entries = FirstRecords(sealed'.records)
  BY <1>1 DEF SealedInFile, FirstRecords
<1>5. index = laid /\ recordCount = Len(laid)
  BY <1>1, <1>3, <1>4 DEF Synced, IndexIsLog, Clean
<1>6. \A i \in 1 .. Len(laid) : Intact(log, laid[i])
  BY EndsInLog
<1>7. others = {}
  BY <1>3, <1>5, <1>6 DEF Torn
<1>8. Decoded(log, others) = FirstRecords(Len(laid))
  BY <1>3, <1>5, <1>6, <1>7 DEF Decoded, FirstRecords
<1>9. sealed'.records = Len(laid) /\ Len(laid) \in Nat
  BY <1>2, <1>5, LenProperties DEF TypeOK
<1>10. QED
  BY <1>2, <1>8, <1>9

(* Every step keeps what was sealed among the first records.               *)
LEMMA SealedNext ==
  ASSUME TypeOK, Layout, Drained, Synced, SealedInFile, [Next]_vars
  PROVE  SealedInFile'
<1>1. safe \in Nat /\ safe <= Len(laid) /\ Len(laid) \in Nat
  BY LenProperties DEF TypeOK
<1>2. CASE OpenNew \/ WriteHeader \/ OpenExisting \/ RecoverBegin \/ RecoverFails
           \/ RecoverRecord \/ RecoverFields \/ RecoverEnd \/ UNCHANGED vars
  <2>1. laid' = laid /\ tear' = tear /\ safe' = safe /\ sealed' = sealed
    BY <1>2 DEF OpenNew, WriteHeader, OpenExisting, RecoverBegin, RecoverFails,
                RecoverRecord, RecoverFields, RecoverEnd, history, vars
  <2>2. QED
    BY <2>1 DEF SealedInFile, FirstRecords
<1>3. ASSUME NEW s \in Spans, AppendSpan(s) PROVE SealedInFile'
  <2>1. /\ laid' = Append(laid, EntryAtEnd(s)) /\ tear' = tear /\ sealed' = sealed
        /\ safe' = Len(laid) + 1 \/ safe' = Len(laid) \/ safe' = safe
    BY <1>3 DEF AppendSpan, EntryAtEnd
  <2>2. \A i \in 1 .. Len(laid) : laid'[i] = laid[i]
    BY <2>1, ExtendedType
  <2>3. safe' \in Nat /\ safe' >= safe
    BY <1>1, <2>1
  <2>4. \A i \in 1 .. safe : laid'[i] = laid[i]
    BY <1>1, <2>2
  <2>5. QED
    BY <2>1, <2>3, <2>4, SealedKept
<1>4. CASE Flush \/ Close
  <2>1. laid' = laid /\ tear' = tear /\ sealed' = sealed /\ safe' = Len(laid)
    BY <1>4 DEF Flush, Close
  <2>2. safe' \in Nat /\ safe' >= safe
    BY <1>1, <2>1
  <2>3. QED
    BY <2>1, <2>2, SealedKept
<1>5. CASE Seal
  BY <1>5, SealSeals
<1>6. CASE CrashBetween \/ CrashTorn
  <2>1. PICK cells, recs, k, n : Cut(cells, recs, k, n)
    BY <1>6, CrashCuts
  <2>2. /\ cells \in Seq(Cell) /\ recs \in Seq(Entry)
        /\ k \in 0 .. Len(cells) /\ n \in 0 .. Len(recs) /\ safe <= n
        /\ CutTo(cells, recs, k, n)
    BY <2>1 DEF Cut
  <2>3. safe' = n /\ \A i \in 1 .. n : laid'[i] = recs[i]
    BY <2>2, CutToShape
  <2>4. tear' = NoTear => tear = NoTear
    <3>1. tear' = IF tear = NoTear /\ k # Edge(recs, n) THEN Edge(recs, n) ELSE tear
      BY <2>2 DEF CutTo
    <3>2. QED
      BY <3>1
  <2>5. \A i \in 1 .. Len(laid) : recs[i] = laid[i]
    BY <2>1, ExtendedType DEF Cut
  <2>6. safe' \in Nat /\ safe' >= safe
    BY <1>1, <2>2, <2>3
  <2>7. ASSUME NEW i \in 1 .. safe PROVE laid'[i] = laid[i]
    <3>1. i \in 1 .. n /\ i \in 1 .. Len(laid)
      BY <1>1, <2>2
    <3>2. QED
      BY <2>3, <2>5, <3>1
  <2>8. sealed' = sealed
    BY <1>6, CrashDrains
  <2>9. QED
    BY <2>4, <2>6, <2>7, <2>8, SealedKept
<1>7. CASE CrashCreating
  <2>1. tear' # NoTear
    BY <1>7 DEF CrashCreating, NoTear
  <2>2. QED
    BY <2>1 DEF SealedInFile
<1>8. QED
  BY <1>2, <1>3, <1>4, <1>5, <1>6, <1>7 DEF Next

----------------------------------------------------------------------------
(* The whole invariant.                                                    *)

(* The invariant holds of no file ...                                      *)
LEMMA IInvInit == Init => IInv
<1> SUFFICES ASSUME Init PROVE IInv
  OBVIOUS
<1>1. TypeOK /\ Layout /\ Drained /\ OffsetInSync
  BY TypeInit, LayoutInit, IndexInit
<1>2. /\ mode = "down" /\ laid = << >> /\ DOMAIN laid = {}
      /\ sealed.records = 0 /\ sealed.entries = {} /\ safe = 0
  BY DEF Init, NoSeal
<1>3. SafeIsWritten /\ ScanFollowsLaid /\ IndexIsLog /\ SurvivorsIndexed
  BY <1>2 DEF SafeIsWritten, ScanFollowsLaid, IndexIsLog, SurvivorsIndexed
<1>4. SealedInFile
  BY <1>2 DEF SealedInFile, FirstRecords
<1>5. TearAtEdge /\ ScanOnRecords /\ IndexInLog /\ IndexPointsAtRecords
  BY <1>2 DEF Init, TearAtEdge, ScanOnRecords, IndexInLog, IndexPointsAtRecords
<1>6. QED
  BY <1>1, <1>3, <1>4, <1>5 DEF IInv

(* ... and every step keeps it.                                            *)
LEMMA IInvNext == IInv /\ [Next]_vars => IInv'
<1> SUFFICES ASSUME IInv, [Next]_vars PROVE IInv'
  OBVIOUS
<1>1. /\ TypeOK /\ Drained /\ Layout /\ SafeIsWritten /\ ScanFollowsLaid /\ SealedInFile
      /\ OffsetInSync /\ Walking /\ Synced
  BY DEF IInv, Synced, Walking
<1>2. TypeOK' /\ Drained' /\ OffsetInSync'
  BY <1>1, IndexNext
<1>3. Layout'
  BY <1>1, LayoutNext
<1>4. SafeIsWritten'
  BY <1>1, SafeNext
<1>5. ScanFollowsLaid'
  BY <1>1, ScanNext
<1>6. IndexIsLog' /\ SurvivorsIndexed'
  BY <1>1, ReadyNext
<1>7. SealedInFile'
  BY <1>1, SealedNext
<1>8. Walking'
  BY <1>1, WalkNext
<1>9. QED
  BY <1>2, <1>3, <1>4, <1>5, <1>6, <1>7, <1>8 DEF IInv, Walking

(* The records of live.nxsw lie one after the other up to the first cut    *)
(* write, recover() walks exactly over them, and nothing a segment was     *)
(* made of leaves the file.                                                *)
LEMMA IInvHolds == SafetySpec => []IInv
<1>1. QED
  BY IInvInit, IInvNext, PTL DEF SafetySpec

(* A look-up is never led astray among complete records: every entry that  *)
(* append() or recover() put in the index is a complete record under its   *)
(* own identity, or lies behind the first cut write where no complete      *)
(* record begins, and no record is listed twice.                           *)
THEOREM IndexOnRecords == SafetySpec => []IndexPointsAtRecords
<1>1. IInv => IndexPointsAtRecords
  BY DEF IInv
<1>2. QED
  BY <1>1, IInvHolds, PTL

(* The index that append() extends and recover() rebuilds is the log, as   *)
(* long as no write was cut and no record is above MAX_RECORD_BYTES.       *)
THEOREM IndexIsTheLog == SafetySpec => []IndexIsLog
<1>1. IInv => IndexIsLog
  BY DEF IInv
<1>2. QED
  BY <1>1, IInvHolds, PTL

(* Whatever is cut later, recover() finds again the spans that were laid   *)
(* down before the first cut write and the first oversized record.         *)
THEOREM SurvivorsFound == SafetySpec => []SurvivorsIndexed
<1>1. IInv => SurvivorsIndexed
  BY DEF IInv
<1>2. QED
  BY <1>1, IInvHolds, PTL

(* seal() flushes before it reads: what it put in a segment stays in the   *)
(* file through every later crash.                                         *)
THEOREM SealIsDurable == SafetySpec => []SealedIsDurable
<1>1. IInv => SealedIsDurable
  <2> SUFFICES ASSUME TypeOK, SealedInFile, Clean
               PROVE  /\ sealed.records <= safe
                      /\ sealed.entries = FirstRecords(sealed.records)
    BY DEF IInv, SealedIsDurable
  <2>1. DOMAIN laid = 1 .. Len(laid) /\ safe <= Len(laid) /\ safe \in Nat /\ Len(laid) \in Nat
    BY LenProperties DEF TypeOK
  <2>2. \A i \in 1 .. safe : i \in DOMAIN laid
    BY <2>1
  <2>3. tear = NoTear /\ \A i \in 1 .. safe : Size[laid[i].span] <= MaxRecord
    BY <2>2 DEF Clean
  <2>4. QED
    BY <2>3 DEF SealedInFile
<1>2. QED
  BY <1>1, IInvHolds, PTL

----------------------------------------------------------------------------
(* Crashes fall between two write calls, and no record is too long.        *)
Whole ==
  /\ CrashKinds \subseteq {"between"}
  /\ \A s \in Spans : Size[s] <= MaxRecord

(* The BufWriter spills whole records: what is in the file ends where the  *)
(* last safe record does, so that a crash leaves no part of one.           *)
SpillsWhole ==
  /\ tear = NoTear
  /\ Born => written = Edge(laid, safe)

(* An append leaves in the file all of the log's records or none of the    *)
(* buffered ones.                                                          *)
LEMMA WholeAppend ==
  ASSUME TypeOK, Layout, Drained, SpillsWhole, NEW s \in Spans, AppendSpan(s)
  PROVE  SpillsWhole'
<1>1. /\ mode = "ready" /\ Born
      /\ laid' = Append(laid, EntryAtEnd(s))
      /\ written' = WrittenAfter(Size[s])
      /\ safe' = IF written' > Len(log) THEN Len(laid) + 1
                 ELSE IF written' = Len(log) THEN Len(laid) ELSE safe
      /\ UNCHANGED <<exists, mode, tear>>
  BY DEF AppendSpan, Born, Drained, EntryAtEnd
<1>2. /\ Len(laid) \in Nat /\ Len(log) \in Nat /\ Size[s] \in Nat /\ Size[s] >= 3
      /\ \A i \in 1 .. Len(laid) : laid'[i] = laid[i]
      /\ laid'[Len(laid) + 1] = EntryAtEnd(s)
      /\ written \in 0 .. Len(log) /\ safe \in 0 .. Len(laid)
  BY <1>1, ExtendedType DEF TypeOK
<1>3. /\ Len(log) = Edge(laid, Len(laid)) /\ written = Edge(laid, safe)
  BY <1>1 DEF Layout, SpillsWhole
<1>4. /\ Edge(laid', Len(laid)) = Len(log) /\ Edge(laid', safe) = written
  <2>1. \A n \in 0 .. Len(laid) : Edge(laid', n) = Edge(laid, n)
    BY <1>2, EdgeKept
  <2>2. QED
    BY <1>2, <1>3, <2>1
<1>5. Edge(laid', Len(laid) + 1) = Len(log) + Size[s]
  <2>1. End(EntryAtEnd(s)) = Len(log) + Size[s]
    BY DEF End, EntryAtEnd
  <2>2. QED
    BY <1>2, <2>1 DEF Edge
<1>6. /\ written' = Len(log) + Size[s] \/ written' = Len(log) \/ written' = written
  BY <1>1, <1>2, WrittenAfterRange
<1>7. written' = Edge(laid', safe')
  <2>1. CASE written' = Len(log) + Size[s]
    BY <1>1, <1>2, <1>5, <2>1
  <2>2. CASE written' = Len(log)
    BY <1>1, <1>2, <1>4, <2>2
  <2>3. CASE written' = written /\ written # Len(log)
    BY <1>1, <1>2, <1>4, <2>3
  <2>4. QED
    BY <1>6, <2>1, <2>2, <2>3
<1>8. QED
  BY <1>1, <1>7 DEF SpillsWhole

(* A crash between two writes keeps what is in the file, which is whole.   *)
LEMMA WholeCrash ==
  ASSUME TypeOK, Drained, SpillsWhole, CrashBetween
  PROVE  SpillsWhole'
<1>1. Born /\ CutTo(log, laid, written, safe)
  BY CrashBorn DEF CrashBetween
<1>2. /\ written' = written /\ safe' = safe /\ safe \in 0 .. Len(laid)
      /\ \A i \in 1 .. safe : laid'[i] = laid[i]
  BY <1>1, CutToShape DEF TypeOK
<1>3. written = Edge(laid, safe)
  BY <1>1 DEF SpillsWhole
<1>4. tear' = NoTear
  BY <1>1, <1>3 DEF CutTo, SpillsWhole
<1>5. Edge(laid', safe) = Edge(laid, safe)
  BY <1>2, EdgeKept
<1>6. QED
  BY <1>2, <1>3, <1>4, <1>5 DEF SpillsWhole

(* Every step keeps it.                                                    *)
LEMMA WholeNext ==
  ASSUME Whole, TypeOK, Layout, Drained, SpillsWhole, [Next]_vars
  PROVE  SpillsWhole'
<1> USE DEF SpillsWhole, Born
<1>1. CASE OpenNew
  BY <1>1 DEF OpenNew, history
<1>2. CASE WriteHeader
  <2>1. laid = << >> /\ safe = 0 /\ Edge(laid, safe) = HeaderLen
    BY <1>2, EmptySeq DEF WriteHeader, Drained, TypeOK, Edge
  <2>2. QED
    BY <1>2, <2>1 DEF WriteHeader, history
<1>3. CASE OpenExisting
  BY <1>3 DEF OpenExisting, history
<1>4. ASSUME NEW s \in Spans, AppendSpan(s) PROVE SpillsWhole'
  BY <1>4, WholeAppend
<1>5. CASE Flush \/ Seal \/ Close
  <2>1. /\ written' = Len(log) /\ safe' = Len(laid) /\ UNCHANGED <<log, laid, tear, exists>>
        /\ Born
    BY <1>5 DEF Flush, Seal, Close, Drained
  <2>2. QED
    BY <2>1 DEF Layout
<1>6. CASE RecoverBegin \/ RecoverFails
  BY <1>6 DEF RecoverBegin, RecoverFails, history
<1>7. CASE RecoverRecord \/ RecoverFields \/ RecoverEnd
  BY <1>7 DEF RecoverRecord, RecoverFields, RecoverEnd, history
<1>8. CASE CrashBetween
  BY <1>8, WholeCrash
<1>9. ~CrashTorn /\ ~CrashCreating
  BY DEF CrashTorn, CrashCreating, Whole
<1>10. CASE UNCHANGED vars
  BY <1>10 DEF vars
<1>11. QED
  BY <1>1, <1>2, <1>3, <1>4, <1>5, <1>6, <1>7, <1>8, <1>9, <1>10 DEF Next

----------------------------------------------------------------------------
(* The refinement mapping.                                                 *)

Stored  == SpansOf(SubSeq(laid, 1, safe))
Pending == SpansOf(SubSeq(laid, safe + 1, Len(laid)))
View    == IF mode = "ready" THEN SpansOf(index) ELSE <<WalHeader>>

(* The spans of a list of entries.                                         *)
LEMMA SpansOfType ==
  ASSUME NEW recs \in Seq(Entry)
  PROVE  /\ SpansOf(recs) \in Seq(Spans) /\ Len(SpansOf(recs)) = Len(recs)
         /\ \A i \in 1 .. Len(recs) : SpansOf(recs)[i] = recs[i].span
         /\ SpansOf(recs) # <<WalHeader>>
<1>1. DOMAIN recs = 1 .. Len(recs) /\ Len(recs) \in Nat
  BY LenProperties
<1>2. \A i \in 1 .. Len(recs) : recs[i].span \in Spans
  BY EntryFacts
<1>3. SpansOf(recs) \in [1 .. Len(recs) -> Spans]
  BY <1>1, <1>2 DEF SpansOf
<1>4. SpansOf(recs) \in Seq(Spans)
  BY <1>1, <1>3, SeqDef
<1>5. Len(SpansOf(recs)) = Len(recs)
  <2>1. DOMAIN SpansOf(recs) = 1 .. Len(SpansOf(recs)) /\ Len(SpansOf(recs)) \in Nat
    BY <1>4, LenProperties
  <2>2. DOMAIN SpansOf(recs) = 1 .. Len(recs)
    BY <1>1 DEF SpansOf
  <2>3. ASSUME NEW a \in Nat, NEW b \in Nat, 1 .. a = 1 .. b PROVE a = b
    <3>1. \A i \in Int : i \in 1 .. a <=> i \in 1 .. b
      BY <2>3
    <3>2. a <= b \/ a < 1
      BY <3>1
    <3>3. b <= a \/ b < 1
      BY <3>1
    <3>4. QED
      BY <3>2, <3>3
  <2>4. QED
    BY <1>1, <2>1, <2>2, <2>3
<1>6. SpansOf(recs) # <<WalHeader>>
  <2> SUFFICES ASSUME SpansOf(recs) = <<WalHeader>> PROVE FALSE
    OBVIOUS
  <2>1. Len(<<WalHeader>>) = 1 /\ <<WalHeader>>[1] = WalHeader
    OBVIOUS
  <2>2. Len(SpansOf(recs)) = 1 /\ SpansOf(recs)[1] = WalHeader
    BY <2>1
  <2>3. 1 \in 1 .. Len(SpansOf(recs))
    BY <2>2
  <2>4. SpansOf(recs)[1] \in Spans
    BY <1>4, <2>3, ElementOfSeq
  <2>5. QED
    BY <2>2, <2>4, SpanWalAssumption
<1>7. QED
  BY <1>1, <1>4, <1>5, <1>6 DEF SpansOf

(* The spans of a stretch are a stretch of the spans.                      *)
LEMMA SpansOfStretch ==
  ASSUME NEW recs \in Seq(Entry), NEW m \in 1 .. Len(recs) + 1, NEW n \in 0 .. Len(recs)
  PROVE  SpansOf(SubSeq(recs, m, n)) = SubSeq(SpansOf(recs), m, n)
<1> DEFINE part == SubSeq(recs, m, n)
           spans == SubSeq(SpansOf(recs), m, n)
<1>1. /\ \A i \in m .. n : recs[i] \in Entry
      /\ Len(recs) \in Nat /\ m \in Int /\ n \in Int
  BY LenProperties, EntryFacts
<1>2. /\ part \in Seq(Entry) /\ Len(part) = IF m <= n THEN n - m + 1 ELSE 0
      /\ \A i \in 1 .. n - m + 1 : part[i] = recs[m + i - 1]
  BY <1>1, SubSeqProperties
<1>3. /\ SpansOf(recs) \in Seq(Spans) /\ Len(SpansOf(recs)) = Len(recs)
      /\ \A i \in 1 .. Len(recs) : SpansOf(recs)[i] = recs[i].span
  BY SpansOfType
<1>4. \A i \in m .. n : SpansOf(recs)[i] \in Spans
  BY <1>1, <1>3, ElementOfSeq
<1>5. /\ spans \in Seq(Spans) /\ Len(spans) = IF m <= n THEN n - m + 1 ELSE 0
      /\ \A i \in 1 .. n - m + 1 : spans[i] = SpansOf(recs)[m + i - 1]
  BY <1>1, <1>4, SubSeqProperties
<1>6. /\ SpansOf(part) \in Seq(Spans) /\ Len(SpansOf(part)) = Len(part)
      /\ \A i \in 1 .. Len(part) : SpansOf(part)[i] = part[i].span
  BY <1>2, SpansOfType
<1>7. ASSUME NEW i \in 1 .. Len(part) PROVE SpansOf(part)[i] = spans[i]
  <2>1. i \in 1 .. n - m + 1 /\ m + i - 1 \in 1 .. Len(recs)
    BY <1>1, <1>2
  <2>2. QED
    BY <2>1, <1>2, <1>3, <1>5, <1>6
<1>8. QED
  BY <1>2, <1>5, <1>6, <1>7, SeqEqual

(* What is stored and what is pending make up the log.                     *)
LEMMA StoredAndPending ==
  ASSUME NEW recs \in Seq(Entry), NEW n \in 0 .. Len(recs)
  PROVE  /\ SpansOf(SubSeq(recs, 1, n)) \o SpansOf(SubSeq(recs, n + 1, Len(recs))) = SpansOf(recs)
         /\ SpansOf(SubSeq(recs, 1, Len(recs))) = SpansOf(recs)
         /\ SpansOf(SubSeq(recs, Len(recs) + 1, Len(recs))) = << >>
<1>1. SpansOf(recs) \in Seq(Spans) /\ Len(SpansOf(recs)) = Len(recs) /\ Len(recs) \in Nat
  BY SpansOfType, LenProperties
<1>2. /\ SpansOf(SubSeq(recs, 1, n)) = SubSeq(SpansOf(recs), 1, n)
      /\ SpansOf(SubSeq(recs, n + 1, Len(recs))) = SubSeq(SpansOf(recs), n + 1, Len(recs))
  <2>1. /\ 1 \in 1 .. Len(recs) + 1 /\ n + 1 \in 1 .. Len(recs) + 1 /\ Len(recs) \in 0 .. Len(recs)
    BY <1>1
  <2>2. QED
    BY <2>1, SpansOfStretch
<1>3. SubSeq(SpansOf(recs), 1, n) \o SubSeq(SpansOf(recs), n + 1, Len(recs))
        = SubSeq(SpansOf(recs), 1, Len(recs))
  <2>1. /\ 1 \in 1 .. Len(SpansOf(recs)) + 1 /\ n \in 0 .. Len(SpansOf(recs)) /\ n \in 1 - 1 .. Len(SpansOf(recs))
        /\ Len(recs) \in n .. Len(SpansOf(recs))
    BY <1>1
  <2>2. QED
    BY <1>1, <2>1, ConcatAdjacentSubSeq
<1>4. SubSeq(SpansOf(recs), 1, Len(recs)) = SpansOf(recs)
  BY <1>1, SubSeqFull
<1>5. SubSeq(recs, 1, Len(recs)) = recs
  BY SubSeqFull
<1>6. SubSeq(recs, Len(recs) + 1, Len(recs)) = << >>
  BY <1>1, SubSeqEmpty
<1>7. SpansOf(<< >>) = << >>
  BY DEF SpansOf
<1>8. QED
  BY <1>2, <1>3, <1>4, <1>5, <1>6, <1>7

----------------------------------------------------------------------------
(* Stretches.                                                              *)

(* What a stretch of a sequence is made of.                                *)
LEMMA StretchFacts ==
  ASSUME NEW S, NEW q \in Seq(S), NEW i \in 1 .. Len(q) + 1, NEW j \in 0 .. Len(q)
  PROVE  /\ SubSeq(q, i, j) \in Seq(S)
         /\ Len(SubSeq(q, i, j)) = IF i <= j THEN j - i + 1 ELSE 0
         /\ \A k \in 1 .. j - i + 1 : SubSeq(q, i, j)[k] = q[i + k - 1]
<1>1. Len(q) \in Nat /\ i \in Int /\ j \in Int
  BY LenProperties
<1>2. \A k \in i .. j : q[k] \in S
  BY <1>1, ElementOfSeq
<1>3. QED
  BY <1>1, <1>2, SubSeqProperties

(* A stretch of what follows the first a elements.                         *)
LEMMA StretchOfRest ==
  ASSUME NEW S, NEW q \in Seq(S), NEW a \in 0 .. Len(q),
         NEW i \in 1 .. Len(q) - a + 1, NEW j \in 0 .. Len(q) - a
  PROVE  /\ SubSeq(SubSeq(q, a + 1, Len(q)), i, j) = SubSeq(q, a + i, a + j)
         /\ Len(SubSeq(q, a + 1, Len(q))) = Len(q) - a
<1> DEFINE rest == SubSeq(q, a + 1, Len(q))
<1>1. Len(q) \in Nat /\ a \in Nat /\ i \in Nat /\ j \in Nat
  BY LenProperties
<1>2. /\ a + 1 \in 1 .. Len(q) + 1 /\ Len(q) \in 0 .. Len(q)
      /\ a + i \in 1 .. Len(q) + 1 /\ a + j \in 0 .. Len(q)
  BY <1>1
<1>3. /\ rest \in Seq(S)
      /\ Len(rest) = IF a + 1 <= Len(q) THEN Len(q) - (a + 1) + 1 ELSE 0
      /\ \A k \in 1 .. Len(q) - (a + 1) + 1 : rest[k] = q[a + 1 + k - 1]
  BY <1>2, StretchFacts
<1>4. Len(rest) = Len(q) - a /\ \A k \in 1 .. Len(q) - a : rest[k] = q[a + k]
  <2>1. Len(rest) = Len(q) - a
    BY <1>1, <1>3
  <2>2. ASSUME NEW k \in 1 .. Len(q) - a PROVE rest[k] = q[a + k]
    <3>1. k \in 1 .. Len(q) - (a + 1) + 1 /\ a + 1 + k - 1 = a + k
      BY <1>1
    <3>2. QED
      BY <1>3, <3>1
  <2>3. QED
    BY <2>1, <2>2
<1> HIDE DEF rest
<1>5. i \in 1 .. Len(rest) + 1 /\ j \in 0 .. Len(rest)
  BY <1>4
<1>6. /\ SubSeq(rest, i, j) \in Seq(S)
      /\ Len(SubSeq(rest, i, j)) = IF i <= j THEN j - i + 1 ELSE 0
      /\ \A k \in 1 .. j - i + 1 : SubSeq(rest, i, j)[k] = rest[i + k - 1]
  BY <1>3, <1>5, StretchFacts
<1>7. /\ SubSeq(q, a + i, a + j) \in Seq(S)
      /\ Len(SubSeq(q, a + i, a + j)) = IF a + i <= a + j THEN a + j - (a + i) + 1 ELSE 0
      /\ \A k \in 1 .. a + j - (a + i) + 1 : SubSeq(q, a + i, a + j)[k] = q[a + i + k - 1]
  BY <1>2, StretchFacts
<1>8. Len(SubSeq(q, a + i, a + j)) = Len(SubSeq(rest, i, j))
  BY <1>1, <1>6, <1>7
<1>9. ASSUME NEW k \in 1 .. Len(SubSeq(rest, i, j))
      PROVE  SubSeq(rest, i, j)[k] = SubSeq(q, a + i, a + j)[k]
  <2>1. /\ k \in 1 .. j - i + 1 /\ k \in 1 .. a + j - (a + i) + 1
        /\ i + k - 1 \in 1 .. Len(q) - a /\ a + (i + k - 1) = a + i + k - 1
    BY <1>1, <1>6
  <2>2. SubSeq(rest, i, j)[k] = rest[i + k - 1]
    BY <1>6, <2>1
  <2>3. rest[i + k - 1] = q[a + (i + k - 1)]
    BY <1>4, <2>1
  <2>4. SubSeq(q, a + i, a + j)[k] = q[a + i + k - 1]
    BY <1>7, <2>1
  <2>5. QED
    BY <2>1, <2>2, <2>3, <2>4
<1>10. SubSeq(rest, i, j) = SubSeq(q, a + i, a + j)
  BY <1>6, <1>7, <1>8, <1>9, SeqEqual
<1>11. QED
  BY <1>4, <1>10 DEF rest

(* Appending behind the first a elements is appending behind all.          *)
LEMMA AppendRest ==
  ASSUME NEW S, NEW q \in Seq(S), NEW e \in S, NEW a \in 0 .. Len(q)
  PROVE  SubSeq(Append(q, e), a + 1, Len(q) + 1) = Append(SubSeq(q, a + 1, Len(q)), e)
<1> DEFINE p == Append(q, e)
           rest == SubSeq(q, a + 1, Len(q))
<1>1. /\ Len(q) \in Nat /\ a \in Nat
      /\ p \in Seq(S) /\ Len(p) = Len(q) + 1
      /\ \A k \in 1 .. Len(q) : p[k] = q[k]
      /\ p[Len(q) + 1] = e
  BY LenProperties, AppendProperties
<1>2. /\ a + 1 \in 1 .. Len(q) + 1 /\ Len(q) \in 0 .. Len(q)
      /\ a + 1 \in 1 .. Len(p) + 1 /\ Len(q) + 1 \in 0 .. Len(p)
  BY <1>1
<1>3. /\ rest \in Seq(S)
      /\ Len(rest) = IF a + 1 <= Len(q) THEN Len(q) - (a + 1) + 1 ELSE 0
      /\ \A k \in 1 .. Len(q) - (a + 1) + 1 : rest[k] = q[a + 1 + k - 1]
  BY <1>2, StretchFacts
<1>4. Len(rest) = Len(q) - a
  BY <1>1, <1>3
<1> HIDE DEF p
<1>5. /\ SubSeq(p, a + 1, Len(q) + 1) \in Seq(S)
      /\ Len(SubSeq(p, a + 1, Len(q) + 1))
           = IF a + 1 <= Len(q) + 1 THEN Len(q) + 1 - (a + 1) + 1 ELSE 0
      /\ \A k \in 1 .. Len(q) + 1 - (a + 1) + 1 :
           SubSeq(p, a + 1, Len(q) + 1)[k] = p[a + 1 + k - 1]
  BY <1>1, <1>2, StretchFacts
<1> HIDE DEF rest
<1>6. /\ Append(rest, e) \in Seq(S) /\ Len(Append(rest, e)) = Len(rest) + 1
      /\ \A k \in 1 .. Len(rest) : Append(rest, e)[k] = rest[k]
      /\ Append(rest, e)[Len(rest) + 1] = e
  BY <1>3, AppendProperties
<1>7. Len(SubSeq(p, a + 1, Len(q) + 1)) = Len(Append(rest, e))
  BY <1>1, <1>4, <1>5, <1>6
<1>8. ASSUME NEW k \in 1 .. Len(Append(rest, e))
      PROVE  SubSeq(p, a + 1, Len(q) + 1)[k] = Append(rest, e)[k]
  <2>1. /\ k \in 1 .. Len(q) + 1 - (a + 1) + 1 /\ a + 1 + k - 1 = a + k
        /\ k \in 1 .. Len(rest) \/ k = Len(rest) + 1
    BY <1>1, <1>4, <1>6
  <2>2. SubSeq(p, a + 1, Len(q) + 1)[k] = p[a + k]
    BY <1>5, <2>1
  <2>3. CASE k \in 1 .. Len(rest)
    <3>1. k \in 1 .. Len(q) - (a + 1) + 1 /\ a + k \in 1 .. Len(q)
      BY <1>1, <1>4, <2>3
    <3>2. QED
      BY <1>1, <1>3, <1>6, <2>1, <2>2, <2>3, <3>1
  <2>4. CASE k = Len(rest) + 1
    <3>1. a + k = Len(q) + 1
      BY <1>1, <1>4, <2>4
    <3>2. QED
      BY <1>1, <1>6, <2>2, <2>4, <3>1
  <2>5. QED
    BY <2>1, <2>3, <2>4
<1>9. QED
  BY <1>5, <1>6, <1>7, <1>8, SeqEqual DEF p, rest

(* Of a sequence in two parts, the first a elements and the rest, to which *)
(* e is appended, some of the rest moves to the first part: from a to b.   *)
LEMMA Spill ==
  ASSUME NEW S, NEW q \in Seq(S), NEW e \in S,
         NEW a \in 0 .. Len(q), NEW b \in a .. Len(q) + 1
  PROVE  LET rest == SubSeq(q, a + 1, Len(q))
             all == Append(rest, e)
         IN  \E n \in 0 .. Len(rest) + 1 :
               /\ SubSeq(Append(q, e), 1, b) = SubSeq(q, 1, a) \o SubSeq(all, 1, n)
               /\ SubSeq(Append(q, e), b + 1, Len(q) + 1) = SubSeq(all, n + 1, Len(all))
<1> DEFINE p == Append(q, e)
           rest == SubSeq(q, a + 1, Len(q))
           all == Append(rest, e)
           n == b - a
<1>1. Len(q) \in Nat /\ a \in Nat /\ b \in Nat
  BY LenProperties
<1>2. p \in Seq(S) /\ Len(p) = Len(q) + 1 /\ \A i \in 1 .. Len(q) : p[i] = q[i]
  BY AppendProperties
<1>3. Len(rest) = Len(q) - a
  <2>1. 1 \in 1 .. Len(q) - a + 1 /\ 0 \in 0 .. Len(q) - a
    BY <1>1
  <2>2. QED
    BY <2>1, StretchOfRest
<1>4. n \in 0 .. Len(rest) + 1 /\ n \in Nat
  BY <1>1, <1>3
<1>5. SubSeq(p, a + 1, Len(p)) = all
  BY <1>2, AppendRest
<1>6. /\ a \in 0 .. Len(p) /\ 1 \in 1 .. Len(p) - a + 1 /\ n \in 0 .. Len(p) - a
      /\ n + 1 \in 1 .. Len(p) - a + 1 /\ Len(p) - a \in 0 .. Len(p) - a
      /\ a + (Len(p) - a) = Len(p) /\ a + n = b /\ a + (n + 1) = b + 1
  BY <1>1, <1>2
<1> HIDE DEF p, n, all, rest
<1>7. SubSeq(all, 1, n) = SubSeq(p, a + 1, b) /\ Len(all) = Len(p) - a
  BY <1>2, <1>5, <1>6, StretchOfRest
<1>8. SubSeq(all, n + 1, Len(all)) = SubSeq(p, b + 1, Len(p))
  BY <1>2, <1>5, <1>6, <1>7, StretchOfRest
<1>9. SubSeq(p, 1, a) = SubSeq(q, 1, a)
  <2>1. /\ SubSeq(p, 1, a) \in Seq(S) /\ Len(SubSeq(p, 1, a)) = a
        /\ \A i \in 1 .. a : SubSeq(p, 1, a)[i] = p[i]
    BY <1>2, <1>6, PrefixType
  <2>2. /\ SubSeq(q, 1, a) \in Seq(S) /\ Len(SubSeq(q, 1, a)) = a
        /\ \A i \in 1 .. a : SubSeq(q, 1, a)[i] = q[i]
    BY PrefixType
  <2>3. \A i \in 1 .. a : p[i] = q[i]
    BY <1>1, <1>2
  <2>4. QED
    BY <2>1, <2>2, <2>3, SeqEqual
<1>10. SubSeq(p, 1, a) \o SubSeq(p, a + 1, b) = SubSeq(p, 1, b)
  <2>1. 1 \in 1 .. Len(p) + 1 /\ a \in 1 - 1 .. Len(p) /\ b \in a .. Len(p)
    BY <1>1, <1>2
  <2>2. QED
    BY <1>2, <2>1, ConcatAdjacentSubSeq
<1>11. QED
  BY <1>2, <1>4, <1>7, <1>8, <1>9, <1>10 DEF p, all, rest

----------------------------------------------------------------------------
(* The steps of the code, as steps of the promised log.                    *)

(* What the two invariants say in the terms of the mapping: a ready handle *)
(* lists the whole log, and without one nothing is pending.                *)
LEMMA Mapped ==
  ASSUME Whole, IInv, SpillsWhole
  PROVE  /\ laid \in Seq(Entry) /\ Len(laid) \in Nat /\ safe \in 0 .. Len(laid)
         /\ mode = "ready" => index = laid /\ View = SpansOf(laid) /\ View # <<WalHeader>>
         /\ mode # "ready" => View = <<WalHeader>> /\ safe = Len(laid)
         /\ Stored \o Pending = SpansOf(laid)
         /\ safe = Len(laid) => Stored = SpansOf(laid) /\ Pending = << >>
<1>1. /\ TypeOK /\ Drained /\ Layout /\ SafeIsWritten /\ IndexIsLog
      /\ laid \in Seq(Entry) /\ Len(laid) \in Nat /\ safe \in 0 .. Len(laid)
  BY LenProperties DEF IInv, TypeOK
<1>2. DOMAIN laid = 1 .. Len(laid)
  BY <1>1, LenProperties
<1>3. Clean
  <2>1. \A i \in DOMAIN laid : laid[i].span \in Spans
    BY <1>1, <1>2, EntryFacts
  <2>2. QED
    BY <2>1 DEF Clean, Whole, SpillsWhole
<1>4. mode = "ready" => index = laid
  BY <1>1, <1>3 DEF IndexIsLog
<1>5. SpansOf(laid) # <<WalHeader>>
  BY <1>1, SpansOfType
<1>6. mode # "ready" => safe = Len(laid)
  <2> SUFFICES ASSUME mode # "ready" PROVE safe = Len(laid)
    OBVIOUS
  <2>1. written = Len(log)
    BY <1>1 DEF Drained
  <2>2. \A i \in 1 .. Len(laid) : i <= safe
    BY <1>1, <1>2, <2>1, EndsInLog DEF SafeIsWritten
  <2>3. QED
    BY <1>1, <2>2
<1>7. Stored \o Pending = SpansOf(laid)
  BY <1>1, StoredAndPending DEF Stored, Pending
<1>8. safe = Len(laid) => Stored = SpansOf(laid) /\ Pending = << >>
  BY <1>1, StoredAndPending DEF Stored, Pending
<1>9. QED
  BY <1>1, <1>4, <1>5, <1>6, <1>7, <1>8 DEF View

(* Where a log of len records is cut.                                      *)
LEMMA EdgesOfStretch ==
  ASSUME NEW len \in Nat, NEW b \in 0 .. len
  PROVE  1 \in 1 .. len + 1 /\ b + 1 \in 1 .. len + 1 /\ len \in 0 .. len
OBVIOUS

(* append(): the spans that reach the file are the oldest buffered ones.   *)
LEMMA AppendKeepsPromise ==
  ASSUME Whole, IInv, SpillsWhole, IInv', SpillsWhole', NEW s \in Spans, AppendSpan(s)
  PROVE  Promise!AppendSpan(s)
<1> DEFINE seen == SpansOf(laid)
<1>1. /\ mode = "ready" /\ mode' = "ready"
      /\ laid' = Append(laid, EntryAtEnd(s))
      /\ safe' = IF written' > Len(log) THEN Len(laid) + 1
                 ELSE IF written' = Len(log) THEN Len(laid) ELSE safe
  BY DEF AppendSpan, EntryAtEnd
<1>0. index = laid /\ View = seen /\ View # <<WalHeader>>
  BY <1>1, Mapped
<1>2. laid \in Seq(Entry) /\ Len(laid) \in Nat /\ safe \in 0 .. Len(laid)
  BY Mapped
<1>n. /\ safe' \in safe .. Len(laid) + 1 /\ Len(laid) \in Nat /\ safe \in 0 .. Len(laid)
      /\ safe \in Nat /\ safe' \in Nat
      /\ safe' \in 0 .. Len(laid) + 1
  BY <1>1, <1>2
<1>3. /\ laid' \in Seq(Entry) /\ Len(laid') = Len(laid) + 1
      /\ \A i \in 1 .. Len(laid) : laid'[i] = laid[i]
      /\ laid'[Len(laid) + 1] = EntryAtEnd(s) /\ EntryAtEnd(s).span = s
  BY <1>1, ExtendedType DEF IInv, EntryAtEnd
<1>4. /\ seen \in Seq(Spans) /\ Len(seen) = Len(laid)
      /\ \A i \in 1 .. Len(laid) : seen[i] = laid[i].span
  BY <1>2, SpansOfType
<1>5. SpansOf(laid') = Append(seen, s)
  <2>1. /\ SpansOf(laid') \in Seq(Spans) /\ Len(SpansOf(laid')) = Len(laid) + 1
        /\ \A i \in 1 .. Len(laid) + 1 : SpansOf(laid')[i] = laid'[i].span
    BY <1>3, SpansOfType
  <2> HIDE DEF seen
  <2>2. /\ Append(seen, s) \in Seq(Spans) /\ Len(Append(seen, s)) = Len(laid) + 1
        /\ \A i \in 1 .. Len(laid) : Append(seen, s)[i] = seen[i]
        /\ Append(seen, s)[Len(laid) + 1] = s
    BY <1>4, AppendProperties
  <2>3. ASSUME NEW i \in 1 .. Len(laid) + 1 PROVE SpansOf(laid')[i] = Append(seen, s)[i]
    <3>1. CASE i \in 1 .. Len(laid)
      BY <1>3, <1>4, <2>1, <2>2, <3>1
    <3>2. CASE i = Len(laid) + 1
      BY <1>3, <2>1, <2>2, <3>2
    <3>3. i \in 1 .. Len(laid) \/ i = Len(laid) + 1
      BY <1>2
    <3>4. QED
      BY <3>1, <3>2, <3>3
  <2>4. QED
    BY <2>1, <2>2, <2>3, SeqEqual
<1>6. /\ View' = Append(View, s)
      /\ Stored' = SubSeq(Append(seen, s), 1, safe')
      /\ Pending' = SubSeq(Append(seen, s), safe' + 1, Len(laid) + 1)
  <2>1. index' = Append(index, [span |-> s, offset |-> currentOffset]) /\ View' = SpansOf(index')
    BY <1>1 DEF AppendSpan, View
  <2>2. index' = laid'
    <3>1. IndexIsLog' /\ Clean'
      <4>1. laid' \in Seq(Entry) /\ DOMAIN laid' = 1 .. Len(laid')
        BY <1>3, LenProperties
      <4>2. \A i \in DOMAIN laid' : laid'[i].span \in Spans
        BY <4>1, EntryFacts
      <4>3. QED
        BY <4>2 DEF IInv, Clean, Whole, SpillsWhole
    <3>2. QED
      BY <1>1, <3>1 DEF IndexIsLog
  <2>3. Len(laid') = Len(laid) + 1
    BY <1>3
  <2>4. /\ 1 \in 1 .. Len(laid') + 1 /\ safe' \in 0 .. Len(laid')
        /\ safe' + 1 \in 1 .. Len(laid') + 1 /\ Len(laid') \in 0 .. Len(laid')
    <3>1. Len(laid') \in Nat /\ safe' \in 0 .. Len(laid')
      BY <1>n, <2>3
    <3>2. QED
      BY <3>1, EdgesOfStretch
  <2>5. /\ SpansOf(SubSeq(laid', 1, safe')) = SubSeq(SpansOf(laid'), 1, safe')
        /\ SpansOf(SubSeq(laid', safe' + 1, Len(laid'))) = SubSeq(SpansOf(laid'), safe' + 1, Len(laid'))
    BY <1>3, <2>4, SpansOfStretch
  <2>6. QED
    BY <1>0, <1>3, <1>5, <2>1, <2>2, <2>3, <2>5 DEF Stored, Pending
<1>7. /\ Stored = SubSeq(seen, 1, safe) /\ Pending = SubSeq(seen, safe + 1, Len(laid))
  <2>1. /\ 1 \in 1 .. Len(laid) + 1 /\ safe + 1 \in 1 .. Len(laid) + 1 /\ Len(laid) \in 0 .. Len(laid)
    BY <1>2
  <2>2. QED
    BY <1>2, <2>1, SpansOfStretch DEF Stored, Pending
<1> HIDE DEF seen
<1>8. PICK n \in 0 .. Len(Pending) + 1 :
        /\ Stored' = Stored \o SubSeq(Append(Pending, s), 1, n)
        /\ Pending' = SubSeq(Append(Pending, s), n + 1, Len(Append(Pending, s)))
  <2>1. safe \in 0 .. Len(seen) /\ safe' \in safe .. Len(seen) + 1
    BY <1>n, <1>4
  <2>2. /\ Pending = SubSeq(seen, safe + 1, Len(seen))
        /\ Pending' = SubSeq(Append(seen, s), safe' + 1, Len(seen) + 1)
    BY <1>4, <1>6, <1>7
  <2>3. \E n \in 0 .. Len(SubSeq(seen, safe + 1, Len(seen))) + 1 :
          /\ SubSeq(Append(seen, s), 1, safe')
               = SubSeq(seen, 1, safe) \o SubSeq(Append(SubSeq(seen, safe + 1, Len(seen)), s), 1, n)
          /\ SubSeq(Append(seen, s), safe' + 1, Len(seen) + 1)
               = SubSeq(Append(SubSeq(seen, safe + 1, Len(seen)), s), n + 1,
                        Len(Append(SubSeq(seen, safe + 1, Len(seen)), s)))
    BY <1>4, <2>1, Spill
  <2>4. QED
    BY <1>6, <1>7, <2>2, <2>3
<1>9. QED
  BY <1>0, <1>6, <1>8 DEF Promise!AppendSpan, Stored, Pending, View

(* A step that keeps the records and what of them is in the file: open()   *)
(* or recover() at work, or done.                                          *)
LEMMA SameLog ==
  ASSUME Whole, IInv, SpillsWhole, IInv', SpillsWhole',
         UNCHANGED <<laid, safe>>, mode # "ready"
  PROVE  \/ Promise!Open
         \/ UNCHANGED <<Stored, Pending, View>>
<1>1. View = <<WalHeader>> /\ Stored = SpansOf(laid) /\ Pending = << >>
  BY Mapped
<1>2. UNCHANGED <<Stored, Pending>>
  BY DEF Stored, Pending
<1>3. CASE mode' = "ready"
  <2>1. View' = SpansOf(laid')
    <3>1. /\ laid' \in Seq(Entry) /\ DOMAIN laid' = 1 .. Len(laid')
          /\ IndexIsLog'
      BY LenProperties DEF IInv, TypeOK
    <3>2. \A i \in DOMAIN laid' : laid'[i].span \in Spans
      BY <3>1, EntryFacts
    <3>3. Clean'
      BY <3>2 DEF Clean, Whole, SpillsWhole
    <3>4. QED
      BY <1>3, <3>1, <3>3 DEF IndexIsLog, View
  <2>2. View' = Stored
    BY <1>1, <2>1
  <2>3. QED
    BY <1>1, <1>2, <2>2 DEF Promise!Open, Stored, Pending, View
<1>4. CASE mode' # "ready"
  BY <1>1, <1>2, <1>4 DEF View
<1>5. QED
  BY <1>3, <1>4

(* flush(), seal() and dropping the handle: all that was pending is stored.*)
LEMMA AllStored ==
  ASSUME Whole, IInv, SpillsWhole,
         safe' = Len(laid), laid' = laid
  PROVE  Stored' = Stored \o Pending /\ Pending' = << >>
<1>1. laid \in Seq(Entry) /\ Stored \o Pending = SpansOf(laid)
  BY Mapped
<1>2. Stored' = SpansOf(SubSeq(laid, 1, Len(laid)))
  BY DEF Stored
<1>3. Pending' = SpansOf(SubSeq(laid, Len(laid) + 1, Len(laid)))
  BY DEF Pending
<1>4. 0 \in 0 .. Len(laid)
  BY <1>1, LenProperties
<1>5. QED
  BY <1>1, <1>2, <1>3, <1>4, StoredAndPending

(* A crash takes what was pending and nothing else.                        *)
LEMMA CrashKeepsStored ==
  ASSUME Whole, IInv, SpillsWhole, CrashBetween
  PROVE  Promise!Crash
<1>1. /\ laid' = SubSeq(laid, 1, safe) /\ safe' = safe /\ mode' = "down"
      /\ laid \in Seq(Entry) /\ Len(laid) \in Nat /\ safe \in 0 .. Len(laid)
  BY Mapped DEF CrashBetween, Die, NoHandle, CutTo
<1>2. laid' \in Seq(Entry) /\ Len(laid') = safe
  BY <1>1, PrefixType
<1>3. SubSeq(laid', 1, Len(laid')) = laid'
  BY <1>2, SubSeqFull
<1>4. Stored' = Stored
  BY <1>1, <1>2, <1>3 DEF Stored
<1>5. Pending' = << >>
  <2>1. 0 \in 0 .. Len(laid')
    BY <1>1, <1>2
  <2>2. SpansOf(SubSeq(laid', Len(laid') + 1, Len(laid'))) = << >>
    BY <1>2, <2>1, StoredAndPending
  <2>3. QED
    BY <1>1, <1>2, <2>2 DEF Pending
<1>6. View' = <<WalHeader>>
  BY <1>1 DEF View
<1>7. QED
  BY <1>4, <1>5, <1>6 DEF Promise!Crash, Stored, Pending, View

(* The log of a handle that does not exist yet is empty, and closed.       *)
LEMMA InitKeepsPromise == Init => Promise!Init /\ SpillsWhole
<1> SUFFICES ASSUME Init PROVE Promise!Init /\ SpillsWhole
  OBVIOUS
<1>1. /\ mode = "down" /\ ~exists /\ laid = << >> /\ safe = 0 /\ tear = NoTear
      /\ laid \in Seq(Entry) /\ Len(laid) = 0
  BY EmptySeq DEF Init
<1>2. Stored = << >> /\ Pending = << >>
  <2>1. 0 \in 0 .. Len(laid) /\ SpansOf(laid) = << >>
    BY <1>1 DEF SpansOf
  <2>2. QED
    BY <1>1, <2>1, StoredAndPending DEF Stored, Pending
<1>3. View = <<WalHeader>>
  BY <1>1 DEF View
<1>4. QED
  BY <1>1, <1>2, <1>3 DEF Promise!Init, Stored, Pending, View, SpillsWhole, Born

(* Every step of the span log is a step of the promise, or a stutter.      *)
LEMMA NextKeepsPromise ==
  ASSUME Whole, IInv, SpillsWhole, IInv', SpillsWhole', [Next]_vars
  PROVE  [Promise!Next]_(Promise!vars)
<1> DEFINE Kept == UNCHANGED <<Stored, Pending, View>>
<1>1. CASE \/ OpenNew \/ WriteHeader \/ OpenExisting
           \/ RecoverBegin \/ RecoverFails \/ RecoverRecord \/ RecoverFields \/ RecoverEnd
  <2>1. UNCHANGED <<laid, safe>> /\ mode # "ready"
    BY <1>1 DEF OpenNew, WriteHeader, OpenExisting, RecoverBegin, RecoverFails,
                RecoverRecord, RecoverFields, RecoverEnd, history
  <2>2. Promise!Open \/ Kept
    BY <2>1, SameLog
  <2>3. QED
    BY <2>2 DEF Promise!Next, Promise!vars, Stored, Pending, View
<1>2. ASSUME NEW s \in Spans, AppendSpan(s) PROVE Promise!Next
  BY <1>2, AppendKeepsPromise DEF Promise!Next
<1>3. CASE Flush \/ Seal
  <2>1. safe' = Len(laid) /\ laid' = laid /\ mode = "ready" /\ UNCHANGED <<mode, index>>
    BY <1>3 DEF Flush, Seal
  <2>2. Stored' = Stored \o Pending /\ Pending' = << >> /\ View' = View
    BY <2>1, AllStored DEF View
  <2>3. QED
    BY <2>2 DEF Promise!Next, Promise!Sync, Stored, Pending, View
<1>4. CASE Close
  <2>1. safe' = Len(laid) /\ laid' = laid /\ mode' = "down"
    BY <1>4 DEF Close, NoHandle
  <2>2. Stored' = Stored \o Pending /\ Pending' = << >> /\ View' = <<WalHeader>>
    BY <2>1, AllStored DEF View
  <2>3. QED
    BY <2>2 DEF Promise!Next, Promise!Close, Stored, Pending, View
<1>5. CASE CrashBetween
  BY <1>5, CrashKeepsStored DEF Promise!Next
<1>6. ~CrashTorn /\ ~CrashCreating
  BY DEF CrashTorn, CrashCreating, Whole
<1>7. CASE UNCHANGED vars
  BY <1>7 DEF vars, Promise!vars, SpansOf
<1>8. QED
  BY <1>1, <1>2, <1>3, <1>4, <1>5, <1>6, <1>7 DEF Next

(* An append-only file, a buffer, a header and a linear scan make an       *)
(* ordered log that loses only its unflushed end to a crash and shows a    *)
(* reader everything that is in it.                                        *)
THEOREM LogKeepsPromise ==
  ASSUME Whole
  PROVE  SafetySpec => KeepsPromise
<1> DEFINE Inv == IInv /\ SpillsWhole
<1>1. Init => Inv /\ Promise!Init
  BY IInvInit, InitKeepsPromise
<1>2. Inv /\ [Next]_vars => Inv'
  BY IInvNext, WholeNext DEF IInv
<1>3. Inv /\ Inv' /\ [Next]_vars => [Promise!Next]_(Promise!vars)
  BY NextKeepsPromise
<1> HIDE DEF Inv
<1>4. QED
  BY <1>1, <1>2, <1>3, PTL DEF SafetySpec, KeepsPromise, Promise!Spec
============================================================================
