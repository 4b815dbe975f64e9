--------------------------- MODULE TraceDirShared ---------------------------
(* Proofs about TraceDir with commands that run at the same time: what     *)
(* holds of a directory and of its segments whichever commands share it,   *)
(* what a query's answer has while a writer seals, and where spans are     *)
(* while no command is killed.                                             *)
EXTENDS TraceDirProofs

----------------------------------------------------------------------------
(* What every interleaving keeps.                                          *)

SealingPoints == {"write segment", "fill segment"}

(* A handle is on a file that was created, and buffers accepted spans.     *)
Holds(w) ==
  /\ w.file \in DOMAIN files \cup {None}
  /\ Len(w.buf) <= BufSpans /\ SpansIn(w.buf) \subseteq accepted

Handles == \A c \in Commands : Holds(wal[c])

History == durable \subseteq accepted /\ accepted \subseteq Spans

(* The name live.nxsw is on the last file that was created, or on none.    *)
Fresh == live = None \/ live = Len(files)

Jobs ==
  /\ lastMs <= MaxTime
  /\ \A t \in DOMAIN segs : segs[t] = Partial \/ segs[t] \subseteq Spans
  /\ \A c \in Sealers : pc[c] \in SealingPoints => job[c].ms \in 1 .. lastMs

Shared == Types /\ Handles /\ History /\ Fresh /\ Jobs

(* The part of it that is about files and handles, and their types.        *)
FilesTyped ==
  /\ files \in Seq(Seq(Cell)) /\ live \in DOMAIN files \cup {None} /\ Fresh
  /\ wal \in [Commands -> Handle] /\ Handles
  /\ History

(* A file only grows, and no name of a file returns to an older one.       *)
Grows ==
  /\ DOMAIN files \subseteq DOMAIN files'
  /\ \A f \in DOMAIN files :
       /\ Len(files[f]) <= Len(files'[f])
       /\ \A i \in 1 .. Len(files[f]) : files'[f][i] = files[f][i]
  /\ live' \in {live, None, Len(files) + 1}

----------------------------------------------------------------------------
(* Files and handles.                                                      *)

(* A buffer with nothing in it holds nothing.                              *)
LEMMA EmptyHolds ==
  ASSUME NEW w, w.file \in DOMAIN files \cup {None}, w.buf = << >>
  PROVE  Holds(w)
<1>1. SpansIn(<< >>) = {} /\ Len(<< >>) = 0
  BY DEF SpansIn
<1>2. QED
  BY <1>1, TraceDirAssumption DEF Holds

(* The files are sequences of cells.                                       *)
LEMMA FileCells ==
  ASSUME Types
  PROVE  /\ DOMAIN files = 1 .. Len(files) /\ Len(files) \in Nat
         /\ \A f \in DOMAIN files : /\ files[f] \in Seq(Cell) /\ Len(files[f]) \in Nat
                                   /\ DOMAIN files[f] = 1 .. Len(files[f])
<1>1. DOMAIN files = 1 .. Len(files) /\ Len(files) \in Nat
  BY LenProperties DEF Types
<1>2. \A f \in DOMAIN files : files[f] \in Seq(Cell)
  BY <1>1, ElementOfSeq DEF Types
<1>3. QED
  BY <1>1, <1>2, LenProperties

(* SpanWal::open by one command among others: it opens the file ...        *)
LEMMA OpenShared ==
  ASSUME Types, Handles, History, Fresh, NEW c \in Commands, OpenLog(c)
  PROVE  FilesTyped' /\ Grows
<1>1. /\ files' \in Seq(Seq(Cell)) /\ DOMAIN files' = 1 .. Len(files')
      /\ live' \in DOMAIN files' /\ live' # None
      /\ wal' \in [Commands -> Handle] /\ \A d \in Commands : d # c => wal'[d] = wal[d]
      /\ wal'[c].file = live' /\ wal'[c].buf = wal[c].buf
      /\ \A f \in 1 .. Len(files) : f \in 1 .. Len(files') /\ files'[f] = files[f]
      /\ IF live = None THEN live' = Len(files) + 1 /\ Len(files') = live'
                        ELSE live' = live /\ files' = files
  BY Opened
<1>2. UNCHANGED <<durable, accepted>>
  BY DEF OpenLog
<1>3. Fresh'
  BY <1>1 DEF Fresh
<1>4. ASSUME NEW d \in Commands PROVE Holds(wal[d])'
  <2>1. Holds(wal[d])
    BY DEF Handles
  <2>2. DOMAIN files \subseteq DOMAIN files'
    BY <1>1, FileCells
  <2>3. wal'[d].buf = wal[d].buf /\ (wal'[d].file = live' \/ wal'[d].file = wal[d].file)
    BY <1>1
  <2>4. QED
    BY <1>1, <1>2, <2>1, <2>2, <2>3 DEF Holds
<1>5. Grows
  BY <1>1, FileCells DEF Grows
<1>6. QED
  BY <1>1, <1>2, <1>3, <1>4, <1>5 DEF FilesTyped, Handles, History

(* ... and writes the header.                                              *)
LEMMA HeaderShared ==
  ASSUME Types, Handles, History, Fresh, NEW c \in Commands, WriteHeader(c)
  PROVE  FilesTyped' /\ Grows
<1>1. /\ files' \in Seq(Seq(Cell)) /\ Len(files') = Len(files) /\ DOMAIN files' = DOMAIN files
      /\ \A f \in DOMAIN files : files'[f] = IF f = wal[c].file THEN files[f] \o <<Header>>
                                                              ELSE files[f]
      /\ wal' \in [Commands -> Handle] /\ \A d \in Commands : d # c => wal'[d] = wal[d]
      /\ wal'[c].file = wal[c].file /\ wal'[c].buf = wal[c].buf /\ UNCHANGED live
  BY Headed
<1>2. UNCHANGED <<durable, accepted>>
  BY DEF WriteHeader
<1>3. \A d \in Commands : wal'[d].file = wal[d].file /\ wal'[d].buf = wal[d].buf
  BY <1>1
<1>4. Handles'
  BY <1>1, <1>2, <1>3 DEF Handles, Holds
<1>5. ASSUME NEW f \in DOMAIN files
      PROVE  /\ Len(files[f]) <= Len(files'[f])
             /\ \A i \in 1 .. Len(files[f]) : files'[f][i] = files[f][i]
  <2>1. files[f] \in Seq(Cell) /\ Len(files[f]) \in Nat
    BY FileCells
  <2>2. <<Header>> \in Seq(Cell) /\ Len(<<Header>>) = 1
    BY DEF Cell
  <2>3. /\ Len(files[f] \o <<Header>>) = Len(files[f]) + 1
        /\ \A i \in 1 .. Len(files[f]) + 1 :
             (files[f] \o <<Header>>)[i] = IF i <= Len(files[f]) THEN files[f][i] ELSE <<Header>>[i - Len(files[f])]
    BY <2>1, <2>2, ConcatProperties
  <2>4. \A i \in 1 .. Len(files[f]) : (files[f] \o <<Header>>)[i] = files[f][i]
    BY <2>1, <2>3
  <2>5. Len(files[f]) <= Len(files[f] \o <<Header>>)
    BY <2>1, <2>3
  <2>6. CASE f = wal[c].file
    <3>1. files'[f] = files[f] \o <<Header>>
      BY <1>1, <2>6
    <3>2. QED
      BY <2>4, <2>5, <3>1
  <2>7. CASE f # wal[c].file
    <3>1. files'[f] = files[f]
      BY <1>1, <2>7
    <3>2. QED
      BY <2>1, <3>1
  <2>8. QED
    BY <2>6, <2>7
<1>6. Grows
  BY <1>1, <1>5 DEF Grows
<1>7. live' \in DOMAIN files' \cup {None} /\ Fresh'
  BY <1>1 DEF Types, Fresh
<1>8. QED
  BY <1>1, <1>2, <1>4, <1>6, <1>7 DEF FilesTyped, History

(* The flush of a handle's spans into its file, whichever the directory    *)
(* names now.                                                              *)
LEMMA FlushShared ==
  ASSUME Types, Handles, History, Fresh, NEW w \in Handle, Holds(w),
         FlushTo(w, w.buf), UNCHANGED live
  PROVE  /\ files' \in Seq(Seq(Cell))
         /\ DOMAIN files' = DOMAIN files /\ Len(files') = Len(files)
         /\ Grows
         /\ durable' \subseteq accepted
<1>1. w.buf \in Seq(Spans)
  BY DEF Handle
<1>2. /\ files' = [files EXCEPT ![w.file] = @ \o w.buf]
      /\ durable' = durable \cup SpansIn(w.buf)
  BY DEF FlushTo
<1>3. DOMAIN files = 1 .. Len(files) /\ Len(files) \in Nat
  BY FileCells
<1>4. /\ DOMAIN files' = DOMAIN files
      /\ \A f \in DOMAIN files : files'[f] = IF f = w.file THEN files[f] \o w.buf ELSE files[f]
  BY <1>2
<1>5. ASSUME NEW f \in DOMAIN files
      PROVE  /\ files'[f] \in Seq(Cell) /\ Len(files[f]) <= Len(files'[f])
             /\ \A i \in 1 .. Len(files[f]) : files'[f][i] = files[f][i]
  <2>a. files[f] \in Seq(Cell) /\ w.buf \in Seq(Cell) /\ Len(files[f]) \in Nat /\ Len(w.buf) \in Nat
    <3>1. w.buf \in Seq(Cell)
      BY <1>1, ElementOfSeq, LenProperties, SeqDef DEF Cell
    <3>2. QED
      BY <3>1, FileCells, LenProperties
  <2>2. CASE f = w.file
    <3>1. files[f] \o w.buf \in Seq(Cell) /\ Len(files[f] \o w.buf) = Len(files[f]) + Len(w.buf)
      BY <1>1, <2>a, LogConcat
    <3>2. \A i \in 1 .. Len(files[f]) + Len(w.buf) :
            (files[f] \o w.buf)[i] = IF i <= Len(files[f]) THEN files[f][i] ELSE w.buf[i - Len(files[f])]
      BY <2>a, ConcatProperties
    <3>3. \A i \in 1 .. Len(files[f]) : (files[f] \o w.buf)[i] = files[f][i]
      BY <2>a, <3>2
    <3>4. files'[f] = files[f] \o w.buf
      BY <1>4, <2>2
    <3>5. QED
      BY <2>a, <3>1, <3>3, <3>4
  <2>3. CASE f # w.file
    BY <1>4, <2>3, <2>a
  <2>4. QED
    BY <2>2, <2>3
<1>6. files' \in Seq(Seq(Cell)) /\ Len(files') = Len(files)
  <2>1. \A f \in 1 .. Len(files) : files'[f] \in Seq(Cell)
    BY <1>3, <1>5
  <2>2. files' = [f \in 1 .. Len(files) |-> files'[f]]
    BY <1>2, <1>3
  <2>3. files' \in [1 .. Len(files) -> Seq(Cell)]
    BY <2>1, <2>2
  <2>4. files' \in Seq(Seq(Cell))
    BY <1>3, <2>3, SeqDef
  <2>5. QED
    BY <1>3, <2>3, <2>4, LenProperties
<1>7. Grows
  BY <1>4, <1>5 DEF Grows
<1>8. durable' \subseteq accepted
  BY <1>2 DEF Holds, History
<1>9. QED
  BY <1>4, <1>6, <1>7, <1>8

(* A step that writes no file: one handle is replaced, or none.            *)
LEMMA HandleShared ==
  ASSUME Types, Handles, History, Fresh, NEW c \in Commands, NEW h \in Handle, Holds(h),
         wal' = [wal EXCEPT ![c] = h] \/ UNCHANGED wal,
         live' \in {live, None}, UNCHANGED <<files, durable, accepted>>
  PROVE  FilesTyped' /\ Grows
<1>1. wal' \in [Commands -> Handle]
  BY DEF Types
<1>2. ASSUME NEW d \in Commands PROVE Holds(wal[d])'
  <2>1. wal'[d] = h \/ wal'[d] = wal[d]
    BY DEF Types
  <2>2. Holds(h)' /\ Holds(wal[d])
    BY DEF Holds, Handles
  <2>3. QED
    BY <2>1, <2>2 DEF Holds
<1>3. live' \in DOMAIN files' \cup {None} /\ Fresh'
  BY DEF Types, Fresh
<1>4. Grows
  BY FileCells DEF Grows
<1>5. QED
  BY <1>1, <1>2, <1>3, <1>4 DEF FilesTyped, Handles, History, Types

(* The handle of a command that does not run is on no file.                *)
LEMMA NoWalHolds == NoWal \in Handle /\ Holds(NoWal)
<1>1. NoWal.file = None /\ NoWal.buf = << >> /\ Len(<< >>) = 0 /\ SpansIn(<< >>) = {}
  BY DEF NoWal, SpansIn
<1>2. QED
  BY <1>1, NoWalTyped, TraceDirAssumption DEF Holds

(* Looking for the path takes a new handle.                                *)
LEMMA ExistsShared ==
  ASSUME Types, Handles, History, Fresh, NEW c \in Commands, NEW then \in {"recover", "run"},
         LogExists(c, then), UNCHANGED <<files, live, durable, accepted>>
  PROVE  FilesTyped' /\ Grows
<1>1. PICK h : h = [NoWal EXCEPT !.fresh = (live = None), !.then = then]
  OBVIOUS
<1>2. wal' = [wal EXCEPT ![c] = h]
  BY <1>1 DEF LogExists
<1>3. wal'[c] = h
  BY <1>2 DEF Types
<1>4. h \in Handle /\ h.file = None /\ h.buf = << >>
  BY <1>3, Existence
<1>5. Holds(h)
  BY <1>4, EmptyHolds
<1>6. QED
  BY <1>2, <1>4, <1>5, HandleShared

(* recover() leaves the file and the buffer of a handle.                   *)
LEMMA RecoveredHolds ==
  ASSUME Types, Handles, NEW c \in Commands, live # None,
         NEW n \in 1 .. Len(files[live]), StopsAt(files[live], n)
  PROVE  Recovered(wal[c], n) \in Handle /\ Holds(Recovered(wal[c], n))
<1>1. live \in DOMAIN files /\ files[live] \in Seq(Cell)
  BY FileCells DEF Types
<1>2. /\ IndexOf(files[live], n) \in Seq(Entry)
      /\ Len(files[live]) \in Nat /\ n - 1 \in Nat
  BY <1>1, RecoveredIndex
<1>3. wal[c] \in Handle /\ Holds(wal[c])
  BY DEF Types, Handles
<1>4. Recovered(wal[c], n) \in Handle
  BY <1>2, <1>3 DEF Recovered, Handle
<1>5. Recovered(wal[c], n).file = wal[c].file /\ Recovered(wal[c], n).buf = wal[c].buf
  BY <1>3 DEF Recovered, Handle
<1>6. QED
  BY <1>3, <1>4, <1>5 DEF Holds

(* A command that recovers: the handle takes the index.                    *)
LEMMA RecoverShared ==
  ASSUME Types, Handles, History, Fresh, NEW c \in Commands, ~Logless,
         NEW n \in 1 .. Len(files[live]), StopsAt(files[live], n),
         wal' = [wal EXCEPT ![c] = Recovered(@, n)], UNCHANGED <<fs, durable, accepted>>
  PROVE  FilesTyped' /\ Grows
<1>1. live # None
  BY DEF Logless
<1>2. Recovered(wal[c], n) \in Handle /\ Holds(Recovered(wal[c], n))
  BY <1>1, RecoveredHolds
<1>3. QED
  BY <1>2, HandleShared DEF fs

(* append(), with the spill it may cause.                                  *)
LEMMA SpanShared ==
  ASSUME Types, Handles, History, Fresh, "write" \in Commands, NEW s \in Spans, WriteSpan(s)
  PROVE  FilesTyped' /\ Grows
<1> DEFINE w == wal["write"]
           a == Appended(w, s)
<1>1. /\ wal' = [wal EXCEPT !["write"] = a] /\ UNCHANGED live
      /\ accepted' = accepted \cup {s}
      /\ IF Len(w.buf) < BufSpans THEN UNCHANGED <<files, durable>> ELSE FlushTo(w, w.buf)
  BY DEF WriteSpan
<1>2. w \in Handle /\ Holds(w)
  BY DEF Types, Handles
<1>3. /\ w.buf \in Seq(Spans) /\ w.index \in Seq(Entry) /\ w.offset \in Nat /\ w.count \in Nat
      /\ w.file \in Nat \cup {None} /\ Len(w.buf) \in Nat /\ BufSpans \in Nat \ {0}
  BY <1>2, LenProperties, TraceDirAssumption DEF Handle
<1>4. /\ Append(w.buf, s) \in Seq(Spans) /\ Len(Append(w.buf, s)) = Len(w.buf) + 1
      /\ SpansIn(Append(w.buf, s)) \subseteq SpansIn(w.buf) \cup {s}
      /\ <<s>> \in Seq(Spans) /\ Len(<<s>>) = 1 /\ SpansIn(<<s>>) \subseteq {s}
  <2>1. /\ Append(w.buf, s) \in Seq(Spans) /\ Len(Append(w.buf, s)) = Len(w.buf) + 1
        /\ \A i \in 1 .. Len(w.buf) : Append(w.buf, s)[i] = w.buf[i]
        /\ Append(w.buf, s)[Len(w.buf) + 1] = s
    BY <1>3, AppendProperties
  <2>2. /\ DOMAIN Append(w.buf, s) = 1 .. Len(w.buf) + 1 /\ DOMAIN w.buf = 1 .. Len(w.buf)
    BY <2>1, <1>3, LenProperties
  <2>3. ASSUME NEW i \in 1 .. Len(w.buf) + 1
        PROVE  Append(w.buf, s)[i] = s \/ Append(w.buf, s)[i] \in {w.buf[j] : j \in DOMAIN w.buf}
    BY <1>3, <2>1, <2>2
  <2>4. SpansIn(Append(w.buf, s)) \subseteq SpansIn(w.buf) \cup {s}
    BY <2>2, <2>3 DEF SpansIn
  <2>5. QED
    BY <2>1, <2>4 DEF SpansIn
<1>5. /\ a.file = w.file
      /\ a.buf = IF Len(w.buf) < BufSpans THEN Append(w.buf, s) ELSE <<s>>
  BY <1>2 DEF Appended, Handle
<1>6. [span |-> s, offset |-> w.offset] \in Entry
  BY <1>3 DEF Entry
<1>7. a \in Handle
  <2>1. ASSUME NEW b \in Seq(Spans), NEW index \in Seq(Entry), NEW o \in Nat, NEW n \in Nat
        PROVE  [w EXCEPT !.buf = b, !.index = index, !.offset = o, !.count = n] \in Handle
    BY <1>2 DEF Handle
  <2>2. (IF Len(w.buf) < BufSpans THEN Append(w.buf, s) ELSE <<s>>) \in Seq(Spans)
    BY <1>4
  <2>3. Append(w.index, [span |-> s, offset |-> w.offset]) \in Seq(Entry)
    BY <1>3, <1>6, AppendProperties
  <2>4. w.offset + 1 \in Nat /\ w.count + 1 \in Nat
    BY <1>3
  <2>5. QED
    BY <2>1, <2>2, <2>3, <2>4 DEF Appended
<1> HIDE DEF a
<1>8. Len(a.buf) <= BufSpans /\ SpansIn(a.buf) \subseteq accepted'
  <2>1. SpansIn(w.buf) \subseteq accepted
    BY <1>2 DEF Holds
  <2>2. CASE Len(w.buf) < BufSpans
    <3>1. a.buf = Append(w.buf, s)
      BY <1>5, <2>2
    <3>2. Len(w.buf) + 1 <= BufSpans
      BY <1>3, <2>2
    <3>3. QED
      BY <1>1, <1>4, <2>1, <3>1, <3>2
  <2>3. CASE ~(Len(w.buf) < BufSpans)
    <3>1. a.buf = <<s>>
      BY <1>5, <2>3
    <3>2. 1 <= BufSpans
      BY <1>3
    <3>3. QED
      BY <1>1, <1>4, <3>1, <3>2
  <2>4. QED
    BY <2>2, <2>3
<1>9. /\ files' \in Seq(Seq(Cell))
      /\ DOMAIN files' = DOMAIN files /\ Len(files') = Len(files) /\ Grows
      /\ durable' \subseteq accepted
  <2>1. CASE Len(w.buf) < BufSpans
    <3>1. UNCHANGED <<files, durable>>
      BY <1>1, <2>1
    <3>2. Grows
      BY <1>1, <3>1, FileCells DEF Grows
    <3>3. QED
      BY <3>1, <3>2 DEF Types, History
  <2>2. CASE ~(Len(w.buf) < BufSpans)
    <3>1. FlushTo(w, w.buf)
      BY <1>1, <2>2
    <3>2. QED
      BY <1>1, <1>2, <3>1, FlushShared
  <2>3. QED
    BY <2>1, <2>2
<1>10. wal' \in [Commands -> Handle]
  BY <1>1, <1>7 DEF Types
<1>11. ASSUME NEW d \in Commands PROVE Holds(wal[d])'
  <2>1. CASE d = "write"
    <3>1. wal'[d] = a
      BY <1>1, <2>1 DEF Types
    <3>2. QED
      BY <1>2, <1>5, <1>8, <1>9, <3>1 DEF Holds
  <2>2. CASE d # "write"
    <3>1. wal'[d] = wal[d]
      BY <1>1, <2>2 DEF Types
    <3>2. QED
      BY <1>1, <1>9, <3>1 DEF Handles, Holds
  <2>3. QED
    BY <2>1, <2>2
<1>12. QED
  BY <1>1, <1>9, <1>10, <1>11 DEF FilesTyped, Handles, History, Fresh, Types

(* The flush at the end of cmd_write, or before do_seal reads.             *)
LEMMA FlushedShared ==
  ASSUME Types, Handles, History, Fresh, NEW c \in Commands, FlushTo(wal[c], wal[c].buf),
         NEW h \in Handle, Holds(h), wal' = [wal EXCEPT ![c] = h],
         UNCHANGED <<live, accepted>>
  PROVE  FilesTyped' /\ Grows
<1>1. wal[c] \in Handle /\ Holds(wal[c])
  BY DEF Types, Handles
<1>2. /\ files' \in Seq(Seq(Cell))
      /\ DOMAIN files' = DOMAIN files /\ Len(files') = Len(files) /\ Grows
      /\ durable' \subseteq accepted
  BY <1>1, FlushShared
<1>3. wal' \in [Commands -> Handle]
  BY DEF Types
<1>4. ASSUME NEW d \in Commands PROVE Holds(wal[d])'
  <2>1. wal'[d] = h \/ wal'[d] = wal[d]
    BY DEF Types
  <2>2. Holds(h)' /\ Holds(wal[d])
    BY <1>2 DEF Holds, Handles
  <2>3. QED
    BY <1>2, <2>1, <2>2 DEF Holds
<1>5. QED
  BY <1>2, <1>3, <1>4 DEF FilesTyped, Handles, History, Fresh, Types

(* Every step keeps the files, the handles and their types.                *)
LEMMA FilesNext ==
  ASSUME Types, Handles, History, Fresh, [Next]_vars
  PROVE  FilesTyped' /\ Grows
<1> USE DEF Sealers
<1>0. ASSUME NEW c \in Commands, live' \in {live, None}, UNCHANGED <<files, wal, durable, accepted>>
      PROVE  FilesTyped' /\ Grows
  BY <1>0, NoWalHolds, HandleShared
<1>1. ASSUME "write" \in Commands, WriteStart \/ WriteReopen PROVE FilesTyped' /\ Grows
  BY <1>1, ExistsShared DEF WriteStart, WriteReopen, fs
<1>o. ASSUME NEW c \in Commands, OpenStep(c) PROVE FilesTyped' /\ Grows
  BY <1>o, OpenShared, HeaderShared DEF OpenStep
<1>2. ASSUME "write" \in Commands, WriteRecover PROVE FilesTyped' /\ Grows
  <2>1. CASE UNCHANGED wal
    BY <1>0, <1>2, <2>1 DEF WriteRecover, fs
  <2>2. CASE Exit("write")
    BY <1>2, <2>2, NoWalHolds, HandleShared DEF WriteRecover, Exit, fs
  <2>3. CASE /\ ~Logless
             /\ \E n \in 1 .. Len(files[live]) :
                  StopsAt(files[live], n) /\ wal' = [wal EXCEPT !["write"] = Recovered(@, n)]
    BY <1>2, <2>3, RecoverShared DEF WriteRecover
  <2>4. QED
    BY <1>2, <2>1, <2>2, <2>3 DEF WriteRecover
<1>3. ASSUME "write" \in Commands, WriteEnd PROVE FilesTyped' /\ Grows
  BY <1>3, NoWalHolds, FlushedShared DEF WriteEnd, Exit
<1>4. ASSUME "write" \in Commands, NEW s \in Spans, WriteSpan(s) PROVE FilesTyped' /\ Grows
  BY <1>4, SpanShared
<1>5. ASSUME "seal" \in Commands, SealStart PROVE FilesTyped' /\ Grows
  BY <1>5, ExistsShared DEF SealStart, fs
<1>6. ASSUME "seal" \in Commands, SealRecover PROVE FilesTyped' /\ Grows
  <2>1. CASE Exit("seal")
    BY <1>6, <2>1, NoWalHolds, HandleShared DEF SealRecover, Exit, fs
  <2>2. CASE /\ ~Logless
             /\ \E n \in 1 .. Len(files[live]) :
                  StopsAt(files[live], n) /\ wal' = [wal EXCEPT !["seal"] = Recovered(@, n)]
    BY <1>6, <2>2, RecoverShared DEF SealRecover
  <2>3. QED
    BY <1>6, <2>1, <2>2 DEF SealRecover
<1>7. ASSUME NEW c \in Sealers, SealRead(c) PROVE FilesTyped' /\ Grows
  <2> DEFINE h == [wal[c] EXCEPT !.buf = << >>]
  <2>1. wal[c] \in Handle /\ Holds(wal[c]) /\ << >> \in Seq(Spans)
    BY EmptySeq DEF Types, Handles
  <2>2. h \in Handle /\ h.file = wal[c].file /\ h.buf = << >>
    BY <2>1 DEF Handle
  <2>3. Len(<< >>) = 0 /\ SpansIn(<< >>) = {}
    BY DEF SpansIn
  <2>4. Holds(h)
    BY <2>1, <2>2, <2>3, TraceDirAssumption DEF Holds
  <2>5. wal' = [wal EXCEPT ![c] = h] /\ FlushTo(wal[c], wal[c].buf) /\ UNCHANGED <<live, accepted>>
    BY <1>7 DEF SealRead
  <2>6. QED
    BY <2>2, <2>4, <2>5, FlushedShared
<1>8. ASSUME NEW c \in Sealers, SegmentCreate(c) \/ SegmentFill(c) \/ SealFailed(c)
      PROVE  FilesTyped' /\ Grows
  BY <1>0, <1>8 DEF SegmentCreate, SegmentFill, SealFailed
<1>9. ASSUME NEW c \in Sealers, RemoveWal(c) PROVE FilesTyped' /\ Grows
  <2>1. wal' = [wal EXCEPT ![c] = NoWal] \/ UNCHANGED wal
    BY <1>9 DEF RemoveWal, Exit
  <2>2. QED
    BY <1>9, <2>1, NoWalHolds, HandleShared DEF RemoveWal
<1>10. ASSUME NEW c \in Sealers, Crash(c) PROVE FilesTyped' /\ Grows
  BY <1>10, NoWalHolds, HandleShared DEF Crash, Killed, Exit, fs
<1>11. CASE QueryStep
  <2>1. "query" \in Commands
    BY <1>11 DEF QueryStep
  <2>2. CASE QueryStart \/ QueryRecover \/ QueryRead \/ \E t \in query.todo : QueryLoad(t)
    BY <2>1, <2>2, <1>0 DEF QueryStart, QueryRecover, QueryRead, QueryLoad, fs
  <2>3. CASE QueryOpenWal
    BY <2>1, <2>3, <1>0, ExistsShared DEF QueryOpenWal, fs
  <2>4. CASE QueryEnd \/ QueryCrash
    BY <2>1, <2>4, NoWalHolds, HandleShared DEF QueryEnd, QueryCrash, Killed, Exit, fs
  <2>5. CASE OpenStep("query")
    BY <2>1, <2>5, <1>o
  <2>6. QED
    BY <1>11, <2>2, <2>3, <2>4, <2>5 DEF QueryStep
<1>12. CASE UNCHANGED vars
  <2>1. UNCHANGED <<files, live, wal, durable, accepted>>
    BY <1>12 DEF vars
  <2>2. Grows
    BY <2>1, FileCells DEF Grows
  <2>3. FilesTyped'
    BY <2>1 DEF FilesTyped, Types, Handles, Holds, History, Fresh
  <2>4. QED
    BY <2>2, <2>3
<1>13. QED
  BY <1>1, <1>o, <1>2, <1>3, <1>4, <1>5, <1>6, <1>7, <1>8, <1>9, <1>10, <1>11, <1>12
  DEF Next, WriteStep, SealStep

----------------------------------------------------------------------------
(* Segments and the jobs that write them.                                  *)

SegsTyped ==
  /\ segs \in [DOMAIN segs -> SUBSET Cell]
  /\ lastMs \in Nat /\ DOMAIN segs \subseteq 1 .. lastMs
  /\ pc \in [Commands -> Points] /\ job \in [Sealers -> SealJob]
  /\ Jobs

(* A step that writes no segment and takes no command to the writing of    *)
(* one.                                                                    *)
Elsewhere ==
  /\ UNCHANGED <<segs, lastMs>>
  /\ pc' \in [Commands -> Points] /\ job' \in [Sealers -> SealJob]
  /\ \A d \in Sealers : pc'[d] \in SealingPoints => pc'[d] = pc[d] /\ job'[d] = job[d]

(* A failed seal keeps the name of its segment.                            *)
LEMMA WarnedJob ==
  ASSUME Types, NEW c \in Sealers, job' = [job EXCEPT ![c].ok = FALSE]
  PROVE  job' \in [Sealers -> SealJob] /\ \A d \in Sealers : job'[d].ms = job[d].ms
<1>1. job \in [Sealers -> SealJob] /\ job[c] \in SealJob
  BY DEF Types
<1>2. [job[c] EXCEPT !.ok = FALSE] \in SealJob /\ [job[c] EXCEPT !.ok = FALSE].ms = job[c].ms
  BY <1>1 DEF SealJob
<1>3. job'[c] = [job[c] EXCEPT !.ok = FALSE] /\ \A d \in Sealers : d # c => job'[d] = job[d]
  BY <1>1
<1>4. QED
  BY <1>1, <1>2, <1>3

(* A command that goes to another point, or none, does not touch segments. *)
LEMMA GoesElsewhere ==
  ASSUME Types, NEW c \in Commands, NEW to \in Points \ SealingPoints,
         Goto(c, to) \/ UNCHANGED pc, UNCHANGED <<segs, lastMs>>,
         job' \in [Sealers -> SealJob], \A d \in Sealers : d # c => job'[d] = job[d],
         UNCHANGED job \/ Goto(c, to)
  PROVE  Elsewhere
<1>1. pc' \in [Commands -> Points]
  BY DEF Types, Goto
<1>2. ASSUME NEW d \in Sealers, pc'[d] \in SealingPoints
      PROVE  pc'[d] = pc[d] /\ job'[d] = job[d]
  <2>1. d \in Commands
    BY DEF Sealers
  <2>2. CASE Goto(c, to)
    <3>1. pc'[c] = to /\ \A e \in Commands : e # c => pc'[e] = pc[e]
      BY <2>2 DEF Types, Goto
    <3>2. d # c
      BY <1>2, <3>1
    <3>3. QED
      BY <2>1, <3>1, <3>2
  <2>3. CASE UNCHANGED <<pc, job>>
    BY <2>3
  <2>4. QED
    BY <2>2, <2>3
<1>3. QED
  BY <1>1, <1>2 DEF Elsewhere

(* The steps that do more are three.                                       *)
LEMMA StepKinds ==
  ASSUME Types, [Next]_vars
  PROVE  Elsewhere \/ \E c \in Sealers : SealRead(c) \/ SegmentCreate(c) \/ SegmentFill(c)
<1>0. /\ {"off", "open", "header", "recover", "run", "seal", "remove", "reopen", "load", "read",
          "answered", "failed"} \subseteq Points \ SealingPoints
      /\ job \in [Sealers -> SealJob] /\ pc \in [Commands -> Points] /\ wal \in [Commands -> Handle]
  BY DEF Points, SealingPoints, Types
<1>a. ASSUME NEW c \in Commands, NEW to \in Points \ SealingPoints, Goto(c, to) \/ UNCHANGED pc,
             UNCHANGED <<segs, lastMs, job>>
      PROVE  Elsewhere
  BY <1>0, <1>a, GoesElsewhere
<1>o. ASSUME NEW c \in Commands, OpenStep(c) PROVE Elsewhere
  <2>1. wal[c].then \in {"recover", "run"}
    BY <1>0 DEF Handle
  <2>2. UNCHANGED <<segs, lastMs, job>> /\ (Goto(c, "header") \/ Goto(c, wal[c].then))
    BY <1>o DEF OpenStep, OpenLog, WriteHeader
  <2>3. QED
    BY <1>0, <1>a, <2>1, <2>2
<1>1. CASE WriteStep
  <2> USE <1>0
  <2>1. "write" \in Commands
    BY <1>1 DEF WriteStep
  <2>2. CASE WriteStart
    BY <2>1, <2>2, <1>a DEF WriteStart, LogExists, fs
  <2>3. CASE WriteRecover
    <3>1. Goto("write", "off") \/ Goto("write", "run")
      BY <2>3 DEF WriteRecover, Exit
    <3>2. UNCHANGED <<segs, lastMs, job>>
      BY <2>3 DEF WriteRecover, fs
    <3>3. QED
      BY <2>1, <3>1, <3>2, <1>a
  <2>4. CASE WriteEnd
    BY <2>1, <2>4, <1>a DEF WriteEnd, Exit
  <2>5. CASE WriteReopen
    BY <2>1, <2>5, <1>a DEF WriteReopen, LogExists, fs
  <2>6. ASSUME NEW s \in Spans, WriteSpan(s) PROVE Elsewhere
    <3>1. Goto("write", "seal") \/ Goto("write", "run")
      BY <2>6 DEF WriteSpan
    <3>2. UNCHANGED <<segs, lastMs, job>>
      BY <2>6 DEF WriteSpan
    <3>3. QED
      BY <2>1, <3>1, <3>2, <1>a
  <2>7. QED
    BY <1>1, <1>o, <2>1, <2>2, <2>3, <2>4, <2>5, <2>6 DEF WriteStep
<1>2. CASE "seal" \in Commands /\ (SealStart \/ OpenStep("seal") \/ SealRecover)
  <2>1. CASE SealStart
    BY <1>2, <2>1, <1>0, <1>a DEF SealStart, LogExists, fs
  <2>2. CASE SealRecover
    <3>1. Goto("seal", "off") \/ Goto("seal", "seal")
      BY <2>2 DEF SealRecover, Exit
    <3>2. UNCHANGED <<segs, lastMs, job>>
      BY <2>2 DEF SealRecover, fs
    <3>3. QED
      BY <1>2, <3>1, <3>2, <1>0, <1>a
  <2>3. QED
    BY <1>2, <1>o, <2>1, <2>2
<1>3. ASSUME NEW c \in Sealers, SealFailed(c) PROVE Elsewhere
  <2>1. /\ Goto(c, "remove") /\ job' = [job EXCEPT ![c].ok = FALSE]
        /\ UNCHANGED <<segs, lastMs>> /\ c \in Commands
    BY <1>3 DEF SealFailed, SealWarn, Sealers
  <2>2. job' \in [Sealers -> SealJob] /\ \A d \in Sealers : d # c => job'[d] = job[d]
    BY <2>1 DEF Types, SealJob
  <2>3. QED
    BY <1>0, <2>1, <2>2, GoesElsewhere
<1>4. ASSUME NEW c \in Sealers, RemoveWal(c) \/ Crash(c) PROVE Elsewhere
  <2>1. /\ Goto(c, "reopen") \/ Goto(c, "off")
        /\ job' = [job EXCEPT ![c] = NoJob] /\ UNCHANGED <<segs, lastMs>> /\ c \in Commands
    BY <1>4 DEF RemoveWal, Crash, Killed, Exit, Sealers, fs
  <2>2. job' \in [Sealers -> SealJob] /\ \A d \in Sealers : d # c => job'[d] = job[d]
    BY <2>1, NoJobTyped DEF Types
  <2>3. QED
    BY <1>0, <2>1, <2>2, GoesElsewhere
<1>5. CASE QueryStep
  <2>1. "query" \in Commands
    BY <1>5 DEF QueryStep
  <2>2. CASE OpenStep("query")
    BY <1>o, <2>1, <2>2
  <2> DEFINE Other == \/ QueryStart \/ QueryOpenWal \/ QueryRecover \/ QueryRead \/ QueryEnd
                      \/ QueryCrash \/ \E t \in query.todo : QueryLoad(t)
  <2>3. CASE Other
    <3>1. UNCHANGED <<segs, lastMs, job>>
      BY <2>3 DEF QueryStart, QueryOpenWal, QueryRecover, QueryRead, QueryEnd, QueryCrash, QueryLoad, fs
    <3>2. \/ Goto("query", "load") \/ Goto("query", "open") \/ Goto("query", "read")
          \/ Goto("query", "answered") \/ Goto("query", "failed") \/ Goto("query", "off")
          \/ UNCHANGED pc
      BY <2>3 DEF QueryStart, QueryOpenWal, QueryRecover, QueryRead, QueryEnd, QueryCrash, QueryLoad,
                  Killed, LogExists, Exit
    <3>3. QED
      BY <2>1, <3>1, <3>2, <1>0, <1>a
  <2>4. QED
    BY <1>5, <2>2, <2>3 DEF QueryStep
<1>6. CASE UNCHANGED vars
  BY <1>6, <1>0 DEF vars, Elsewhere
<1>7. QED
  BY <1>1, <1>2, <1>3, <1>4, <1>5, <1>6 DEF Next, SealStep

(* do_seal's job: a time of its own and spans of the index.                *)
LEMMA SealReadJob ==
  ASSUME Types, NEW c \in Sealers, SealRead(c)
  PROVE  /\ pc' = [pc EXCEPT ![c] = "write segment"] /\ UNCHANGED <<segs, live>>
         /\ lastMs' \in lastMs .. MaxTime /\ lastMs' \in Nat \ {0} /\ (SameMs \/ lastMs' > lastMs)
         /\ job' \in [Sealers -> SealJob] /\ job'[c].ms = lastMs'
         /\ \A d \in Sealers : d # c => job'[d] = job[d]
         /\ job'[c].spans \subseteq Spans
         /\ \A s \in job'[c].spans : live # None /\ \E off \in Nat : CellAt(files'[live], off) = s
<1> DEFINE w == wal[c]
           flushed == [files EXCEPT ![w.file] = @ \o w.buf]
           entries == {w.index[i] : i \in DOMAIN w.index}
           found == {e \in entries : live # None /\ CellAt(flushed[live], e.offset) = e.span}
           spans == {e.span : e \in found}
<1>1. PICK ms \in lastMs .. MaxTime, ok \in BOOLEAN :
        /\ ms > 0 /\ (SameMs \/ ms > lastMs) /\ lastMs' = ms
        /\ job' = [job EXCEPT ![c] = [ms |-> ms, spans |-> spans, ok |-> ok]]
  BY DEF SealRead
<1>2. lastMs \in Nat /\ ms \in Nat /\ MaxTime \in Nat
  BY <1>1, TraceDirAssumption DEF Types
<1>3. entries \subseteq Entry
  <2>1. w.index \in Seq(Entry) /\ c \in Commands
    BY DEF Types, Handle, Sealers
  <2>2. QED
    BY <2>1, ElementOfSeq, LenProperties
<1>4. spans \subseteq Spans
  BY <1>3 DEF Entry
<1>5. \A s \in spans : live # None /\ \E off \in Nat : CellAt(files'[live], off) = s
  <2>1. files' = flushed
    BY DEF SealRead, FlushTo
  <2>2. ASSUME NEW e \in found PROVE live # None /\ e.offset \in Nat /\ CellAt(files'[live], e.offset) = e.span
    BY <1>3, <2>1, <2>2 DEF Entry
  <2>3. QED
    BY <2>2
<1> HIDE DEF spans
<1>6. job' \in [Sealers -> SealJob] /\ job'[c] = [ms |-> ms, spans |-> spans, ok |-> ok]
      /\ \A d \in Sealers : d # c => job'[d] = job[d]
  BY <1>1, <1>2, <1>4 DEF Types, SealJob
<1>7. pc' = [pc EXCEPT ![c] = "write segment"] /\ UNCHANGED <<segs, live>>
  BY DEF SealRead, Goto
<1>8. job'[c].ms = ms /\ job'[c].spans = spans
  BY <1>6
<1>9. lastMs' \in lastMs .. MaxTime /\ lastMs' \in Nat \ {0} /\ (SameMs \/ lastMs' > lastMs)
  BY <1>1, <1>2
<1>10. QED
  BY <1>1, <1>4, <1>5, <1>6, <1>7, <1>8, <1>9

(* Every step keeps the segments, the jobs and their types.                *)
LEMMA SegsNext ==
  ASSUME Types, Jobs, [Next]_vars
  PROVE  SegsTyped'
<1>0. /\ segs \in [DOMAIN segs -> SUBSET Cell] /\ lastMs \in Nat /\ DOMAIN segs \subseteq 1 .. lastMs
      /\ pc \in [Commands -> Points] /\ job \in [Sealers -> SealJob]
      /\ "write segment" \in Points /\ "fill segment" \in Points /\ "remove" \in Points
      /\ "remove" \notin SealingPoints
  BY DEF Types, Points, SealingPoints
<1>1. CASE Elsewhere
  BY <1>0, <1>1 DEF Elsewhere, SegsTyped, Jobs
<1>2. ASSUME NEW c \in Sealers, SealRead(c) PROVE SegsTyped'
  <2>1. /\ pc' = [pc EXCEPT ![c] = "write segment"] /\ UNCHANGED segs
        /\ lastMs' \in lastMs .. MaxTime /\ lastMs' \in Nat \ {0}
        /\ job' \in [Sealers -> SealJob] /\ job'[c].ms = lastMs'
        /\ \A d \in Sealers : d # c => job'[d] = job[d]
    BY <1>2, SealReadJob
  <2>2. pc' \in [Commands -> Points] /\ \A d \in Commands : d # c => pc'[d] = pc[d]
    BY <1>0, <2>1
  <2>a. lastMs \in Nat /\ MaxTime \in Nat /\ lastMs' \in Nat \ {0} /\ lastMs' \in lastMs .. MaxTime
    BY <1>0, <2>1, TraceDirAssumption
  <2>3. lastMs' <= MaxTime /\ lastMs <= lastMs' /\ lastMs' \in 1 .. lastMs'
    BY <2>a
  <2>4. \A n \in 1 .. lastMs : n \in 1 .. lastMs'
    BY <2>a, <2>3
  <2>5. DOMAIN segs' \subseteq 1 .. lastMs' /\ segs' \in [DOMAIN segs' -> SUBSET Cell]
    BY <1>0, <2>1, <2>4
  <2>6. ASSUME NEW d \in Sealers, pc'[d] \in SealingPoints PROVE job'[d].ms \in 1 .. lastMs'
    <3>1. CASE d = c
      BY <2>1, <2>3, <3>1
    <3>2. CASE d # c
      BY <2>1, <2>2, <2>4, <2>6, <3>2 DEF Jobs, Sealers
    <3>3. QED
      BY <3>1, <3>2
  <2>7. \A t \in DOMAIN segs' : segs'[t] = Partial \/ segs'[t] \subseteq Spans
    BY <2>1 DEF Jobs
  <2>8. QED
    BY <2>1, <2>2, <2>3, <2>5, <2>6, <2>7 DEF SegsTyped, Jobs
<1>3. ASSUME NEW c \in Sealers, SegmentCreate(c) PROVE SegsTyped'
  <2>1. /\ pc[c] = "write segment" /\ pc' = [pc EXCEPT ![c] = "fill segment"]
        /\ segs' = [t \in DOMAIN segs \cup {job[c].ms} |-> IF t = job[c].ms THEN Partial ELSE segs[t]]
        /\ UNCHANGED <<lastMs, job>>
    BY <1>3 DEF SegmentCreate, Goto
  <2>2. job[c].ms \in 1 .. lastMs
    BY <2>1 DEF Jobs, SealingPoints
  <2>3. /\ segs' \in [DOMAIN segs' -> SUBSET Cell] /\ DOMAIN segs' \subseteq 1 .. lastMs'
        /\ \A t \in DOMAIN segs' : segs'[t] = Partial \/ segs'[t] \subseteq Spans
    BY <1>0, <2>1, <2>2 DEF Jobs, Partial, Cell
  <2>4. /\ pc' \in [Commands -> Points] /\ c \in Commands
        /\ \A d \in Sealers : pc'[d] \in SealingPoints => pc[d] \in SealingPoints
    BY <1>0, <2>1 DEF SealingPoints, Sealers
  <2>5. QED
    BY <1>0, <2>1, <2>3, <2>4 DEF SegsTyped, Jobs
<1>4. ASSUME NEW c \in Sealers, SegmentFill(c) PROVE SegsTyped'
  <2>1. /\ pc' = [pc EXCEPT ![c] = "remove"] /\ UNCHANGED lastMs /\ c \in Commands
        /\ \/ segs' = [segs EXCEPT ![job[c].ms] = job[c].spans] /\ UNCHANGED job
           \/ UNCHANGED segs /\ job' = [job EXCEPT ![c].ok = FALSE]
    BY <1>4 DEF SegmentFill, SealWarn, Goto, Sealers
  <2>2. pc' \in [Commands -> Points] /\ \A d \in Sealers : pc'[d] \in SealingPoints => pc'[d] = pc[d]
    BY <1>0, <2>1 DEF Sealers
  <2>3. job' \in [Sealers -> SealJob] /\ \A d \in Sealers : job'[d].ms = job[d].ms
    BY <1>0, <2>1, WarnedJob
  <2>4. job[c].spans \subseteq Spans
    BY <1>0 DEF SealJob
  <2>5. /\ segs' \in [DOMAIN segs' -> SUBSET Cell] /\ DOMAIN segs' = DOMAIN segs
        /\ \A t \in DOMAIN segs' : segs'[t] = Partial \/ segs'[t] \subseteq Spans
    BY <1>0, <2>1, <2>4 DEF Jobs, Cell
  <2>6. QED
    BY <1>0, <2>1, <2>2, <2>3, <2>5 DEF SegsTyped, Jobs
<1>5. QED
  BY <1>1, <1>2, <1>3, <1>4, StepKinds

(* All this holds of an empty directory ...                                *)
LEMMA SharedInit == Init => Shared
<1> SUFFICES ASSUME Init PROVE Shared
  OBVIOUS
<1>1. Types
  BY DirInit DEF DirInv
<1>2. Handles
  BY NoWalHolds DEF Init, Handles
<1>3. History /\ Fresh
  BY DEF Init, History, Fresh
<1>a. Jobs
  <2>1. lastMs <= MaxTime
    BY TraceDirAssumption DEF Init
  <2>2. DOMAIN segs = {} /\ \A c \in Sealers : pc[c] = "off"
    BY DEF Init, Sealers
  <2>3. QED
    BY <2>1, <2>2 DEF Jobs, SealingPoints
<1>4. QED
  BY <1>1, <1>2, <1>3, <1>a DEF Shared

(* ... and every step keeps it, with files that only grow.                 *)
LEMMA SharedNext == ASSUME Shared, [Next]_vars PROVE Shared' /\ Grows
<1>1. FilesTyped' /\ Grows
  BY FilesNext DEF Shared
<1>2. SegsTyped'
  BY SegsNext DEF Shared
<1>3. Types'
  BY <1>1, <1>2 DEF FilesTyped, SegsTyped, Types, History
<1>4. QED
  BY <1>1, <1>2, <1>3 DEF FilesTyped, SegsTyped, Shared

(* Whatever commands overlap, are killed or fail to write, the directory   *)
(* names a file that exists, every handle writes to one, no buffer is      *)
(* larger than its capacity and nothing is durable that was not accepted.  *)
THEOREM DirTypeCorrect == Spec => []TypeOK
<1>1. Shared => TypeOK
  <2> SUFFICES ASSUME Shared PROVE TypeOK
    OBVIOUS
  <2>1. \A c \in Commands : /\ wal[c].file \in DOMAIN files \cup {None}
                            /\ wal[c].offset \in Nat /\ Len(wal[c].buf) <= BufSpans
    BY DEF Shared, Types, Handles, Holds, Handle
  <2>2. lastMs \in 0 .. MaxTime /\ DOMAIN segs \subseteq 1 .. MaxTime
    BY TraceDirAssumption DEF Shared, Types, Jobs
  <2>3. QED
    BY <2>1, <2>2 DEF Shared, Types, Jobs, History, TypeOK, Cell
<1>2. Shared /\ [Next]_vars => Shared'
  BY SharedNext
<1>3. QED
  BY <1>1, <1>2, SharedInit, PTL DEF Spec

----------------------------------------------------------------------------
(* The names of segments.                                                  *)

(* Where no two seals fall in a millisecond, a segment that is being       *)
(* written has a name no other has.                                        *)
Named ==
  /\ \A c \in Sealers : pc[c] = "write segment" => job[c].ms \notin DOMAIN segs
  /\ \A c \in Sealers : pc[c] = "fill segment" =>
       job[c].ms \in DOMAIN segs /\ segs[job[c].ms] = Partial
  /\ \A c, d \in Sealers :
       c # d /\ pc[c] \in SealingPoints /\ pc[d] \in SealingPoints => job[c].ms # job[d].ms

(* Every step keeps the names of unfinished segments apart.                *)
LEMMA NamedNext ==
  ASSUME ~SameMs, Types, Jobs, Named, [Next]_vars
  PROVE  Named'
<1>0. pc \in [Commands -> Points] /\ Sealers \subseteq Commands /\ job \in [Sealers -> SealJob]
  BY DEF Types, Sealers
<1>1. CASE Elsewhere
  <2>1. \A d \in Sealers : pc'[d] \in SealingPoints => pc'[d] = pc[d] /\ job'[d] = job[d]
    BY <1>1 DEF Elsewhere
  <2>2. UNCHANGED segs
    BY <1>1 DEF Elsewhere
  <2>3. QED
    BY <2>1, <2>2 DEF Named, SealingPoints
<1>2. ASSUME NEW c \in Sealers, SealRead(c) PROVE Named'
  <2>1. /\ pc' = [pc EXCEPT ![c] = "write segment"] /\ UNCHANGED segs
        /\ lastMs' \in Nat /\ lastMs' > lastMs
        /\ job'[c].ms = lastMs'
        /\ \A d \in Sealers : d # c => job'[d] = job[d]
    BY <1>2, SealReadJob
  <2>2. pc'[c] = "write segment" /\ \A d \in Sealers : d # c => pc'[d] = pc[d]
    BY <1>0, <2>1
  <2>a. lastMs \in Nat /\ lastMs' \in Nat /\ lastMs' > lastMs
    BY <2>1 DEF Types
  <2>3. lastMs' \notin 1 .. lastMs
    BY <2>a
  <2>4. job'[c].ms \notin DOMAIN segs /\ \A d \in Sealers : pc[d] \in SealingPoints => job[d].ms # job'[c].ms
    BY <2>1, <2>3 DEF Types, Jobs
  <2>5. \A d \in Sealers : pc'[d] = "write segment" => job'[d].ms \notin DOMAIN segs'
    BY <2>1, <2>2, <2>4 DEF Named
  <2>6. \A d \in Sealers : pc'[d] = "fill segment" => job'[d].ms \in DOMAIN segs' /\ segs'[job'[d].ms] = Partial
    BY <2>1, <2>2 DEF Named
  <2>7. \A d, e \in Sealers :
          d # e /\ pc'[d] \in SealingPoints /\ pc'[e] \in SealingPoints => job'[d].ms # job'[e].ms
    <3> SUFFICES ASSUME NEW d \in Sealers, NEW e \in Sealers, d # e,
                        pc'[d] \in SealingPoints, pc'[e] \in SealingPoints
                 PROVE  job'[d].ms # job'[e].ms
      OBVIOUS
    <3>1. CASE d = c
      BY <2>1, <2>2, <2>4, <3>1
    <3>2. CASE e = c
      BY <2>1, <2>2, <2>4, <3>2
    <3>3. CASE d # c /\ e # c
      BY <2>1, <2>2, <3>3 DEF Named
    <3>4. QED
      BY <3>1, <3>2, <3>3
  <2>8. QED
    BY <2>5, <2>6, <2>7 DEF Named
<1>3. ASSUME NEW c \in Sealers, SegmentCreate(c) PROVE Named'
  <2>1. /\ pc[c] = "write segment" /\ pc' = [pc EXCEPT ![c] = "fill segment"]
        /\ segs' = [t \in DOMAIN segs \cup {job[c].ms} |-> IF t = job[c].ms THEN Partial ELSE segs[t]]
        /\ UNCHANGED job
    BY <1>3 DEF SegmentCreate, Goto
  <2>2. pc'[c] = "fill segment" /\ \A d \in Sealers : d # c => pc'[d] = pc[d]
    BY <1>0, <2>1
  <2>3. \A d \in Sealers : d # c /\ pc[d] \in SealingPoints => job[d].ms # job[c].ms
    BY <2>1 DEF Named, SealingPoints
  <2>4. DOMAIN segs' = DOMAIN segs \cup {job[c].ms} /\ segs'[job[c].ms] = Partial
    BY <2>1
  <2>5. ASSUME NEW d \in Sealers, d # c, pc[d] = "write segment" PROVE job[d].ms \notin DOMAIN segs'
    BY <2>3, <2>4, <2>5 DEF Named, SealingPoints
  <2>6. ASSUME NEW d \in Sealers, d # c, pc[d] = "fill segment"
        PROVE  job[d].ms \in DOMAIN segs' /\ segs'[job[d].ms] = Partial
    <3>1. job[d].ms \in DOMAIN segs /\ segs[job[d].ms] = Partial /\ job[d].ms # job[c].ms
      BY <2>3, <2>6 DEF Named, SealingPoints
    <3>2. QED
      BY <2>1, <3>1
  <2>7. \A d, e \in Sealers :
          d # e /\ pc'[d] \in SealingPoints /\ pc'[e] \in SealingPoints => job'[d].ms # job'[e].ms
    <3>1. \A d \in Sealers : pc'[d] \in SealingPoints => pc[d] \in SealingPoints
      BY <2>1, <2>2 DEF SealingPoints
    <3>2. QED
      BY <2>1, <3>1 DEF Named
  <2>8. QED
    BY <2>1, <2>2, <2>4, <2>5, <2>6, <2>7 DEF Named
<1>4. ASSUME NEW c \in Sealers, SegmentFill(c) PROVE Named'
  <2>1. /\ pc[c] = "fill segment" /\ pc' = [pc EXCEPT ![c] = "remove"]
        /\ \/ segs' = [segs EXCEPT ![job[c].ms] = job[c].spans] /\ UNCHANGED job
           \/ UNCHANGED segs /\ job' = [job EXCEPT ![c].ok = FALSE]
    BY <1>4 DEF SegmentFill, SealWarn, Goto
  <2>2. pc'[c] = "remove" /\ \A d \in Sealers : d # c => pc'[d] = pc[d]
    BY <1>0, <2>1
  <2>3. \A d \in Sealers : job'[d].ms = job[d].ms
    BY <2>1, WarnedJob
  <2>4. DOMAIN segs' = DOMAIN segs /\ \A t \in DOMAIN segs : t # job[c].ms => segs'[t] = segs[t]
    BY <2>1
  <2>5. \A d \in Sealers : pc'[d] \in SealingPoints => d # c /\ pc'[d] = pc[d] /\ job[d].ms # job[c].ms
    BY <2>1, <2>2 DEF Named, SealingPoints
  <2>6. \A d \in Sealers : pc'[d] = "write segment" => job'[d].ms \notin DOMAIN segs'
    BY <2>3, <2>4, <2>5 DEF Named, SealingPoints
  <2>7. ASSUME NEW d \in Sealers, pc'[d] = "fill segment"
        PROVE  job'[d].ms \in DOMAIN segs' /\ segs'[job'[d].ms] = Partial
    <3>1. pc[d] = "fill segment" /\ job[d].ms # job[c].ms
      BY <2>5, <2>7 DEF SealingPoints
    <3>2. job[d].ms \in DOMAIN segs /\ segs[job[d].ms] = Partial
      BY <3>1 DEF Named
    <3>3. segs'[job[d].ms] = segs[job[d].ms]
      BY <2>4, <3>1, <3>2
    <3>4. QED
      BY <2>3, <2>4, <3>2, <3>3
  <2>8. \A d, e \in Sealers :
          d # e /\ pc'[d] \in SealingPoints /\ pc'[e] \in SealingPoints => job'[d].ms # job'[e].ms
    BY <2>3, <2>5 DEF Named
  <2>9. QED
    BY <2>6, <2>7, <2>8 DEF Named
<1>5. QED
  BY <1>1, <1>2, <1>3, <1>4, StepKinds

(* So a segment written in full stays as it is.                            *)
LEMMA SegmentsStay ==
  ASSUME Types, Named, [Next]_vars, NEW t \in DOMAIN segs
  PROVE  t \in DOMAIN segs' /\ (segs[t] # Partial => segs'[t] = segs[t])
<1>1. CASE Elsewhere
  BY <1>1 DEF Elsewhere
<1>2. ASSUME NEW c \in Sealers, SealRead(c) PROVE UNCHANGED segs
  BY <1>2 DEF SealRead
<1>3. ASSUME NEW c \in Sealers, SegmentCreate(c)
      PROVE  t \in DOMAIN segs' /\ (segs[t] # Partial => segs'[t] = segs[t])
  <2>1. job[c].ms \notin DOMAIN segs
    BY <1>3 DEF SegmentCreate, Named
  <2>2. QED
    BY <1>3, <2>1 DEF SegmentCreate
<1>4. ASSUME NEW c \in Sealers, SegmentFill(c)
      PROVE  t \in DOMAIN segs' /\ (segs[t] # Partial => segs'[t] = segs[t])
  <2>1. job[c].ms \in DOMAIN segs /\ segs[job[c].ms] = Partial
    BY <1>4 DEF SegmentFill, Named
  <2>2. QED
    BY <1>4, <2>1 DEF SegmentFill, SealWarn
<1>5. QED
  BY <1>1, <1>2, <1>3, <1>4, StepKinds

(* An empty directory has no names.                                        *)
LEMMA NamedInit == Init => Named
BY DEF Init, Named, SealingPoints, Sealers

(***************************************************************************)
(* What a query's answer has while a writer seals, and where spans are     *)
(* while no command is killed.                                             *)
(***************************************************************************)
----------------------------------------------------------------------------
(* What a query owes.                                                      *)

QueryTyped ==
  query \in [todo : SUBSET Nat, listed : Nat \cup {None}, index : Seq(Entry),
             answer : [Spans -> Nat], owed : SUBSET Spans]

Opens == {"open", "header", "recover"}
Found(s) == query.answer[s] >= 1
InLog(f, s) == f # None /\ s \in Reached(files[f])

(* Where a span is that the directory had when the query listed it: in the *)
(* answer, in a segment still to load or in the log that was listed; once  *)
(* that log is replaced it is not owed any more.                           *)
Due(s) ==
  LET L == query.listed IN
  /\ pc["query"] = "load" => Found(s) \/ (\E t \in query.todo : s \in segs[t]) \/ InLog(L, s)
  /\ pc["query"] \in Opens => Found(s) \/ InLog(L, s)
  /\ pc["query"] = "read" =>
       \/ Found(s) \/ live # L
       \/ \E i \in DOMAIN query.index : /\ query.index[i].span = s
                                        /\ CellAt(files[L], query.index[i].offset) = s
  /\ pc["query"] = "answered" => Found(s) \/ (L # None /\ live # L)

Queried ==
  "query" \in Commands =>
    /\ QueryTyped
    /\ query.listed \in DOMAIN files \cup {None}
    /\ query.todo \subseteq DOMAIN segs
    /\ pc["query"] \in Opens \cup {"read"} => query.listed # None
    /\ \A s \in query.owed : Due(s)

(* What recover() reaches in a file it always will.                        *)
LEMMA GrowsKeeps ==
  ASSUME Types, Types', Grows, NEW f \in DOMAIN files
  PROVE  /\ f \in DOMAIN files'
         /\ \A s : s \in Reached(files[f]) => s \in Reached(files'[f])
         /\ \A s \in Spans, off \in Nat : CellAt(files[f], off) = s => CellAt(files'[f], off) = s
<1>1. /\ f \in DOMAIN files' /\ Len(files[f]) <= Len(files'[f])
      /\ \A i \in 1 .. Len(files[f]) : files'[f][i] = files[f][i]
  BY DEF Grows
<1>2. Len(files[f]) \in Nat
  BY FileCells
<1>a. Len(files'[f]) \in Nat
  <2>1. files' \in Seq(Seq(Cell))
    BY DEF Types
  <2>2. DOMAIN files' = 1 .. Len(files') /\ files'[f] \in Seq(Cell)
    BY <1>1, <2>1, LenProperties, ElementOfSeq
  <2>3. QED
    BY <2>2, LenProperties
<1>3. ASSUME NEW s, s \in Reached(files[f]) PROVE s \in Reached(files'[f])
  <2>1. PICK i \in 2 .. Len(files[f]) :
          /\ s = files[f][i] /\ Readable(files[f]) /\ \A k \in 2 .. i : files[f][k] # Header
    BY <1>3 DEF Reached
  <2>2. i \in 2 .. Len(files'[f]) /\ files'[f][i] = s
    BY <1>1, <1>2, <1>a, <2>1
  <2>3. \A k \in 2 .. i : files'[f][k] # Header
    <3>1. \A k \in 2 .. i : k \in 1 .. Len(files[f])
      BY <1>2, <2>1
    <3>2. QED
      BY <1>1, <2>1, <3>1
  <2>4. Readable(files'[f])
    BY <1>1, <1>2, <1>a, <2>1 DEF Readable
  <2>5. QED
    BY <2>2, <2>3, <2>4 DEF Reached
<1>4. ASSUME NEW s \in Spans, NEW off \in Nat, CellAt(files[f], off) = s
      PROVE  CellAt(files'[f], off) = s
  <2>1. off < Len(files[f]) /\ files[f][off + 1] = s
    BY <1>4, TraceDirAssumption DEF CellAt
  <2>2. off + 1 \in 1 .. Len(files[f]) /\ off < Len(files'[f])
    BY <1>1, <1>2, <1>a, <2>1
  <2>3. QED
    BY <1>1, <2>1, <2>2 DEF CellAt
<1>5. QED
  BY <1>1, <1>3, <1>4

(* A log that was replaced is not named again.                             *)
LEMMA NeverAgain ==
  ASSUME Types, Fresh, Grows, NEW f \in DOMAIN files, live # f
  PROVE  live' # f
<1>1. DOMAIN files = 1 .. Len(files) /\ Len(files) \in Nat
  BY LenProperties DEF Types
<1>2. f \in 1 .. Len(files) /\ f # Len(files) + 1 /\ f # None
  BY <1>1, TraceDirAssumption
<1>3. QED
  BY <1>2 DEF Grows

(* The steps of the others.                                                *)
LEMMA OthersAct ==
  ASSUME Types, "query" \in Commands, [Next]_vars
  PROVE  QueryStep \/ (UNCHANGED query /\ pc'["query"] = pc["query"])
<1> USE DEF Types
<1>0. ASSUME NEW c \in Commands, c # "query", NEW to, Goto(c, to)
      PROVE  pc'["query"] = pc["query"]
  BY <1>0 DEF Goto
<1>1. CASE WriteStep
  <2>1. "write" \in Commands /\ UNCHANGED query
    BY <1>1 DEF WriteStep, WriteStart, WriteRecover, WriteEnd, WriteReopen, WriteSpan,
                OpenStep, OpenLog, WriteHeader
  <2>2. \E to : Goto("write", to)
    BY <1>1 DEF WriteStep, WriteStart, WriteRecover, WriteEnd, WriteReopen, WriteSpan, Exit,
                LogExists, OpenStep, OpenLog, WriteHeader
  <2>3. QED
    BY <2>1, <2>2, <1>0
<1>2. CASE "seal" \in Commands /\ (SealStart \/ OpenStep("seal") \/ SealRecover)
  <2>1. "seal" \in Commands /\ UNCHANGED query
    BY <1>2 DEF SealStart, SealRecover, OpenStep, OpenLog, WriteHeader
  <2>2. \E to : Goto("seal", to)
    BY <1>2 DEF SealStart, SealRecover, Exit, LogExists, OpenStep, OpenLog, WriteHeader
  <2>3. QED
    BY <2>1, <2>2, <1>0
<1>3. ASSUME NEW c \in Sealers, SealStep(c) \/ Crash(c)
      PROVE  UNCHANGED query /\ pc'["query"] = pc["query"]
  <2>1. c \in Commands /\ c # "query"
    BY DEF Sealers
  <2>2. UNCHANGED query
    BY <1>3 DEF SealStep, SealRead, SegmentCreate, SegmentFill, SealFailed, RemoveWal, Crash
  <2>3. \E to : Goto(c, to)
    BY <1>3 DEF SealStep, SealRead, SegmentCreate, SegmentFill, SealFailed, RemoveWal, Crash, Killed, Exit
  <2>4. QED
    BY <2>1, <2>2, <2>3, <1>0
<1>4. CASE UNCHANGED vars
  BY <1>4 DEF vars
<1>5. QED
  BY <1>1, <1>2, <1>3, <1>4 DEF Next

(* ... leave a query what it is due.                                       *)
LEMMA OthersLeaveDue ==
  ASSUME "query" \in Commands, Shared, Shared', Named, Queried, Grows, [Next]_vars,
         UNCHANGED query, pc'["query"] = pc["query"]
  PROVE  Queried'
<1>1. /\ QueryTyped /\ query.listed \in DOMAIN files \cup {None} /\ query.todo \subseteq DOMAIN segs
      /\ pc["query"] \in Opens \cup {"read"} => query.listed # None
      /\ Types /\ Types' /\ Fresh
  BY DEF Queried, Shared
<1>2. query.listed \in DOMAIN files' \cup {None} /\ query.todo \subseteq DOMAIN segs'
  BY <1>1, SegmentsStay DEF Grows
<1>3. ASSUME NEW s \in query.owed PROVE Due(s)'
  <2>1. Due(s) /\ s \in Spans
    BY <1>1 DEF Queried, QueryTyped
  <2>2. InLog(query.listed, s) => InLog(query.listed, s)'
    BY <1>1, GrowsKeeps DEF InLog
  <2>3. ASSUME NEW t \in query.todo, s \in segs[t] PROVE s \in segs'[t]
    <3>1. t \in DOMAIN segs /\ segs[t] # Partial
      BY <1>1, <2>1, <2>3, TraceDirAssumption DEF Partial
    <3>2. QED
      BY <1>1, <2>3, <3>1, SegmentsStay
  <2>4. query.listed # None /\ live # query.listed => live' # query.listed
    BY <1>1, NeverAgain
  <2>5. ASSUME NEW i \in DOMAIN query.index, query.listed # None,
               CellAt(files[query.listed], query.index[i].offset) = s
        PROVE  CellAt(files'[query.listed], query.index[i].offset) = s
    <3>1. query.index[i] \in Entry
      BY <1>1, ElementOfSeq, LenProperties DEF QueryTyped
    <3>2. query.index[i].offset \in Nat
      BY <3>1 DEF Entry
    <3>3. QED
      BY <1>1, <2>1, <2>5, <3>2, GrowsKeeps
  <2>6. Found(s)' = Found(s)
    BY DEF Found
  <2>7. pc["query"] = "read" => query.listed # None
    BY <1>1
  <2>8. pc'["query"] = "load" =>
          Found(s)' \/ (\E t \in query'.todo : s \in segs'[t]) \/ InLog(query.listed, s)'
    BY <2>1, <2>2, <2>3, <2>6 DEF Due
  <2>9. pc'["query"] \in Opens => Found(s)' \/ InLog(query.listed, s)'
    BY <2>1, <2>2, <2>6 DEF Due
  <2>10. pc'["query"] = "read" =>
           \/ Found(s)' \/ live' # query'.listed
           \/ \E i \in DOMAIN query'.index : /\ query'.index[i].span = s
                                            /\ CellAt(files'[query'.listed], query'.index[i].offset) = s
    BY <2>1, <2>4, <2>5, <2>6, <2>7 DEF Due
  <2>11. pc'["query"] = "answered" => Found(s)' \/ (query'.listed # None /\ live' # query'.listed)
    BY <2>1, <2>4, <2>6 DEF Due
  <2>12. QED
    BY <2>8, <2>9, <2>10, <2>11 DEF Due
<1>4. QED
  BY <1>1, <1>2, <1>3 DEF Queried, QueryTyped

(* What recover() reaches are spans.                                       *)
LEMMA ReachedSpans ==
  ASSUME Types, live # None
  PROVE  Reached(files[live]) \subseteq Spans
<1> SUFFICES ASSUME NEW s \in Reached(files[live]) PROVE s \in Spans
  OBVIOUS
<1>1. PICK i \in 2 .. Len(files[live]) : s = files[live][i] /\ \A k \in 2 .. i : files[live][k] # Header
  BY DEF Reached
<1>2. live \in DOMAIN files /\ files[live] \in Seq(Cell) /\ Len(files[live]) \in Nat
  BY FileCells DEF Types
<1>3. i \in 1 .. Len(files[live]) /\ i \in 2 .. i
  BY <1>1, <1>2
<1>4. files[live][i] \in Cell /\ files[live][i] # Header
  BY <1>1, <1>2, <1>3, ElementOfSeq
<1>5. QED
  BY <1>1, <1>4 DEF Cell

(* A query owes what the directory has when it is listed.                  *)
LEMMA QueryStartDue ==
  ASSUME "query" \in Commands, Shared, QueryStart
  PROVE  Queried'
<1> DEFINE owed == Sealed \cup IF live = None THEN {} ELSE Reached(files[live])
<1>1. /\ query' = [NoQuery EXCEPT !.todo = DOMAIN segs, !.listed = live, !.owed = owed]
      /\ Goto("query", "load") /\ files' = files /\ live' = live /\ segs' = segs
  BY DEF QueryStart, fs
<1>2. pc'["query"] = "load"
  BY <1>1 DEF Goto, Shared, Types
<1>a. owed \subseteq Spans
  <2>1. live # None => Reached(files[live]) \subseteq Spans
    BY ReachedSpans DEF Shared
  <2>2. Sealed \subseteq Spans
    BY SealedSpans, TraceDirAssumption DEF Shared, Jobs, Partial
  <2>3. QED
    BY <2>1, <2>2
<1>b. ASSUME NEW s \in owed PROVE (\E t \in DOMAIN segs : s \in segs[t]) \/ InLog(live, s)
  BY SealedSpans DEF InLog
<1> HIDE DEF owed
<1>3. /\ query'.todo = DOMAIN segs /\ query'.listed = live /\ query'.index = << >>
      /\ query'.answer = [s \in Spans |-> 0] /\ query'.owed = owed
      /\ query' = [todo |-> DOMAIN segs, listed |-> live, index |-> << >>,
                    answer |-> [s \in Spans |-> 0], owed |-> owed]
  BY <1>1 DEF NoQuery
<1>5. QueryTyped'
  <2>1. DOMAIN segs \subseteq Nat /\ live \in Nat \cup {None} /\ << >> \in Seq(Entry)
    BY EmptySeq, LenProperties DEF Shared, Types
  <2>2. QED
    BY <1>3, <1>a, <2>1 DEF QueryTyped
<1>6. ASSUME NEW s \in query'.owed PROVE Due(s)'
  <2>1. (\E t \in DOMAIN segs : s \in segs[t]) \/ InLog(live, s)
    BY <1>3, <1>6, <1>b
  <2>2. QED
    BY <1>1, <1>2, <1>3, <2>1 DEF Due, InLog, Opens
<1>7. QED
  BY <1>1, <1>2, <1>3, <1>5, <1>6 DEF Queried, Shared, Types, Opens

(* A segment that is loaded is in the answer.                              *)
LEMMA QueryLoadDue ==
  ASSUME "query" \in Commands, Shared, Queried, NEW t \in query.todo, QueryLoad(t)
  PROVE  Queried'
<1> DEFINE more == [s \in Spans |-> query.answer[s] + IF s \in segs[t] THEN 1 ELSE 0]
<1>1. /\ files' = files /\ live' = live /\ segs' = segs /\ pc["query"] = "load"
      /\ \/ Goto("query", "failed") /\ query' = query
         \/ query' = [query EXCEPT !.todo = @ \ {t}, !.answer = more] /\ pc' = pc
  BY DEF QueryLoad, fs
<1>2. /\ QueryTyped /\ query.listed \in DOMAIN files \cup {None} /\ query.todo \subseteq DOMAIN segs
      /\ \A s \in query.owed : Due(s)
  BY DEF Queried
<1>3. CASE Goto("query", "failed") /\ query' = query
  <2>1. pc'["query"] = "failed"
    BY <1>3 DEF Goto, Shared, Types
  <2>2. QED
    BY <1>1, <1>2, <1>3, <2>1 DEF Queried, QueryTyped, Due, Opens
<1>4. CASE query' = [query EXCEPT !.todo = @ \ {t}, !.answer = more] /\ pc' = pc
  <2>1. more \in [Spans -> Nat] /\ \A s \in Spans : more[s] >= query.answer[s] /\ (s \in segs[t] => more[s] >= 1)
    BY <1>2 DEF QueryTyped
  <2> HIDE DEF more
  <2>2. /\ query'.todo = query.todo \ {t} /\ query'.answer = more /\ query'.listed = query.listed
        /\ query'.owed = query.owed /\ QueryTyped'
    BY <1>2, <1>4, <2>1 DEF QueryTyped
  <2>3. ASSUME NEW s \in query.owed PROVE Due(s)'
    <3>1. s \in Spans /\ Due(s) /\ query.answer[s] \in Nat /\ more[s] \in Nat
      BY <1>2, <2>1 DEF QueryTyped
    <3>2. Found(s) \/ (\E u \in query.todo : s \in segs[u]) \/ InLog(query.listed, s)
      BY <1>1, <3>1 DEF Due
    <3>3. Found(s) \/ s \in segs[t] => Found(s)'
      BY <2>1, <2>2, <3>1 DEF Found
    <3>4. Found(s)' \/ (\E u \in query'.todo : s \in segs'[u]) \/ InLog(query.listed, s)'
      BY <1>1, <2>2, <3>2, <3>3 DEF InLog
    <3>5. QED
      BY <1>1, <1>4, <2>2, <3>4 DEF Due, Opens
  <2>4. QED
    BY <1>1, <1>2, <1>4, <2>2, <2>3 DEF Queried, Opens
<1>5. QED
  BY <1>1, <1>3, <1>4

(* With every segment loaded, what is missing is in the listed log.        *)
LEMMA QueryOpenWalDue ==
  ASSUME "query" \in Commands, Shared, Shared', Grows, Queried, QueryOpenWal
  PROVE  Queried'
<1>1. /\ QueryTyped /\ query.listed \in DOMAIN files \cup {None} /\ query.todo = {}
      /\ \A s \in query.owed : Due(s)
      /\ pc["query"] = "load" /\ query' = query /\ segs' = segs
  BY DEF Queried, QueryOpenWal, fs
<1>2. \A s \in query.owed : Found(s) \/ InLog(query.listed, s)
  BY <1>1 DEF Due
<1>3. CASE query.listed # None
  <2>1. pc'["query"] = "open"
    BY <1>3 DEF QueryOpenWal, LogExists, Goto, Shared, Types
  <2>2. query.listed \in DOMAIN files'
    BY <1>1, <1>3 DEF Grows
  <2>3. ASSUME NEW s \in query.owed PROVE Found(s)' \/ InLog(query.listed, s)'
    BY <1>1, <1>2, <1>3, GrowsKeeps DEF Found, InLog, Shared
  <2>4. QED
    BY <1>1, <1>3, <2>1, <2>2, <2>3 DEF Queried, QueryTyped, Due, Opens
<1>4. CASE query.listed = None
  <2>1. pc'["query"] = "answered" /\ files' = files
    BY <1>4 DEF QueryOpenWal, Goto, Shared, Types, fs
  <2>2. \A s \in query.owed : Found(s)
    BY <1>2, <1>4 DEF InLog
  <2>3. QED
    BY <1>1, <1>4, <2>1, <2>2 DEF Queried, QueryTyped, Due, Opens, Found
<1>5. QED
  BY <1>3, <1>4

(* Opening the log, or writing its header, takes nothing from it.          *)
LEMMA QueryOpensDue ==
  ASSUME "query" \in Commands, Shared, Shared', Grows, Queried, OpenStep("query")
  PROVE  Queried'
<1>1. /\ QueryTyped /\ query.listed \in DOMAIN files \cup {None} /\ query.todo \subseteq DOMAIN segs
      /\ query.listed # None
      /\ \A s \in query.owed : Found(s) \/ InLog(query.listed, s)
      /\ query' = query /\ segs' = segs
  BY DEF Queried, Due, Opens, OpenStep, OpenLog, WriteHeader
<1>2. pc'["query"] \in Opens \cup {"run"}
  <2>1. wal["query"].then \in {"recover", "run"}
    BY DEF Shared, Types, Handle
  <2>2. pc'["query"] \in {"header", wal["query"].then}
    BY DEF OpenStep, OpenLog, WriteHeader, Goto, Shared, Types
  <2>3. QED
    BY <2>1, <2>2 DEF Opens
<1>3. query.listed \in DOMAIN files'
  BY <1>1 DEF Grows
<1>4. ASSUME NEW s \in query.owed PROVE Found(s)' \/ InLog(query.listed, s)'
  BY <1>1, GrowsKeeps DEF Found, InLog, Shared
<1>5. QED
  BY <1>1, <1>2, <1>3, <1>4 DEF Queried, QueryTyped, Due, Opens

(* recover() indexes all the log has, if it is still the listed one.       *)
LEMMA QueryRecoverDue ==
  ASSUME "query" \in Commands, Shared, Queried, QueryRecover
  PROVE  Queried'
<1>1. /\ QueryTyped /\ query.listed \in DOMAIN files /\ query.todo \subseteq DOMAIN segs
      /\ query.listed # None
      /\ \A s \in query.owed : Due(s)
      /\ pc["query"] = "recover" /\ files' = files /\ live' = live /\ segs' = segs
  BY DEF Queried, QueryRecover, fs, Opens
<1>2. CASE Goto("query", "failed") /\ UNCHANGED query
  <2>1. pc'["query"] = "failed"
    BY <1>2 DEF Goto, Shared, Types
  <2>2. QED
    BY <1>1, <1>2, <2>1 DEF Queried, QueryTyped, Due, Opens
<1>3. ASSUME ~Logless, Goto("query", "read"), NEW n \in 1 .. Len(files[live]),
             StopsAt(files[live], n), query' = [query EXCEPT !.index = IndexOf(files[live], n)]
      PROVE  Queried'
  <2> DEFINE index == IndexOf(files[live], n)
  <2>1. query' = [query EXCEPT !.index = index] /\ pc'["query"] = "read"
    BY <1>3 DEF Goto, Shared, Types
  <2>a. live \in DOMAIN files /\ files[live] \in Seq(Cell) /\ Len(files[live]) \in Nat
    BY <1>3, FileCells DEF Shared, Types, Logless
  <2>2. index \in Seq(Entry)
    BY <1>3, <2>a, RecoveredIndex
  <2>b. ASSUME NEW s \in Spans, s \in Reached(files[live])
        PROVE  \E i \in DOMAIN index : index[i].span = s /\ CellAt(files[live], index[i].offset) = s
    <3>1. PICK j \in 2 .. Len(files[live]) : s = files[live][j] /\ \A k \in 2 .. j : files[live][k] # Header
      BY <2>b DEF Reached
    <3>2. n < j => n + 1 \in 2 .. j /\ n < Len(files[live])
      BY <1>3, <2>a, <3>1
    <3>3. ~(n < j)
      BY <1>3, <3>1, <3>2 DEF StopsAt
    <3>4. j - 1 \in 1 .. n - 1 /\ (j - 1) + 1 = j /\ j - 1 < Len(files[live])
      BY <1>3, <2>a, <3>1, <3>3
    <3>5. j - 1 \in DOMAIN index /\ index[j - 1] = [span |-> files[live][j], offset |-> j - 1]
      BY <3>4 DEF IndexOf
    <3>6. CellAt(files[live], j - 1) = s
      BY <3>1, <3>4 DEF CellAt
    <3>7. QED
      BY <3>1, <3>5, <3>6
  <2> HIDE DEF index
  <2>3. /\ query'.todo = query.todo /\ query'.answer = query.answer /\ query'.listed = query.listed
        /\ query'.owed = query.owed /\ query'.index = index /\ QueryTyped'
    BY <1>1, <2>1, <2>2 DEF QueryTyped
  <2>4. ASSUME NEW s \in query.owed PROVE Due(s)'
    <3>1. s \in Spans /\ (Found(s) \/ InLog(query.listed, s))
      BY <1>1 DEF Due, Opens, QueryTyped
    <3>2. live = query.listed /\ InLog(query.listed, s) =>
            \E i \in DOMAIN index : index[i].span = s /\ CellAt(files[live], index[i].offset) = s
      BY <2>b, <3>1 DEF InLog
    <3>3. \/ Found(s)' \/ live' # query'.listed
          \/ \E i \in DOMAIN query'.index :
               query'.index[i].span = s /\ CellAt(files'[query'.listed], query'.index[i].offset) = s
      BY <1>1, <2>3, <3>1, <3>2 DEF Found
    <3>4. QED
      BY <2>1, <3>3 DEF Due, Opens
  <2>5. QED
    BY <1>1, <2>1, <2>3, <2>4 DEF Queried
<1>4. QED
  BY <1>2, <1>3 DEF QueryRecover

(* What the index finds in the file is in the answer.                      *)
LEMMA QueryReadDue ==
  ASSUME "query" \in Commands, Shared, Queried, QueryRead
  PROVE  Queried'
<1> DEFINE here(s) == \E i \in DOMAIN query.index :
                        /\ query.index[i].span = s
                        /\ CellAt(files[live], query.index[i].offset) = s
           more == [s \in Spans |-> query.answer[s] + IF here(s) THEN 1 ELSE 0]
<1>1. /\ QueryTyped /\ query.listed \in DOMAIN files /\ query.todo \subseteq DOMAIN segs
      /\ query.listed # None
      /\ \A s \in query.owed : Due(s)
      /\ pc["query"] = "read" /\ files' = files /\ live' = live /\ segs' = segs
  BY DEF Queried, QueryRead, fs, Opens
<1>2. CASE live = None
  <2>1. pc'["query"] = "failed" /\ query' = query
    BY <1>2 DEF QueryRead, Goto, Shared, Types
  <2>2. QED
    BY <1>1, <2>1 DEF Queried, QueryTyped, Due, Opens
<1>3. CASE live # None
  <2>1. query' = [query EXCEPT !.answer = more] /\ pc'["query"] = "answered"
    BY <1>3 DEF QueryRead, Goto, Shared, Types
  <2>2. more \in [Spans -> Nat] /\ \A s \in Spans : more[s] >= query.answer[s] /\ (here(s) => more[s] >= 1)
    BY <1>1 DEF QueryTyped
  <2> HIDE DEF more
  <2>3. /\ query'.todo = query.todo /\ query'.answer = more /\ query'.listed = query.listed
        /\ query'.owed = query.owed /\ QueryTyped'
    BY <1>1, <2>1, <2>2 DEF QueryTyped
  <2>4. ASSUME NEW s \in query.owed PROVE Due(s)'
    <3>1. s \in Spans /\ query.answer[s] \in Nat /\ more[s] \in Nat
      BY <1>1, <2>2 DEF QueryTyped
    <3>2. Found(s) \/ live # query.listed \/ here(s)
      BY <1>1 DEF Due
    <3>3. Found(s) \/ here(s) => Found(s)'
      BY <2>2, <2>3, <3>1 DEF Found
    <3>4. Found(s)' \/ (query'.listed # None /\ live' # query'.listed)
      BY <1>1, <2>3, <3>2, <3>3
    <3>5. QED
      BY <2>1, <3>4 DEF Due, Opens
  <2>5. QED
    BY <1>1, <2>1, <2>3, <2>4 DEF Queried, Opens
<1>4. QED
  BY <1>2, <1>3

(* No query is running at first.                                           *)
LEMMA QueriedInit == Init => Queried
<1>1. << >> \in Seq(Entry)
  BY EmptySeq
<1>2. QED
  BY <1>1 DEF Init, NoQuery, Queried, QueryTyped, Due, Opens

(* A query that has ended, or was killed, owes nothing.                    *)
LEMMA QueryEndDue ==
  ASSUME "query" \in Commands, Shared, QueryEnd \/ QueryCrash
  PROVE  Queried'
<1>1. query' = NoQuery /\ pc'["query"] = "off"
  BY DEF QueryEnd, QueryCrash, Killed, Exit, Goto, Shared, Types
<1>2. << >> \in Seq(Entry)
  BY EmptySeq
<1>3. QueryTyped' /\ query'.listed = None /\ query'.todo = {} /\ query'.owed = {}
  BY <1>1, <1>2 DEF NoQuery, QueryTyped
<1>4. QED
  BY <1>1, <1>3 DEF Queried, Opens

(* Every step leaves a query what it is due.                               *)
LEMMA QueriedNext ==
  ASSUME Shared, Named, Queried, [Next]_vars
  PROVE  Queried'
<1>1. Shared' /\ Grows
  BY SharedNext
<1>2. CASE "query" \in Commands /\ QueryStep
  BY <1>1, <1>2, QueryStartDue, QueryLoadDue, QueryOpenWalDue, QueryOpensDue, QueryRecoverDue,
     QueryReadDue, QueryEndDue DEF QueryStep
<1>3. CASE "query" \in Commands /\ UNCHANGED query /\ pc'["query"] = pc["query"]
  BY <1>1, <1>3, OthersLeaveDue
<1>4. CASE "query" \notin Commands
  BY <1>4 DEF Queried
<1>5. QED
  BY <1>2, <1>3, <1>4, OthersAct DEF Shared

(* segment_reader.rs promises "all spans belonging to a trace".  Whatever  *)
(* is appended, sealed, killed or fails meanwhile, an answer has every     *)
(* span of a segment the directory had when the query listed it, and every *)
(* span recover() reaches in the log it listed, unless that log has been   *)
(* removed since (seals fall in different milliseconds).  What lies behind *)
(* a second header, written by two commands that both found no log, is     *)
(* reached by no recover(), and no answer has it.                          *)
THEOREM AnswerHasWhatWasListed ==
  ASSUME ~SameMs
  PROVE  Spec => []AnswerCompleteIfLogKept
<1> DEFINE Inv == Shared /\ Named /\ Queried
<1>1. Inv => AnswerCompleteIfLogKept
  <2> SUFFICES ASSUME Queried, "query" \in Commands, pc["query"] = "answered",
                      live = query.listed, NEW s \in query.owed
               PROVE  query.answer[s] >= 1
    BY DEF AnswerCompleteIfLogKept, AnswerComplete
  <2>1. Due(s)
    BY DEF Queried
  <2>2. QED
    BY <2>1 DEF Due, Found, Opens
<1>2. Inv /\ [Next]_vars => Inv'
  BY SharedNext, NamedNext, QueriedNext DEF Shared
<1>3. Init => Inv
  BY SharedInit, NamedInit, QueriedInit
<1> HIDE DEF Inv
<1>4. QED
  BY <1>1, <1>2, <1>3, PTL DEF Spec

----------------------------------------------------------------------------
(* Where spans are.                                                        *)

(* One sealing command at a time: no two commands overlap, or only         *)
(* `write` seals.                                                          *)
OneSealer == ~Overlap \/ "seal" \notin Commands

Turns == ~Overlap => Alone
Sole == \A c, d \in Sealers : pc[c] # "off" /\ pc[d] # "off" => c = d

(* Between its open and its remove_file a sealing command's handle is on   *)
(* the log the directory names.                                            *)
AtLog == {"header", "recover", "run", "seal", "write segment", "fill segment", "remove"}
HasLog == \A c \in Sealers : pc[c] \in AtLog => live # None /\ wal[c].file = live

Disjoint == \A t, u \in DOMAIN segs : t # u => segs[t] \cap segs[u] \subseteq Partial

(* Until a command is killed, a span is in one buffer, or in the log, or   *)
(* in one segment; a job holds spans of the log, which are in a segment    *)
(* too from the end of the job's fs::write to remove_file.                 *)
Placed ==
  /\ Disjoint
  /\ InLive \cap Sealed = {} \/ \E c \in Sealers : pc[c] = "remove"
  /\ InLive \cup Sealed \subseteq durable
  /\ \A c \in Commands : SpansIn(wal[c].buf) \cap (InLive \cup Sealed) = {}
  /\ \A c \in Commands \ {"write"} : wal[c].buf = << >>
  /\ \A c \in Sealers : pc[c] \in SealingPoints => job[c].spans \subseteq InLive

Once == crashes \in Nat /\ (crashes = 0 => Placed)

(* A command moves only when it runs or starts.                            *)
LEMMA Moves ==
  ASSUME Types, [Next]_vars
  PROVE  \/ UNCHANGED pc
         \/ \E c \in Commands, to \in Points : (pc[c] # "off" \/ Start(c)) /\ Goto(c, to)
<1>0. /\ {"off", "open", "header", "recover", "run", "seal", "write segment", "fill segment",
          "remove", "reopen", "load", "read", "answered", "failed"} = Points
      /\ Sealers \subseteq Commands /\ wal \in [Commands -> Handle]
  BY DEF Points, Sealers, Types
<1> DEFINE Moved(c) == \E to \in Points : (pc[c] # "off" \/ Start(c)) /\ Goto(c, to)
<1>o. ASSUME NEW c \in Commands, OpenStep(c) PROVE Moved(c)
  <2>1. wal[c].then \in Points
    BY <1>0 DEF Handle
  <2>2. pc[c] # "off" /\ (Goto(c, "header") \/ Goto(c, wal[c].then))
    BY <1>o DEF OpenStep, OpenLog, WriteHeader
  <2>3. QED
    BY <1>0, <2>1, <2>2
<1>1. CASE WriteStep
  <2>1. "write" \in Commands
    BY <1>1 DEF WriteStep
  <2>2. ASSUME NEW s \in Spans, WriteSpan(s) PROVE Moved("write")
    <3>1. pc["write"] # "off" /\ (Goto("write", "seal") \/ Goto("write", "run"))
      BY <2>2 DEF WriteSpan
    <3>2. QED
      BY <1>0, <3>1
  <2>3. WriteStart \/ WriteRecover \/ WriteEnd \/ WriteReopen => Moved("write")
    BY <1>0 DEF WriteStart, WriteRecover, WriteEnd, WriteReopen, LogExists, Exit
  <2>4. OpenStep("write") => Moved("write")
    BY <1>o, <2>1
  <2> HIDE DEF Moved
  <2>5. Moved("write")
    BY <1>1, <2>2, <2>3, <2>4 DEF WriteStep
  <2>6. QED
    BY <2>1, <2>5 DEF Moved
<1>2. CASE "seal" \in Commands /\ (SealStart \/ OpenStep("seal") \/ SealRecover)
  <2>1. Moved("seal")
    BY <1>0, <1>o, <1>2 DEF SealStart, SealRecover, LogExists, Exit
  <2>2. QED
    BY <1>2, <2>1
<1>3. ASSUME NEW c \in Sealers, SealStep(c) \/ Crash(c) PROVE c \in Commands /\ Moved(c)
  BY <1>0, <1>3 DEF SealStep, SealRead, SegmentCreate, SegmentFill, SealFailed, RemoveWal, Crash,
     Killed, Exit
<1>4. CASE QueryStep
  <2>1. "query" \in Commands
    BY <1>4 DEF QueryStep
  <2>2. OpenStep("query") => Moved("query")
    BY <1>o, <2>1
  <2>3. \/ QueryStart \/ QueryOpenWal \/ QueryRecover \/ QueryRead \/ QueryEnd \/ QueryCrash
        \/ \E t \in query.todo : QueryLoad(t)
        => UNCHANGED pc \/ Moved("query")
    BY <1>0 DEF QueryStart, QueryOpenWal, QueryRecover, QueryRead, QueryEnd, QueryCrash, Killed,
       QueryLoad, LogExists, Exit
  <2> HIDE DEF Moved
  <2>4. UNCHANGED pc \/ Moved("query")
    BY <1>4, <2>2, <2>3 DEF QueryStep
  <2>5. QED
    BY <2>1, <2>4 DEF Moved
<1>5. CASE UNCHANGED vars
  BY <1>5 DEF vars
<1>6. QED
  BY <1>1, <1>2, <1>3, <1>4, <1>5 DEF Next

(* Commands that may not overlap take turns.                               *)
LEMMA TurnsNext == ASSUME Types, Turns, [Next]_vars PROVE Turns'
<1> SUFFICES ASSUME ~Overlap PROVE Alone'
  BY DEF Turns
<1>1. Alone
  BY DEF Turns
<1>2. CASE UNCHANGED pc
  BY <1>1, <1>2 DEF Alone
<1>3. ASSUME NEW c \in Commands, NEW to \in Points, pc[c] # "off" \/ Start(c), Goto(c, to)
      PROVE  Alone'
  BY <1>1, <1>3, OthersOff
<1>4. QED
  BY <1>2, <1>3, Moves

(* So one sealing command runs at a time.                                  *)
LEMMA SoleSealer == ASSUME OneSealer PROVE (Turns => Sole) /\ (Turns' => Sole')
<1>1. CASE ~Overlap
  BY <1>1 DEF Turns, Alone, Sole, Sealers
<1>2. CASE "seal" \notin Commands
  <2>1. Sealers \subseteq {"write"}
    BY <1>2, TraceDirAssumption DEF Sealers
  <2>2. QED
    BY <2>1 DEF Sole
<1>3. QED
  BY <1>1, <1>2 DEF OneSealer

(* What a step of the one sealing command leaves of the others.            *)
LEMMA OnlySealer ==
  ASSUME Types, Sole', NEW c \in Sealers, NEW to, Goto(c, to), Sole, pc[c] # "off" \/ to # "off"
  PROVE  pc'[c] = to /\ \A d \in Sealers : d # c => pc'[d] = "off"
<1>1. pc'[c] = to /\ \A d \in Sealers : d # c => pc'[d] = pc[d]
  BY DEF Types, Goto, Sealers
<1>2. QED
  BY <1>1 DEF Sole

(* The steps that keep the log, the segments and the spans where they are. *)
LEMMA PlacedStays ==
  ASSUME Types, Once, Elsewhere, InLive' = InLive, UNCHANGED <<durable, crashes>>,
         \A d \in Commands : wal'[d].buf = wal[d].buf \/ wal'[d].buf = << >>,
         \A d \in Sealers : pc[d] = "remove" => pc'[d] = "remove"
  PROVE  Once'
<1> SUFFICES ASSUME crashes = 0 PROVE Placed'
  BY DEF Once
<1>1. Placed /\ segs' = segs /\ Sealed' = Sealed /\ SpansIn(<< >>) = {}
  BY DEF Once, Elsewhere, Sealed, SpansIn
<1>2. Disjoint' /\ (InLive' \cup Sealed' \subseteq durable')
  BY <1>1 DEF Placed, Disjoint
<1>3. InLive' \cap Sealed' = {} \/ \E c \in Sealers : pc'[c] = "remove"
  BY <1>1 DEF Placed
<1>4. ASSUME NEW d \in Commands PROVE SpansIn(wal'[d].buf) \cap (InLive' \cup Sealed') = {}
  <2>1. CASE wal'[d].buf = wal[d].buf
    BY <1>1, <2>1 DEF Placed
  <2>2. CASE wal'[d].buf = << >>
    BY <1>1, <2>2
  <2>3. QED
    BY <2>1, <2>2
<1>5. \A d \in Commands \ {"write"} : wal'[d].buf = << >>
  BY <1>1 DEF Placed
<1>6. \A d \in Sealers : pc'[d] \in SealingPoints => job'[d].spans \subseteq InLive'
  BY <1>1 DEF Elsewhere, Placed
<1>7. QED
  BY <1>2, <1>3, <1>4, <1>5, <1>6 DEF Placed

(* A sealing command keeps its log from open to remove_file.               *)
LEMMA HasLogNext ==
  ASSUME Types, OneSealer, Turns, HasLog, [Next]_vars
  PROVE  HasLog'
<1>0. /\ Sole /\ Sole' /\ Sealers \subseteq Commands
      /\ AtLog \subseteq Points /\ "off" \notin AtLog /\ "reopen" \notin AtLog
      /\ {"header", "recover", "run", "seal", "write segment", "fill segment", "remove"} = AtLog
      /\ "open" \notin AtLog /\ Types
  BY SoleSealer, TurnsNext DEF Sealers, AtLog, Points
<1>a. ASSUME NEW c \in Sealers, LogExists(c, "recover") \/ LogExists(c, "run") PROVE HasLog'
  <2>1. Goto(c, "open")
    BY <1>a DEF LogExists
  <2>2. pc'[c] = "open" /\ \A d \in Sealers : d # c => pc'[d] = "off"
    BY <1>0, <2>1, OnlySealer
  <2>3. QED
    BY <1>0, <2>2 DEF HasLog
<1>b. ASSUME NEW c \in Sealers, pc[c] \in AtLog, NEW to, Goto(c, to),
             to \notin AtLog \/ (live' = live /\ wal'[c].file = wal[c].file)
      PROVE  HasLog'
  <2>1. pc'[c] = to /\ \A d \in Sealers : d # c => pc'[d] = "off"
    BY <1>0, <1>b, OnlySealer
  <2>2. live # None /\ wal[c].file = live
    BY <1>b DEF HasLog
  <2>3. QED
    BY <1>0, <1>b, <2>1, <2>2 DEF HasLog
<1>c. ASSUME NEW w \in Handle, NEW n PROVE Recovered(w, n).file = w.file
  BY DEF Recovered, Handle
<1>o. ASSUME NEW c \in Sealers, OpenStep(c) PROVE HasLog'
  <2>1. wal[c].then \in {"recover", "run"}
    BY <1>0 DEF Types, Handle
  <2>2. CASE OpenLog(c)
    <3>1. live' # None /\ wal'[c].file = live'
      BY <1>0, <2>2, Opened
    <3>2. PICK to : to # "off" /\ Goto(c, to)
      BY <2>1, <2>2 DEF OpenLog
    <3>3. \A d \in Sealers : d # c => pc'[d] = "off"
      BY <1>0, <3>2, OnlySealer
    <3>4. QED
      BY <1>0, <3>1, <3>3 DEF HasLog
  <2>3. CASE WriteHeader(c)
    <3>1. pc[c] \in AtLog /\ live' = live /\ Goto(c, wal[c].then)
      BY <1>0, <2>3 DEF WriteHeader
    <3>2. wal'[c].file = wal[c].file
      BY <1>0, <2>3, Headed
    <3>3. QED
      BY <1>b, <3>1, <3>2
  <2>4. QED
    BY <1>o, <2>2, <2>3 DEF OpenStep
<1>1. CASE WriteStep
  <2>1. "write" \in Sealers /\ wal["write"] \in Handle
    BY <1>1 DEF WriteStep, Sealers, Types
  <2>2. CASE WriteStart
    BY <1>a, <2>1, <2>2 DEF WriteStart
  <2>3. CASE WriteReopen
    BY <1>a, <2>1, <2>3 DEF WriteReopen
  <2>4. CASE WriteRecover
    <3>1. pc["write"] \in AtLog /\ live' = live
      BY <1>0, <2>4 DEF WriteRecover, fs
    <3>2. CASE Exit("write")
      BY <1>0, <1>b, <2>1, <3>1, <3>2 DEF Exit
    <3>3. CASE UNCHANGED wal /\ Goto("write", "run")
      BY <1>b, <2>1, <3>1, <3>3
    <3>4. ASSUME Goto("write", "run"), NEW n, wal' = [wal EXCEPT !["write"] = Recovered(@, n)]
          PROVE  HasLog'
      <4>1. wal'["write"] = Recovered(wal["write"], n)
        BY <1>0, <2>1, <3>4 DEF Types
      <4>2. wal'["write"].file = wal["write"].file
        BY <1>c, <2>1, <4>1
      <4>3. QED
        BY <1>b, <2>1, <3>1, <3>4, <4>2
    <3>5. QED
      BY <2>4, <3>2, <3>3, <3>4 DEF WriteRecover
  <2>5. CASE WriteEnd
    BY <1>0, <1>b, <2>1, <2>5 DEF WriteEnd, Exit
  <2>6. ASSUME NEW s \in Spans, WriteSpan(s) PROVE HasLog'
    <3>1. /\ pc["write"] \in AtLog /\ live' = live
          /\ wal' = [wal EXCEPT !["write"] = Appended(wal["write"], s)]
          /\ Goto("write", "seal") \/ Goto("write", "run")
      BY <1>0, <2>6 DEF WriteSpan
    <3>2. wal'["write"].file = wal["write"].file
      BY <1>0, <2>1, <3>1 DEF Types, Appended, Handle
    <3>3. QED
      BY <1>b, <2>1, <3>1, <3>2
  <2>7. QED
    BY <1>1, <1>o, <2>1, <2>2, <2>3, <2>4, <2>5, <2>6 DEF WriteStep
<1>2. CASE "seal" \in Commands /\ (SealStart \/ OpenStep("seal") \/ SealRecover)
  <2>1. "seal" \in Sealers /\ wal["seal"] \in Handle
    BY <1>2 DEF Sealers, Types
  <2>2. CASE SealStart
    BY <1>a, <2>1, <2>2 DEF SealStart
  <2>3. CASE SealRecover
    <3>1. pc["seal"] \in AtLog /\ live' = live
      BY <1>0, <2>3 DEF SealRecover, fs
    <3>2. CASE Exit("seal")
      BY <1>0, <1>b, <2>1, <3>1, <3>2 DEF Exit
    <3>3. ASSUME Goto("seal", "seal"), NEW n, wal' = [wal EXCEPT !["seal"] = Recovered(@, n)]
          PROVE  HasLog'
      <4>1. wal'["seal"] = Recovered(wal["seal"], n)
        BY <1>0, <2>1, <3>3 DEF Types
      <4>2. wal'["seal"].file = wal["seal"].file
        BY <1>c, <2>1, <4>1
      <4>3. QED
        BY <1>b, <2>1, <3>1, <3>3, <4>2
    <3>4. QED
      BY <2>3, <3>2, <3>3 DEF SealRecover
  <2>4. QED
    BY <1>2, <1>o, <2>1, <2>2, <2>3
<1>3. ASSUME NEW c \in Sealers, SealStep(c) \/ Crash(c) PROVE HasLog'
  <2>0. wal[c] \in Handle /\ wal \in [Commands -> Handle]
    BY <1>0 DEF Types
  <2>1. CASE SealRead(c)
    <3>1. /\ pc[c] \in AtLog /\ Goto(c, "write segment") /\ live' = live
          /\ wal' = [wal EXCEPT ![c].buf = << >>]
      BY <1>0, <2>1 DEF SealRead
    <3>2. wal'[c].file = wal[c].file
      BY <1>0, <2>0, <3>1 DEF Handle
    <3>3. QED
      BY <1>b, <3>1, <3>2
  <2>2. CASE SegmentCreate(c) \/ SegmentFill(c) \/ SealFailed(c)
    BY <1>0, <1>b, <2>2 DEF SegmentCreate, SegmentFill, SealFailed
  <2>3. CASE RemoveWal(c)
    BY <1>0, <1>b, <2>3 DEF RemoveWal, Exit
  <2>4. CASE Crash(c)
    <3>1. Goto(c, "off") /\ live' = live /\ pc[c] # "off"
      BY <2>4 DEF Crash, Killed, Exit, fs
    <3>2. pc'[c] = "off" /\ \A d \in Sealers : d # c => pc'[d] = "off"
      BY <1>0, <3>1 DEF Goto, Types, Sole
    <3>3. QED
      BY <1>0, <3>2 DEF HasLog
  <2>5. QED
    BY <1>3, <2>1, <2>2, <2>3, <2>4 DEF SealStep
<1>4. CASE QueryStep
  <2>1. "query" \in Commands /\ "query" \notin Sealers
    BY <1>4 DEF QueryStep, Sealers
  <2>2. \A d \in Sealers : pc'[d] = pc[d] /\ wal'[d] = wal[d]
    <3>1. ASSUME NEW to, Goto("query", to) PROVE \A d \in Sealers : pc'[d] = pc[d]
      BY <1>0, <2>1, <3>1 DEF Goto, Types
    <3>2. ASSUME Exit("query") PROVE \A d \in Sealers : wal'[d] = wal[d]
      BY <1>0, <2>1, <3>2 DEF Exit, Types
    <3>3. ASSUME LogExists("query", "recover") \/ OpenStep("query")
          PROVE  \A d \in Sealers : wal'[d] = wal[d]
      BY <1>0, <2>1, <3>3 DEF LogExists, OpenStep, OpenLog, WriteHeader, Types
    <3>4. \A d \in Sealers : pc'[d] = pc[d]
      BY <1>4, <3>1 DEF QueryStep, QueryStart, QueryOpenWal, QueryRecover, QueryRead, QueryEnd,
         QueryCrash, Killed, QueryLoad, LogExists, OpenStep, OpenLog, WriteHeader, Exit
    <3>5. \A d \in Sealers : wal'[d] = wal[d]
      BY <1>4, <3>2, <3>3 DEF QueryStep, QueryStart, QueryOpenWal, QueryRecover, QueryRead,
         QueryEnd, QueryCrash, Killed, QueryLoad
    <3>6. QED
      BY <3>4, <3>5
  <2>3. live # None => live' = live
    BY <1>4 DEF QueryStep, QueryStart, QueryOpenWal, QueryRecover, QueryRead, QueryEnd,
       QueryCrash, QueryLoad, OpenStep, OpenLog, WriteHeader, fs
  <2>4. QED
    BY <2>2, <2>3 DEF HasLog
<1>5. CASE UNCHANGED vars
  BY <1>5 DEF vars, HasLog
<1>6. QED
  BY <1>1, <1>2, <1>3, <1>4, <1>5 DEF Next

(* A command that writes what it buffered into the log moves those spans.  *)
LEMMA PlacedFlush ==
  ASSUME Types, Sole, Placed, NEW c \in Sealers, pc[c] \notin {"off", "remove"},
         NEW F, F = {} \/ F = SpansIn(wal[c].buf),
         InLive' = InLive \cup F, durable' = durable \cup F, segs' = segs,
         \A d \in Commands : d # c => wal'[d] = wal[d],
         SpansIn(wal'[c].buf) \cap (InLive' \cup Sealed') = {},
         c # "write" => wal'[c].buf = << >>,
         \A d \in Sealers : d # c => pc'[d] = "off",
         pc'[c] \in SealingPoints => job'[c].spans \subseteq InLive'
  PROVE  Placed'
<1>0. Sealers \subseteq Commands /\ SpansIn(<< >>) = {} /\ Sealed' = Sealed /\ "off" \notin SealingPoints
  <2>1. Sealed' = Sealed
    BY DEF Sealed
  <2>2. SpansIn(<< >>) = {}
    BY DEF SpansIn
  <2>3. QED
    BY <2>1, <2>2 DEF Sealers, SealingPoints
<1>1. InLive \cap Sealed = {}
  BY DEF Placed, Sole
<1>2. F \cap (InLive \cup Sealed) = {}
  BY <1>0 DEF Placed
<1>3. Disjoint'
  BY DEF Placed, Disjoint
<1>4. InLive' \cap Sealed' = {} /\ InLive' \cup Sealed' \subseteq durable'
  BY <1>0, <1>1, <1>2 DEF Placed
<1>5. ASSUME NEW d \in Commands PROVE SpansIn(wal'[d].buf) \cap (InLive' \cup Sealed') = {}
  <2>1. CASE d = c
    BY <2>1
  <2>2. CASE d # c /\ d # "write"
    <3>1. wal'[d].buf = << >>
      BY <2>2 DEF Placed
    <3>2. QED
      BY <1>0, <3>1
  <2>3. CASE d # c /\ d = "write"
    <3>1. F = {} /\ wal'[d] = wal[d]
      BY <1>0, <2>3 DEF Placed
    <3>2. QED
      BY <1>0, <3>1 DEF Placed
  <2>4. QED
    BY <2>1, <2>2, <2>3
<1>6. \A d \in Commands \ {"write"} : wal'[d].buf = << >>
  BY DEF Placed
<1>7. \A d \in Sealers : pc'[d] \in SealingPoints => job'[d].spans \subseteq InLive'
  BY <1>0
<1>8. QED
  BY <1>3, <1>4, <1>5, <1>6, <1>7 DEF Placed

(* A span appended to a buffer.                                            *)
LEMMA AppendSpans ==
  ASSUME NEW buf \in Seq(Spans), NEW s \in Spans
  PROVE  /\ SpansIn(Append(buf, s)) \subseteq SpansIn(buf) \cup {s}
         /\ SpansIn(<<s>>) \subseteq {s}
<1>1. /\ Append(buf, s) \in Seq(Spans) /\ Len(Append(buf, s)) = Len(buf) + 1 /\ Len(buf) \in Nat
      /\ \A i \in 1 .. Len(buf) : Append(buf, s)[i] = buf[i]
      /\ Append(buf, s)[Len(buf) + 1] = s
  BY AppendProperties, LenProperties
<1>2. DOMAIN Append(buf, s) = 1 .. Len(buf) + 1 /\ DOMAIN buf = 1 .. Len(buf)
  BY <1>1, LenProperties
<1>3. ASSUME NEW i \in 1 .. Len(buf) + 1
      PROVE  Append(buf, s)[i] = s \/ Append(buf, s)[i] \in {buf[j] : j \in DOMAIN buf}
  BY <1>1, <1>2
<1>4. SpansIn(Append(buf, s)) \subseteq SpansIn(buf) \cup {s}
  BY <1>2, <1>3 DEF SpansIn
<1>5. SpansIn(<<s>>) \subseteq {s}
  BY DEF SpansIn
<1>6. QED
  BY <1>4, <1>5

(* A span taken is nowhere else yet; what spills goes to the log.          *)
LEMMA WriteSpanPlaced ==
  ASSUME Shared, Sole, Sole', HasLog, Once, "write" \in Commands, NEW s \in Spans, WriteSpan(s)
  PROVE  Once'
<1> DEFINE w == wal["write"]
           F == IF Len(w.buf) < BufSpans THEN {} ELSE SpansIn(w.buf)
<1>0. /\ "write" \in Sealers /\ pc["write"] = "run" /\ s \notin accepted
      /\ wal' = [wal EXCEPT !["write"] = Appended(w, s)]
      /\ UNCHANGED <<live, segs, crashes>>
      /\ Goto("write", "seal") \/ Goto("write", "run")
  BY DEF WriteSpan, Sealers
<1>1. w \in Handle /\ Holds(w) /\ live # None /\ w.file = live /\ w.buf \in Seq(Spans)
  BY <1>0 DEF Shared, Types, Handles, HasLog, AtLog, Handle
<1>2. InLive' = InLive \cup F /\ durable' = durable \cup F
  <2>1. CASE Len(w.buf) < BufSpans
    <3>1. UNCHANGED <<files, durable>> /\ F = {}
      BY <2>1 DEF WriteSpan
    <3>2. QED
      BY <1>0, <3>1 DEF InLive
  <2>2. CASE ~(Len(w.buf) < BufSpans)
    <3>1. FlushTo(w, w.buf) /\ F = SpansIn(w.buf)
      BY <2>2 DEF WriteSpan
    <3>2. QED
      BY <1>0, <1>1, <3>1, FlushLive DEF FlushTo, Shared
  <2>3. QED
    BY <2>1, <2>2
<1>3. SUFFICES ASSUME crashes = 0, Placed PROVE Placed'
  BY <1>0 DEF Once
<1>4. wal'["write"].buf = IF Len(w.buf) < BufSpans THEN Append(w.buf, s) ELSE <<s>>
  BY <1>0, <1>1 DEF Shared, Types, Appended, Handle
<1>5. /\ SpansIn(w.buf) \cap (InLive \cup Sealed) = {} /\ s \notin InLive \cup Sealed
      /\ s \notin SpansIn(w.buf) /\ Sealed' = Sealed
  BY <1>0, <1>1, <1>3 DEF Placed, Shared, History, Holds, Sealed
<1>6. SpansIn(wal'["write"].buf) \cap (InLive' \cup Sealed') = {}
  <2>1. CASE Len(w.buf) < BufSpans
    <3>1. F = {} /\ wal'["write"].buf = Append(w.buf, s)
      BY <1>4, <2>1
    <3>2. SpansIn(Append(w.buf, s)) \subseteq SpansIn(w.buf) \cup {s}
      BY <1>1, AppendSpans
    <3>3. InLive' \cup Sealed' = InLive \cup Sealed
      BY <1>2, <1>5, <3>1
    <3>4. QED
      BY <1>5, <3>1, <3>2, <3>3
  <2>2. CASE ~(Len(w.buf) < BufSpans)
    <3>1. F = SpansIn(w.buf) /\ wal'["write"].buf = <<s>>
      BY <1>4, <2>2
    <3>2. SpansIn(<<s>>) \subseteq {s}
      BY <1>1, AppendSpans
    <3>3. QED
      BY <1>2, <1>5, <3>1, <3>2
  <2>3. QED
    BY <2>1, <2>2
<1>7. /\ pc'["write"] \notin SealingPoints
      /\ \A d \in Sealers : d # "write" => pc'[d] = "off"
  <2>1. PICK to \in {"seal", "run"} : Goto("write", to)
    BY <1>0
  <2>2. pc'["write"] = to /\ \A d \in Sealers : d # "write" => pc'[d] = "off"
    BY <1>0, <2>1, OnlySealer DEF Shared
  <2>3. QED
    BY <2>1, <2>2 DEF SealingPoints
<1>8. \A d \in Commands : d # "write" => wal'[d] = wal[d]
  BY <1>0 DEF Shared, Types
<1>9. F = {} \/ F = SpansIn(w.buf)
  OBVIOUS
<1> HIDE DEF F
<1>10. QED
  BY <1>0, <1>2, <1>3, <1>6, <1>7, <1>8, <1>9, PlacedFlush DEF Shared

(* The last flush goes to the log.                                         *)
LEMMA WriteEndPlaced ==
  ASSUME Shared, Sole, Sole', HasLog, Once, "write" \in Commands, WriteEnd
  PROVE  Once'
<1> DEFINE w == wal["write"]
<1>0. /\ "write" \in Sealers /\ pc["write"] = "run" /\ FlushTo(w, w.buf)
      /\ wal' = [wal EXCEPT !["write"] = NoWal]
      /\ UNCHANGED <<live, segs, crashes>> /\ Goto("write", "off")
  BY DEF WriteEnd, Exit, Sealers
<1>1. live # None /\ w.file = live /\ w.buf \in Seq(Spans)
  BY <1>0 DEF Shared, Types, HasLog, AtLog, Handle
<1>2. InLive' = InLive \cup SpansIn(w.buf) /\ durable' = durable \cup SpansIn(w.buf)
  BY <1>0, <1>1, FlushLive DEF FlushTo, Shared
<1>3. SUFFICES ASSUME crashes = 0, Placed PROVE Placed'
  BY <1>0 DEF Once
<1>4. /\ wal'["write"].buf = << >> /\ SpansIn(<< >>) = {}
      /\ \A d \in Commands : d # "write" => wal'[d] = wal[d]
  BY <1>0 DEF Shared, Types, NoWal, SpansIn
<1>5. /\ pc'["write"] \notin SealingPoints
      /\ \A d \in Sealers : d # "write" => pc'[d] = "off"
  <2>1. pc'["write"] = "off" /\ \A d \in Sealers : d # "write" => pc'[d] = "off"
    BY <1>0, OnlySealer DEF Shared
  <2>2. QED
    BY <2>1 DEF SealingPoints
<1>6. SpansIn(wal'["write"].buf) \cap (InLive' \cup Sealed') = {}
  BY <1>4
<1>7. QED
  BY <1>0, <1>2, <1>3, <1>4, <1>5, <1>6, PlacedFlush DEF Shared

(* do_seal flushes, then collects spans of the log only.                   *)
LEMMA SealReadPlaced ==
  ASSUME Shared, Sole, Sole', HasLog, Once, NEW c \in Sealers, SealRead(c)
  PROVE  Once'
<1> DEFINE w == wal[c]
<1>0. /\ c \in Commands /\ pc[c] = "seal" /\ FlushTo(w, w.buf)
      /\ wal' = [wal EXCEPT ![c].buf = << >>]
      /\ UNCHANGED <<live, segs, crashes>> /\ Goto(c, "write segment")
  BY DEF SealRead, Sealers
<1>1. live # None /\ w.file = live /\ w.buf \in Seq(Spans)
  BY <1>0 DEF Shared, Types, HasLog, AtLog, Handle
<1>2. /\ InLive' = InLive \cup SpansIn(w.buf) /\ durable' = durable \cup SpansIn(w.buf)
      /\ live \in DOMAIN files' /\ files'[live] \in Seq(Cell)
  <2>1. /\ InLive' = InLive \cup SpansIn(w.buf) /\ durable' = durable \cup SpansIn(w.buf)
        /\ live \in DOMAIN files' /\ files' \in Seq(Seq(Cell))
    BY <1>0, <1>1, FlushLive DEF FlushTo, Shared
  <2>2. files'[live] \in Seq(Cell)
    BY <2>1, ElementOfSeq, LenProperties
  <2>3. QED
    BY <2>1, <2>2
<1>3. SUFFICES ASSUME crashes = 0, Placed PROVE Placed'
  BY <1>0 DEF Once
<1>4. /\ wal'[c].buf = << >> /\ SpansIn(<< >>) = {}
      /\ \A d \in Commands : d # c => wal'[d] = wal[d]
  <2>1. wal \in [Commands -> Handle]
    BY DEF Shared, Types
  <2>2. wal'[c].buf = << >> /\ \A d \in Commands : d # c => wal'[d] = wal[d]
    BY <1>0, <2>1 DEF Handle
  <2>3. QED
    BY <2>2 DEF SpansIn
<1>5. \A d \in Sealers : d # c => pc'[d] = "off"
  BY <1>0, OnlySealer DEF Shared
<1>6. job'[c].spans \subseteq InLive'
  <2>1. ASSUME NEW s \in job'[c].spans PROVE s \in InLive'
    <3>1. s \in Spans /\ \E off \in Nat : CellAt(files'[live], off) = s
      BY <2>1, SealReadJob DEF Shared
    <3>2. PICK off \in Nat : off < Len(files'[live]) /\ files'[live][off + 1] = s
      BY <3>1, TraceDirAssumption DEF CellAt
    <3>3. DOMAIN files'[live] = 1 .. Len(files'[live]) /\ Len(files'[live]) \in Nat
      BY <1>2, LenProperties
    <3>4. off + 1 \in DOMAIN files'[live]
      BY <3>2, <3>3
    <3>5. s \in SpansIn(files'[live])
      BY <3>1, <3>2, <3>4, TraceDirAssumption DEF SpansIn
    <3>6. QED
      BY <1>0, <1>1, <3>5 DEF InLive
  <2>2. QED
    BY <2>1
<1>7. SpansIn(wal'[c].buf) \cap (InLive' \cup Sealed') = {}
  BY <1>4
<1>8. QED
  BY <1>0, <1>2, <1>3, <1>4, <1>5, <1>6, <1>7, PlacedFlush DEF Shared

(* A segment without spans yet: what had its name, if any, is gone.        *)
LEMMA SegmentCreatePlaced ==
  ASSUME Shared, Sole, Sole', Once, NEW c \in Sealers, SegmentCreate(c)
  PROVE  Once'
<1> DEFINE ms == job[c].ms
<1>0. /\ pc[c] = "write segment" /\ Goto(c, "fill segment")
      /\ segs' = [t \in DOMAIN segs \cup {ms} |-> IF t = ms THEN Partial ELSE segs[t]]
      /\ UNCHANGED <<files, live, wal, job, durable, crashes>>
  BY DEF SegmentCreate
<1>1. SUFFICES ASSUME crashes = 0, Placed PROVE Placed'
  BY <1>0 DEF Once
<1>2. \A d \in Sealers : d # c => pc'[d] = "off"
  BY <1>0, OnlySealer DEF Shared
<1>3. InLive' = InLive /\ (\A d \in Sealers : pc[d] # "remove")
  BY <1>0 DEF InLive, Sole
<1>4. Sealed' \subseteq Sealed
  <2>1. ASSUME NEW s \in Sealed' PROVE s \in Sealed
    <3>1. PICK t \in DOMAIN segs' : s # Header /\ s \in segs'[t]
      BY <2>1, SealedSpans
    <3>2. t \in DOMAIN segs /\ s \in segs[t]
      BY <1>0, <3>1 DEF Partial
    <3>3. QED
      BY <3>1, <3>2, SealedSpans
  <2>2. QED
    BY <2>1
<1>5. Disjoint'
  <2> SUFFICES ASSUME NEW t \in DOMAIN segs', NEW u \in DOMAIN segs', t # u
               PROVE  segs'[t] \cap segs'[u] \subseteq Partial
    BY DEF Disjoint
  <2>1. CASE t = ms \/ u = ms
    BY <1>0, <2>1
  <2>2. CASE t # ms /\ u # ms
    BY <1>0, <1>1, <2>2 DEF Placed, Disjoint
  <2>3. QED
    BY <2>1, <2>2
<1>6. InLive' \cap Sealed' = {} /\ InLive' \cup Sealed' \subseteq durable'
  BY <1>0, <1>1, <1>3, <1>4 DEF Placed
<1>7. /\ \A d \in Commands : SpansIn(wal'[d].buf) \cap (InLive' \cup Sealed') = {}
      /\ \A d \in Commands \ {"write"} : wal'[d].buf = << >>
  BY <1>0, <1>1, <1>3, <1>4 DEF Placed
<1>8. ASSUME NEW d \in Sealers, pc'[d] \in SealingPoints PROVE job'[d].spans \subseteq InLive'
  <2>1. d = c
    BY <1>2, <1>8 DEF SealingPoints
  <2>2. job[c].spans \subseteq InLive
    BY <1>0, <1>1 DEF Placed, SealingPoints
  <2>3. QED
    BY <1>0, <1>3, <2>1, <2>2
<1>9. QED
  BY <1>5, <1>6, <1>7, <1>8 DEF Placed

(* A segment written in full has spans of the log, so of no other segment. *)
LEMMA SegmentFillPlaced ==
  ASSUME Shared, Sole, Sole', Once, NEW c \in Sealers, SegmentFill(c)
  PROVE  Once'
<1> DEFINE ms == job[c].ms
<1>0. /\ pc[c] = "fill segment" /\ Goto(c, "remove")
      /\ segs' = [segs EXCEPT ![ms] = job[c].spans] \/ segs' = segs
      /\ UNCHANGED <<files, live, wal, durable, crashes>>
  BY DEF SegmentFill, SealWarn
<1>1. SUFFICES ASSUME crashes = 0, Placed PROVE Placed'
  BY <1>0 DEF Once
<1>2. pc'[c] = "remove" /\ \A d \in Sealers : d # c => pc'[d] = "off"
  BY <1>0, OnlySealer DEF Shared
<1>3. InLive' = InLive /\ InLive \cap Sealed = {} /\ job[c].spans \subseteq InLive
  <2>1. InLive' = InLive /\ (\A d \in Sealers : pc[d] # "remove")
    BY <1>0 DEF InLive, Sole
  <2>2. QED
    BY <1>0, <1>1, <2>1 DEF Placed, SealingPoints
<1>4. \A t \in DOMAIN segs' : t \in DOMAIN segs /\ (segs'[t] = segs[t] \/ (t = ms /\ segs'[t] = job[c].spans))
  BY <1>0
<1>5. Sealed' \subseteq Sealed \cup InLive
  <2>1. ASSUME NEW s \in Sealed' PROVE s \in Sealed \cup InLive
    <3>1. PICK t \in DOMAIN segs' : s # Header /\ s \in segs'[t]
      BY <2>1, SealedSpans
    <3>2. (t \in DOMAIN segs /\ s \in segs[t]) \/ s \in InLive
      BY <1>3, <1>4, <3>1
    <3>3. QED
      BY <3>1, <3>2, SealedSpans
  <2>2. QED
    BY <2>1
<1>6. ASSUME NEW t \in DOMAIN segs PROVE segs[t] \cap InLive = {}
  <2>1. ASSUME NEW s \in InLive, s \in segs[t] PROVE FALSE
    <3>1. s # Header
      BY <2>1 DEF InLive, SpansIn
    <3>2. s \in Sealed
      BY <2>1, <3>1, SealedSpans
    <3>3. QED
      BY <1>3, <2>1, <3>2
  <2>2. QED
    BY <2>1
<1>7. Disjoint'
  <2> SUFFICES ASSUME NEW t \in DOMAIN segs', NEW u \in DOMAIN segs', t # u
               PROVE  segs'[t] \cap segs'[u] \subseteq Partial
    BY DEF Disjoint
  <2>1. t \in DOMAIN segs /\ u \in DOMAIN segs
    BY <1>4
  <2>2. CASE segs'[t] = segs[t] /\ segs'[u] = segs[u]
    BY <1>1, <2>1, <2>2 DEF Placed, Disjoint
  <2>3. CASE segs'[t] = segs[t] /\ segs'[u] = job[c].spans
    BY <1>3, <1>6, <2>1, <2>3
  <2>4. CASE segs'[t] = job[c].spans /\ segs'[u] = segs[u]
    BY <1>3, <1>6, <2>1, <2>4
  <2>5. QED
    BY <1>4, <2>2, <2>3, <2>4
<1>8. InLive' \cup Sealed' \subseteq InLive \cup Sealed
  BY <1>3, <1>5
<1>9. /\ InLive' \cup Sealed' \subseteq durable'
      /\ \A d \in Commands : SpansIn(wal'[d].buf) \cap (InLive' \cup Sealed') = {}
      /\ \A d \in Commands \ {"write"} : wal'[d].buf = << >>
  BY <1>0, <1>1, <1>8 DEF Placed
<1>10. /\ \A d \in Sealers : pc'[d] \notin SealingPoints
       /\ \E d \in Sealers : pc'[d] = "remove"
  BY <1>2 DEF SealingPoints
<1>11. QED
  BY <1>7, <1>9, <1>10 DEF Placed

(* Once the log is gone its spans are in the segments alone.               *)
LEMMA RemoveWalPlaced ==
  ASSUME Shared, Sole, Sole', Once, NEW c \in Sealers, RemoveWal(c)
  PROVE  Once'
<1> DEFINE to == IF c = "write" THEN "reopen" ELSE "off"
<1>0. /\ pc[c] = "remove" /\ Goto(c, to) /\ live' = None
      /\ wal' = [wal EXCEPT ![c] = NoWal] \/ wal' = wal
      /\ UNCHANGED <<files, segs, durable, crashes>>
  BY DEF RemoveWal, Exit
<1>1. SUFFICES ASSUME crashes = 0, Placed PROVE Placed'
  BY <1>0 DEF Once
<1>2. pc'[c] = to /\ \A d \in Sealers : d # c => pc'[d] = "off"
  BY <1>0, OnlySealer DEF Shared
<1>3. InLive' = {} /\ Sealed' = Sealed /\ SpansIn(<< >>) = {} /\ NoWal.buf = << >>
  BY <1>0 DEF InLive, Sealed, SpansIn, NoWal
<1>4. \A d \in Commands : wal'[d] = wal[d] \/ wal'[d] = NoWal
  BY <1>0 DEF Shared, Types
<1>5. Disjoint' /\ InLive' \cap Sealed' = {} /\ InLive' \cup Sealed' \subseteq durable'
  BY <1>0, <1>1, <1>3 DEF Placed, Disjoint
<1>6. ASSUME NEW d \in Commands
      PROVE  /\ SpansIn(wal'[d].buf) \cap (InLive' \cup Sealed') = {}
             /\ d # "write" => wal'[d].buf = << >>
  <2>1. CASE wal'[d] = wal[d]
    BY <1>1, <1>3, <2>1 DEF Placed
  <2>2. CASE wal'[d] = NoWal
    <3>1. wal'[d].buf = << >>
      BY <1>3, <2>2
    <3>2. QED
      BY <1>3, <3>1
  <2>3. QED
    BY <1>4, <2>1, <2>2
<1>7. \A d \in Sealers : pc'[d] \notin SealingPoints
  BY <1>2 DEF SealingPoints
<1>8. QED
  BY <1>5, <1>6, <1>7 DEF Placed

(* The steps that leave spans where they are.                              *)
LEMMA HandlePlaced ==
  ASSUME Shared, Once, Elsewhere, NEW c \in Commands, NEW to,
         UNCHANGED <<durable, crashes>>,
         InLive' = InLive, \A d \in Commands : d # c => wal'[d] = wal[d],
         wal'[c].buf = wal[c].buf \/ wal'[c].buf = << >>,
         Goto(c, to) \/ UNCHANGED pc, pc[c] = "remove" /\ c \in Sealers => to = "remove"
  PROVE  Once'
<1>1. \A d \in Commands : wal'[d].buf = wal[d].buf \/ wal'[d].buf = << >>
  OBVIOUS
<1>2. ASSUME NEW d \in Sealers, pc[d] = "remove" PROVE pc'[d] = "remove"
  BY <1>2 DEF Goto, Shared, Types, Sealers
<1>3. QED
  BY <1>1, <1>2, PlacedStays DEF Shared

(* Every step leaves a span in one place.                                  *)
LEMMA OnceNext ==
  ASSUME Shared, OneSealer, Turns, HasLog, Once, [Next]_vars
  PROVE  Once'
<1>0. /\ Sole /\ Sole' /\ Sealers \subseteq Commands /\ wal \in [Commands -> Handle] /\ Types
  BY SoleSealer, TurnsNext DEF Sealers, Shared, Types
<1>a. ASSUME NEW c \in Commands, LogExists(c, "recover") \/ LogExists(c, "run")
      PROVE  /\ Goto(c, "open") /\ wal'[c].buf = << >>
             /\ \A d \in Commands : d # c => wal'[d] = wal[d]
  BY <1>0, <1>a, Existence DEF LogExists
<1>b. ASSUME NEW w \in Handle, NEW n PROVE Recovered(w, n).buf = w.buf
  BY DEF Recovered, Handle
<1>c. ASSUME UNCHANGED <<files, live>> PROVE InLive' = InLive
  BY <1>c DEF InLive
<1>d. ASSUME NEW c \in Commands, wal' = [wal EXCEPT ![c] = NoWal]
      PROVE  wal'[c].buf = << >> /\ \A d \in Commands : d # c => wal'[d] = wal[d]
  BY <1>0, <1>d DEF NoWal
<1>o. ASSUME Elsewhere, NEW c \in Commands, OpenStep(c) PROVE Once'
  <2>1. /\ InLive' = InLive /\ wal'[c].buf = wal[c].buf
        /\ \A d \in Commands : d # c => wal'[d] = wal[d]
    BY <1>0, <1>o, Opened, Headed DEF OpenStep
  <2>2. /\ UNCHANGED <<durable, crashes>> /\ pc[c] # "remove"
        /\ \E to : Goto(c, to)
    BY <1>o DEF OpenStep, OpenLog, WriteHeader
  <2>3. QED
    BY <1>o, <2>1, <2>2, HandlePlaced
<1>1. ASSUME NEW c \in Sealers, SealRead(c) \/ SegmentCreate(c) \/ SegmentFill(c) \/ RemoveWal(c) \/ Crash(c)
      PROVE  Once'
  <2>1. CASE SealRead(c)
    BY <1>0, <2>1, SealReadPlaced
  <2>2. CASE SegmentCreate(c)
    BY <1>0, <2>2, SegmentCreatePlaced
  <2>3. CASE SegmentFill(c)
    BY <1>0, <2>3, SegmentFillPlaced
  <2>4. CASE RemoveWal(c)
    BY <1>0, <2>4, RemoveWalPlaced
  <2>5. CASE Crash(c)
    <3>1. crashes' = crashes + 1 /\ crashes \in Nat
      BY <2>5 DEF Crash, Killed, Once
    <3>2. QED
      BY <3>1 DEF Once
  <2>6. QED
    BY <1>1, <2>1, <2>2, <2>3, <2>4, <2>5
<1>2. CASE Elsewhere /\ WriteStep
  <2>1. "write" \in Commands /\ "write" \in Sealers
    BY <1>2 DEF WriteStep, Sealers
  <2>2. CASE WriteStart \/ WriteReopen
    <3>1. /\ LogExists("write", "recover") \/ LogExists("write", "run")
          /\ UNCHANGED <<files, live, durable, crashes>> /\ pc["write"] # "remove"
      BY <2>2 DEF WriteStart, WriteReopen, Start, fs
    <3>2. QED
      BY <1>2, <1>a, <1>c, <2>1, <3>1, HandlePlaced
  <2>3. CASE WriteRecover
    <3>1. UNCHANGED <<files, live, durable, crashes>> /\ pc["write"] # "remove"
      BY <2>3 DEF WriteRecover, fs
    <3>2. \E to : Goto("write", to)
      BY <2>3 DEF WriteRecover, Exit
    <3>3. /\ wal'["write"].buf = wal["write"].buf \/ wal'["write"].buf = << >>
          /\ \A d \in Commands : d # "write" => wal'[d] = wal[d]
      <4>1. CASE UNCHANGED wal
        BY <4>1
      <4>2. CASE Exit("write")
        BY <1>d, <2>1, <4>2 DEF Exit
      <4>3. ASSUME NEW n, wal' = [wal EXCEPT !["write"] = Recovered(@, n)]
            PROVE  /\ wal'["write"].buf = wal["write"].buf
                   /\ \A d \in Commands : d # "write" => wal'[d] = wal[d]
        BY <1>0, <1>b, <2>1, <4>3
      <4>4. QED
        BY <2>3, <4>1, <4>2, <4>3 DEF WriteRecover
    <3>4. QED
      BY <1>2, <1>c, <2>1, <3>1, <3>2, <3>3, HandlePlaced
  <2>4. CASE WriteEnd
    BY <1>0, <2>1, <2>4, WriteEndPlaced
  <2>5. ASSUME NEW s \in Spans, WriteSpan(s) PROVE Once'
    BY <1>0, <2>1, <2>5, WriteSpanPlaced
  <2>6. QED
    BY <1>2, <1>o, <2>1, <2>2, <2>3, <2>4, <2>5 DEF WriteStep
<1>3. CASE Elsewhere /\ "seal" \in Commands /\ (SealStart \/ OpenStep("seal") \/ SealRecover)
  <2>1. CASE SealStart
    <3>1. /\ LogExists("seal", "recover")
          /\ UNCHANGED <<files, live, durable, crashes>> /\ pc["seal"] # "remove"
      BY <2>1 DEF SealStart, Start, fs
    <3>2. QED
      BY <1>3, <1>a, <1>c, <3>1, HandlePlaced
  <2>2. CASE SealRecover
    <3>1. UNCHANGED <<files, live, durable, crashes>> /\ pc["seal"] # "remove"
      BY <2>2 DEF SealRecover, fs
    <3>2. \E to : Goto("seal", to)
      BY <2>2 DEF SealRecover, Exit
    <3>3. /\ wal'["seal"].buf = wal["seal"].buf \/ wal'["seal"].buf = << >>
          /\ \A d \in Commands : d # "seal" => wal'[d] = wal[d]
      <4>1. CASE Exit("seal")
        BY <1>d, <1>3, <4>1 DEF Exit
      <4>2. ASSUME NEW n, wal' = [wal EXCEPT !["seal"] = Recovered(@, n)]
            PROVE  /\ wal'["seal"].buf = wal["seal"].buf
                   /\ \A d \in Commands : d # "seal" => wal'[d] = wal[d]
        BY <1>0, <1>b, <1>3, <4>2
      <4>3. QED
        BY <2>2, <4>1, <4>2 DEF SealRecover
    <3>4. QED
      BY <1>3, <1>c, <3>1, <3>2, <3>3, HandlePlaced
  <2>3. QED
    BY <1>3, <1>o, <2>1, <2>2
<1>4. ASSUME Elsewhere, NEW c \in Sealers, SealFailed(c) PROVE Once'
  <2>1. UNCHANGED <<files, live, durable, crashes, wal>> /\ Goto(c, "remove")
    BY <1>4 DEF SealFailed
  <2>2. QED
    BY <1>0, <1>4, <1>c, <2>1, HandlePlaced
<1>5. CASE Elsewhere /\ QueryStep
  <2>1. "query" \in Commands /\ "query" \notin Sealers
    BY <1>5 DEF QueryStep, Sealers
  <2>2. CASE QueryOpenWal /\ query.listed # None
    <3>1. LogExists("query", "recover") /\ UNCHANGED <<files, live, durable, crashes>>
      BY <2>2 DEF QueryOpenWal, fs
    <3>2. QED
      BY <1>5, <1>a, <1>c, <2>1, <3>1, HandlePlaced
  <2>3. CASE QueryEnd
    <3>1. /\ UNCHANGED <<files, live, durable, crashes>> /\ Goto("query", "off")
          /\ wal' = [wal EXCEPT !["query"] = NoWal]
      BY <2>3 DEF QueryEnd, Exit, fs
    <3>2. QED
      BY <1>5, <1>c, <1>d, <2>1, <3>1, HandlePlaced
  <2>k. CASE QueryCrash
    <3>1. crashes' = crashes + 1 /\ crashes \in Nat
      BY <2>k DEF QueryCrash, Killed, Once
    <3>2. QED
      BY <3>1 DEF Once
  <2>4. CASE \/ QueryStart \/ QueryRecover \/ QueryRead
             \/ QueryOpenWal /\ query.listed = None
             \/ \E t \in query.todo : QueryLoad(t)
    <3>1. /\ UNCHANGED <<files, live, durable, crashes, wal>>
          /\ UNCHANGED pc \/ \E to : Goto("query", to)
      BY <2>4 DEF QueryStart, QueryRecover, QueryRead, QueryOpenWal, QueryLoad, fs
    <3>2. QED
      BY <1>5, <1>c, <2>1, <3>1, HandlePlaced
  <2>5. QED
    BY <1>5, <1>o, <2>1, <2>k, <2>2, <2>3, <2>4 DEF QueryStep
<1>6. CASE UNCHANGED vars
  <2>1. /\ UNCHANGED <<segs, durable, crashes, wal, pc, job>> /\ InLive' = InLive /\ Sealed' = Sealed
    BY <1>6 DEF vars, InLive, Sealed
  <2>2. QED
    BY <2>1 DEF Once, Placed, Disjoint
<1>7. CASE Elsewhere
  BY <1>1, <1>2, <1>3, <1>4, <1>5, <1>6, <1>7 DEF Next, SealStep
<1>8. QED
  BY <1>0, <1>1, <1>7, StepKinds

(* ... and an empty directory has none.                                    *)
LEMMA OnceInit == Init => Turns /\ HasLog /\ Once
<1> SUFFICES ASSUME Init PROVE Turns /\ HasLog /\ Once
  OBVIOUS
<1>1. \A c \in Commands : pc[c] = "off" /\ wal[c].buf = << >>
  BY DEF Init, NoWal
<1>2. InLive = {} /\ Sealed = {} /\ DOMAIN segs = {}
  BY DEF Init, InLive, Sealed
<1>3. Turns /\ HasLog
  BY <1>1 DEF Turns, Alone, HasLog, AtLog, Sealers
<1>4. Placed
  BY <1>1, <1>2 DEF Placed, Disjoint, SealingPoints, Sealers
<1>5. QED
  BY <1>3, <1>4 DEF Once, Init

(* Where one command seals at a time, no span is in two places: not in two *)
(* segments, and not in the log and in a segment but between the end of a  *)
(* segment's fs::write and remove_file.  A kill is what can break it, as   *)
(* the log is then left beside its segment.                                *)
THEOREM SpanInOnePlace ==
  ASSUME OneSealer
  PROVE  Spec => []InOnePlace
<1> DEFINE Inv == Shared /\ Turns /\ HasLog /\ Once
<1>1. Inv => InOnePlace
  BY DEF Once, Placed, Disjoint, InOnePlace
<1>2. Inv /\ [Next]_vars => Inv'
  BY SharedNext, TurnsNext, HasLogNext, OnceNext DEF Shared
<1>3. Init => Inv
  BY SharedInit, OnceInit
<1> HIDE DEF Inv
<1>4. QED
  BY <1>1, <1>2, <1>3, PTL DEF Spec

----------------------------------------------------------------------------
(* What an answer has twice.                                               *)

Looking == "query" \in Commands /\ pc["query"] \in {"load", "open", "header", "recover", "read"}

(* Until a command is killed, an answer has a durable span once; while the *)
(* query runs, what it has comes from segments that are loaded.            *)
Counted ==
  /\ \A s \in Spans : query.answer[s] = 0 \/ (query.answer[s] = 1 /\ s \in durable)
  /\ Looking =>
       /\ query.todo \subseteq DOMAIN segs
       /\ \A s \in Spans : query.answer[s] = 1 =>
            s \in Sealed /\ \A t \in query.todo : s \notin segs[t]

Exact == QueryTyped /\ (crashes = 0 => Counted)

(* A step is the query's, or leaves its state; what is durable stays.      *)
LEMMA QueryOrNot ==
  ASSUME Types, Once, [Next]_vars
  PROVE  /\ QueryStep \/ UNCHANGED query
         /\ durable \subseteq durable' /\ (crashes' = 0 => crashes = 0)
<1>0. crashes \in Nat
  BY DEF Once
<1>o. ASSUME NEW c, OpenStep(c) PROVE UNCHANGED <<query, durable, crashes>>
  BY <1>o DEF OpenStep, OpenLog, WriteHeader
<1>1. ASSUME WriteStep PROVE UNCHANGED query /\ durable \subseteq durable' /\ crashes' = crashes
  BY <1>o, <1>1 DEF WriteStep, WriteStart, WriteRecover, WriteEnd, WriteReopen, WriteSpan, FlushTo
<1>2. ASSUME SealStart \/ OpenStep("seal") \/ SealRecover PROVE UNCHANGED <<query, durable, crashes>>
  BY <1>o, <1>2 DEF SealStart, SealRecover
<1>3. ASSUME NEW c \in Sealers, SealStep(c)
      PROVE  UNCHANGED query /\ durable \subseteq durable' /\ crashes' = crashes
  BY <1>3 DEF SealStep, SealRead, SegmentCreate, SegmentFill, SealFailed, RemoveWal, FlushTo
<1>4. ASSUME NEW c \in Sealers, Crash(c)
      PROVE  UNCHANGED query /\ durable \subseteq durable' /\ crashes' = crashes + 1
  BY <1>4 DEF Crash, Killed
<1>5. ASSUME QueryStep PROVE UNCHANGED durable /\ crashes' \in {crashes, crashes + 1}
  BY <1>o, <1>5 DEF QueryStep, QueryStart, QueryOpenWal, QueryRecover, QueryRead, QueryEnd, QueryLoad,
                    QueryCrash, Killed
<1>6. ASSUME UNCHANGED vars PROVE UNCHANGED <<query, durable, crashes>>
  BY <1>6 DEF vars
<1>7. crashes + 1 # 0
  BY <1>0
<1>8. QED
  BY <1>1, <1>2, <1>3, <1>4, <1>5, <1>6, <1>7 DEF Next

(* While a query runs alone nothing else moves.                            *)
LEMMA OthersWait ==
  ASSUME Types, Alone, ~Overlap, "query" \in Commands, pc["query"] # "off", [Next]_vars
  PROVE  QueryStep \/ UNCHANGED vars
<1>1. ASSUME NEW c \in Commands, c # "query" PROVE pc[c] = "off" /\ ~Start(c)
  BY <1>1 DEF Alone, Start
<1>2. ~WriteStep
  <2>1. ASSUME "write" \in Commands PROVE pc["write"] = "off" /\ ~Start("write")
    BY <1>1, <2>1
  <2>2. QED
    BY <2>1 DEF WriteStep, WriteStart, WriteRecover, WriteEnd, WriteReopen, WriteSpan,
                OpenStep, OpenLog, WriteHeader
<1>3. ~("seal" \in Commands /\ (SealStart \/ OpenStep("seal") \/ SealRecover))
  <2>1. ASSUME "seal" \in Commands PROVE pc["seal"] = "off" /\ ~Start("seal")
    BY <1>1, <2>1
  <2>2. QED
    BY <2>1 DEF SealStart, SealRecover, OpenStep, OpenLog, WriteHeader
<1>4. ASSUME NEW c \in Sealers PROVE ~(SealStep(c) \/ Crash(c))
  <2>1. pc[c] = "off"
    BY <1>1 DEF Sealers
  <2>2. QED
    BY <2>1 DEF SealStep, SealRead, SegmentCreate, SegmentFill, SealFailed, RemoveWal, Crash, Killed
<1>5. QED
  BY <1>2, <1>3, <1>4 DEF Next

(* The state of a query keeps its type.                                    *)
LEMMA QueryTypedNext ==
  ASSUME Shared, Once, QueryTyped, [Next]_vars
  PROVE  QueryTyped'
<1>1. CASE UNCHANGED query
  BY <1>1 DEF QueryTyped
<1>2. CASE QueryStart
  <2>1. QueryTyped' <=> query' \in [todo : SUBSET Nat, listed : Nat \cup {None}, index : Seq(Entry),
                                    answer : [Spans -> Nat], owed : SUBSET Spans]
    BY DEF QueryTyped
  <2> DEFINE owed == Sealed \cup IF live = None THEN {} ELSE Reached(files[live])
  <2>2. query' = [todo |-> DOMAIN segs, listed |-> live, index |-> << >>,
                  answer |-> [s \in Spans |-> 0], owed |-> owed]
    BY <1>2 DEF QueryStart, NoQuery
  <2>3. owed \subseteq Spans
    <3>1. live # None => Reached(files[live]) \subseteq Spans
      BY ReachedSpans DEF Shared
    <3>2. Sealed \subseteq Spans
      BY SealedSpans, TraceDirAssumption DEF Shared, Jobs, Partial
    <3>3. QED
      BY <3>1, <3>2
  <2> HIDE DEF owed
  <2>4. DOMAIN segs \subseteq Nat /\ live \in Nat \cup {None} /\ << >> \in Seq(Entry)
    BY EmptySeq, LenProperties DEF Shared, Types
  <2>5. QED
    BY <2>1, <2>2, <2>3, <2>4
<1>3. CASE QueryEnd \/ QueryCrash
  <2>1. << >> \in Seq(Entry) /\ query' = NoQuery
    BY <1>3, EmptySeq DEF QueryEnd, QueryCrash
  <2>2. QED
    BY <2>1 DEF QueryTyped, NoQuery
<1>4. ASSUME NEW t \in query.todo, QueryLoad(t) PROVE QueryTyped'
  <2>1. CASE UNCHANGED query
    BY <1>1, <2>1
  <2>2. CASE query' = [query EXCEPT !.todo = @ \ {t},
                 !.answer = [s \in Spans |-> @[s] + IF s \in segs[t] THEN 1 ELSE 0]]
    <3>1. [s \in Spans |-> query.answer[s] + IF s \in segs[t] THEN 1 ELSE 0] \in [Spans -> Nat]
      BY DEF QueryTyped
    <3>2. QED
      BY <2>2, <3>1 DEF QueryTyped
  <2>3. QED
    BY <1>4, <2>1, <2>2 DEF QueryLoad
<1>5. CASE QueryRecover
  <2>1. ASSUME ~Logless, NEW n \in 1 .. Len(files[live]), StopsAt(files[live], n),
               query' = [query EXCEPT !.index = IndexOf(files[live], n)]
        PROVE  QueryTyped'
    <3>1. live \in DOMAIN files /\ files[live] \in Seq(Cell)
      BY <2>1, FileCells DEF Shared, Types, Logless
    <3>2. IndexOf(files[live], n) \in Seq(Entry)
      BY <2>1, <3>1, RecoveredIndex
    <3>3. QED
      BY <2>1, <3>2 DEF QueryTyped
  <2>2. QED
    BY <1>1, <1>5, <2>1 DEF QueryRecover
<1>6. CASE QueryRead
  <2> DEFINE here(s) == \E i \in DOMAIN query.index :
                          /\ query.index[i].span = s
                          /\ CellAt(files[live], query.index[i].offset) = s
             more == [s \in Spans |-> query.answer[s] + IF here(s) THEN 1 ELSE 0]
  <2>1. query' = query \/ query' = [query EXCEPT !.answer = more]
    BY <1>6 DEF QueryRead
  <2>2. more \in [Spans -> Nat]
    BY DEF QueryTyped
  <2> HIDE DEF more
  <2>3. QED
    BY <1>1, <2>1, <2>2 DEF QueryTyped
<1>7. CASE QueryOpenWal \/ OpenStep("query")
  BY <1>1, <1>7 DEF QueryOpenWal, OpenStep, OpenLog, WriteHeader
<1>8. QED
  BY <1>1, <1>2, <1>3, <1>4, <1>5, <1>6, <1>7, QueryOrNot DEF QueryStep, Shared

(* A segment is loaded once, and no other has its spans.                   *)
LEMMA QueryLoadCounts ==
  ASSUME Shared, QueryTyped, Counted, Placed, "query" \in Commands,
         NEW t \in query.todo, QueryLoad(t)
  PROVE  Counted'
<1> DEFINE more == [s \in Spans |-> query.answer[s] + IF s \in segs[t] THEN 1 ELSE 0]
<1>0. /\ segs' = segs /\ durable' = durable /\ Sealed' = Sealed /\ pc["query"] = "load"
      /\ \/ Goto("query", "failed") /\ query' = query
         \/ query' = [query EXCEPT !.todo = @ \ {t}, !.answer = more] /\ pc' = pc
  BY DEF QueryLoad, fs, Sealed
<1>1. /\ \A s \in Spans : query.answer[s] = 0 \/ (query.answer[s] = 1 /\ s \in durable)
      /\ query.todo \subseteq DOMAIN segs
      /\ \A s \in Spans : query.answer[s] = 1 => s \in Sealed /\ \A u \in query.todo : s \notin segs[u]
  BY <1>0 DEF Counted, Looking
<1>2. CASE Goto("query", "failed") /\ query' = query
  <2>1. ~Looking'
    BY <1>2 DEF Looking, Goto, Shared, Types
  <2>2. QED
    BY <1>0, <1>1, <1>2, <2>1 DEF Counted
<1>3. CASE query' = [query EXCEPT !.todo = @ \ {t}, !.answer = more] /\ pc' = pc
  <2>1. more \in [Spans -> Nat]
    BY DEF QueryTyped
  <2>2. \A s \in Spans : more[s] = query.answer[s] + IF s \in segs[t] THEN 1 ELSE 0
    OBVIOUS
  <2> HIDE DEF more
  <2>3. query'.todo = query.todo \ {t} /\ query'.answer = more
    BY <1>3, <2>1 DEF QueryTyped
  <2>4. ASSUME NEW s \in Spans, s \in segs[t]
        PROVE  /\ more[s] = 1 /\ s \in Sealed /\ s \in durable
               /\ \A u \in query.todo \ {t} : s \notin segs[u]
    <3>1. query.answer[s] = 0
      BY <1>1, <2>4
    <3>2. s # Header /\ t \in DOMAIN segs
      BY <1>1, TraceDirAssumption
    <3>3. s \in Sealed /\ s \in durable
      BY <2>4, <3>2, SealedSpans DEF Placed
    <3>4. ASSUME NEW u \in query.todo \ {t}, s \in segs[u] PROVE FALSE
      <4>1. segs[t] \cap segs[u] \subseteq Partial
        BY <1>1, <3>2 DEF Placed, Disjoint
      <4>2. QED
        BY <2>4, <3>2, <3>4, <4>1 DEF Partial
    <3>5. QED
      BY <2>2, <2>4, <3>1, <3>3, <3>4
  <2>5. ASSUME NEW s \in Spans, s \notin segs[t] PROVE more[s] = query.answer[s]
    <3>1. query.answer[s] \in Nat
      BY DEF QueryTyped
    <3>2. QED
      BY <2>2, <2>5, <3>1
  <2>6. \A s \in Spans : more[s] = 0 \/ (more[s] = 1 /\ s \in durable)
    BY <1>1, <2>4, <2>5
  <2>7. \A s \in Spans : more[s] = 1 => s \in Sealed /\ \A u \in query'.todo : s \notin segs[u]
    BY <1>1, <2>3, <2>4, <2>5
  <2>8. QED
    BY <1>0, <1>1, <2>3, <2>6, <2>7 DEF Counted
<1>4. QED
  BY <1>0, <1>2, <1>3

(* What the log has no segment has.                                        *)
LEMMA QueryReadCounts ==
  ASSUME Shared, QueryTyped, Counted, Placed, InLive \cap Sealed = {},
         "query" \in Commands, QueryRead
  PROVE  Counted'
<1> DEFINE here(s) == \E i \in DOMAIN query.index :
                        /\ query.index[i].span = s
                        /\ CellAt(files[live], query.index[i].offset) = s
           more == [s \in Spans |-> query.answer[s] + IF here(s) THEN 1 ELSE 0]
<1>0. /\ durable' = durable /\ pc["query"] = "read"
      /\ \/ Goto("query", "failed") /\ query' = query
         \/ live # None /\ query' = [query EXCEPT !.answer = more] /\ Goto("query", "answered")
  BY DEF QueryRead
<1>1. /\ \A s \in Spans : query.answer[s] = 0 \/ (query.answer[s] = 1 /\ s \in durable)
      /\ \A s \in Spans : query.answer[s] = 1 => s \in Sealed
  BY <1>0 DEF Counted, Looking
<1>2. ~Looking'
  BY <1>0 DEF Looking, Goto, Shared, Types
<1>3. CASE query' = query
  BY <1>0, <1>1, <1>2, <1>3 DEF Counted
<1>4. CASE live # None /\ query' = [query EXCEPT !.answer = more]
  <2>1. ASSUME NEW s \in Spans, here(s) PROVE query.answer[s] = 0 /\ s \in durable
    <3>1. PICK i \in DOMAIN query.index : CellAt(files[live], query.index[i].offset) = s
      BY <2>1
    <3>2. query.index[i] \in Entry
      BY ElementOfSeq, LenProperties DEF QueryTyped
    <3>3. query.index[i].offset \in Nat
      BY <3>2 DEF Entry
    <3>4. PICK off \in Nat : off < Len(files[live]) /\ files[live][off + 1] = s
      BY <3>1, <3>3, TraceDirAssumption DEF CellAt
    <3>5. DOMAIN files[live] = 1 .. Len(files[live]) /\ Len(files[live]) \in Nat
      BY <1>4, FileCells DEF Shared, Types
    <3>6. off + 1 \in DOMAIN files[live]
      BY <3>4, <3>5
    <3>7. s \in InLive
      BY <1>4, <3>4, <3>6, TraceDirAssumption DEF InLive, SpansIn
    <3>8. QED
      BY <1>1, <3>7 DEF Placed
  <2>2. more \in [Spans -> Nat] /\ \A s \in Spans : query.answer[s] \in Nat
    BY DEF QueryTyped
  <2>3. \A s \in Spans : more[s] = 0 \/ (more[s] = 1 /\ s \in durable)
    <3> SUFFICES ASSUME NEW s \in Spans PROVE more[s] = 0 \/ (more[s] = 1 /\ s \in durable)
      OBVIOUS
    <3>1. CASE here(s)
      <4>1. more[s] = query.answer[s] + 1
        BY <3>1
      <4>2. QED
        BY <2>1, <3>1, <4>1
    <3>2. CASE ~here(s)
      <4>1. more[s] = query.answer[s]
        BY <2>2, <3>2
      <4>2. QED
        BY <1>1, <4>1
    <3>3. QED
      BY <3>1, <3>2
  <2> HIDE DEF more
  <2>4. query'.answer = more
    BY <1>4, <2>2 DEF QueryTyped
  <2>5. QED
    BY <1>0, <1>2, <2>3, <2>4 DEF Counted
<1>5. QED
  BY <1>0, <1>3, <1>4

(* Every step of a command that runs alone keeps an answer exact.          *)
LEMMA ExactNext ==
  ASSUME ~Overlap, Shared, Turns, Once, Exact, [Next]_vars
  PROVE  Exact'
<1>0. QueryTyped' /\ Alone /\ Types /\ durable \subseteq durable' /\ (crashes' = 0 => crashes = 0)
  BY QueryTypedNext, QueryOrNot DEF Exact, Turns, Shared
<1> SUFFICES ASSUME crashes = 0 PROVE Counted'
  BY <1>0 DEF Exact
<1>1. QueryTyped /\ Counted /\ Placed
  BY DEF Exact, Once
<1>2. CASE UNCHANGED query /\ ~Looking'
  <2>1. \A s \in Spans : query'.answer[s] = 0 \/ (query'.answer[s] = 1 /\ s \in durable')
    BY <1>0, <1>1, <1>2 DEF Counted
  <2>2. QED
    BY <1>2, <2>1 DEF Counted
<1>3. CASE UNCHANGED <<query, segs, durable>> /\ Looking
  <2>1. Sealed' = Sealed
    BY <1>3 DEF Sealed
  <2>2. QED
    BY <1>1, <1>3, <2>1 DEF Counted
<1>4. CASE QueryStep
  <2>1. "query" \in Commands
    BY <1>4 DEF QueryStep
  <2>2. CASE QueryStart
    <3>1. query'.todo = DOMAIN segs /\ segs' = segs /\ query'.answer = [s \in Spans |-> 0]
      BY <2>2 DEF QueryStart, NoQuery, fs
    <3>2. QED
      BY <3>1 DEF Counted
  <2>3. CASE QueryOpenWal \/ OpenStep("query")
    BY <1>3, <2>1, <2>3 DEF QueryOpenWal, OpenStep, OpenLog, WriteHeader, Looking, fs
  <2>4. CASE QueryRecover
    <3>1. pc["query"] = "recover" /\ segs' = segs /\ durable' = durable /\ Sealed' = Sealed
      BY <2>4 DEF QueryRecover, fs, Sealed
    <3>2. query' = query \/ \E n : query' = [query EXCEPT !.index = IndexOf(files[live], n)]
      BY <2>4 DEF QueryRecover
    <3>3. query'.todo = query.todo /\ query'.answer = query.answer
      BY <1>1, <3>2 DEF QueryTyped
    <3>4. Looking
      BY <2>1, <3>1 DEF Looking
    <3>5. QED
      BY <1>1, <3>1, <3>3, <3>4 DEF Counted
  <2>5. CASE QueryRead
    <3>1. InLive \cap Sealed = {}
      <4>1. ASSUME NEW c \in Sealers PROVE pc[c] # "remove"
        BY <1>0, <2>1, <2>5 DEF Alone, QueryRead, Sealers
      <4>2. QED
        BY <1>1, <4>1 DEF Placed
    <3>2. QED
      BY <1>1, <2>1, <2>5, <3>1, QueryReadCounts
  <2>6. CASE QueryEnd \/ QueryCrash
    <3>1. query'.answer = [s \in Spans |-> 0] /\ pc'["query"] = "off"
      BY <1>0, <2>1, <2>6 DEF QueryEnd, QueryCrash, Killed, NoQuery, Exit, Goto, Types
    <3>2. QED
      BY <3>1 DEF Counted, Looking
  <2>7. ASSUME NEW t \in query.todo, QueryLoad(t) PROVE Counted'
    BY <1>1, <2>1, <2>7, QueryLoadCounts
  <2>8. QED
    BY <1>4, <2>2, <2>3, <2>4, <2>5, <2>6, <2>7 DEF QueryStep
<1>5. CASE ~QueryStep
  <2>1. UNCHANGED query
    BY <1>0, <1>5, QueryOrNot
  <2>2. CASE Looking
    <3>1. UNCHANGED vars
      BY <1>0, <1>5, <2>2, OthersWait DEF Looking
    <3>2. QED
      BY <1>3, <2>2, <3>1 DEF vars
  <2>3. CASE ~Looking
    <3>1. "query" \in Commands => pc'["query"] = pc["query"]
      BY <1>0, <1>5, OthersAct
    <3>2. QED
      BY <1>2, <2>1, <2>3, <3>1 DEF Looking
  <2>4. QED
    BY <2>2, <2>3
<1>6. QED
  BY <1>4, <1>5

(* No query, no answer.                                                    *)
LEMMA ExactInit == Init => Exact
<1> SUFFICES ASSUME Init PROVE Exact
  OBVIOUS
<1>1. << >> \in Seq(Entry)
  BY EmptySeq
<1>2. query = [todo |-> {}, listed |-> None, index |-> << >>, answer |-> [s \in Spans |-> 0], owed |-> {}]
  BY DEF Init, NoQuery
<1>3. QueryTyped
  BY <1>1, <1>2 DEF QueryTyped
<1>4. Counted
  BY <1>2 DEF Counted
<1>5. QED
  BY <1>3, <1>4 DEF Exact

(* While commands run one at a time and none was killed, no answer has a   *)
(* span twice or one that never reached the disk, whatever was sealed,     *)
(* even in seals that share a millisecond, and whatever failed to be       *)
(* written.                                                                *)
THEOREM AnswersAreExact ==
  ASSUME ~Overlap
  PROVE  Spec => []AnswerExact
<1> DEFINE Inv == Shared /\ Turns /\ HasLog /\ Once /\ Exact
<1>1. Inv => AnswerExact
  BY DEF Exact, Counted, AnswerExact
<1>2. Inv /\ [Next]_vars => Inv'
  BY SharedNext, TurnsNext, HasLogNext, OnceNext, ExactNext DEF Shared, OneSealer
<1>3. Init => Inv
  BY SharedInit, OnceInit, ExactInit
<1> HIDE DEF Inv
<1>4. QED
  BY <1>1, <1>2, <1>3, PTL DEF Spec
=============================================================================
