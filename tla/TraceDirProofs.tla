--------------------------- MODULE TraceDirProofs ---------------------------
(* Proofs about TraceDir: no durable span is lost without a warning while  *)
(* commands run one at a time, for every set of spans, every --seal-every, *)
(* every buffer size, any number of kills and any failing writes.          *)
EXTENDS TraceDir, SequenceTheorems, TLAPS

----------------------------------------------------------------------------
(* The inductive invariant.                                                *)

Cell == Spans \cup {Header}
Entry == [span : Spans, offset : Nat]
Handle == [file : Nat \cup {None}, buf : Seq(Spans), index : Seq(Entry),
           offset : Nat, count : Nat, fresh : BOOLEAN, then : {"recover", "run"}]
SealJob == [ms : Nat \cup {None}, spans : SUBSET Spans, ok : BOOLEAN]

(* A log: the header, then spans.                                          *)
IsLog(cells) ==
  /\ cells \in Seq(Cell) /\ Len(cells) >= 1 /\ cells[1] = Header
  /\ \A i \in 2 .. Len(cells) : cells[i] \in Spans

Points == {"off", "open", "header", "recover", "run", "seal", "write segment", "fill segment",
           "remove", "reopen", "load", "read", "answered", "failed"}

Types ==
  /\ files \in Seq(Seq(Cell)) /\ live \in DOMAIN files \cup {None}
  /\ segs \in [DOMAIN segs -> SUBSET Cell]
  /\ lastMs \in Nat /\ DOMAIN segs \subseteq 1 .. lastMs
  /\ pc \in [Commands -> Points]
  /\ wal \in [Commands -> Handle] /\ job \in [Sealers -> SealJob]
  /\ durable \subseteq Spans

(* At most one command is running.                                         *)
Alone == \A c, d \in Commands : pc[c] # "off" /\ pc[d] # "off" => c = d

(* Every span of a log is in the handle's index, at its offset.            *)
Covers(index, cells) ==
  \A i \in 2 .. Len(cells) :
    \E j \in DOMAIN index : index[j] = [span |-> cells[i], offset |-> i - 1]

(* A handle that appends or seals has the log the directory names, and its *)
(* index covers what the log will be once the buffer is flushed.           *)
Synced(w) ==
  LET whole == files[w.file] \o w.buf IN
  w.offset = Len(whole) /\ Covers(w.index, whole)

Owns(c) == live = wal[c].file /\ live # None

(* A command that opens the log knows whether it is there; where the       *)
(* header is due the log is still empty.                                   *)
Opening(c) ==
  /\ pc[c] = "open" =>
       /\ wal[c].buf = << >> /\ (wal[c].fresh <=> live = None)
       /\ wal[c].then = "run" => live = None
  /\ pc[c] = "header" => Owns(c) /\ wal[c].buf = << >> /\ files[live] = << >>

(* What a sealing command has achieved at each point.                      *)
Progress(c) ==
  /\ pc[c] = "recover" => Owns(c) /\ wal[c].buf = << >>
  /\ pc[c] \in {"run", "seal"} => Owns(c) /\ Synced(wal[c]) /\ IsLog(files[live])
  /\ pc[c] = "write segment" =>
       /\ job[c].ms = lastMs /\ lastMs > 0 /\ lastMs \notin DOMAIN segs
       /\ job[c].ok => InLive \subseteq job[c].spans
  /\ pc[c] = "fill segment" =>
       /\ job[c].ms \in DOMAIN segs /\ segs[job[c].ms] = Partial
       /\ InLive \subseteq job[c].spans
  /\ pc[c] = "remove" => warned \/ InLive \subseteq Sealed
  /\ pc[c] = "reopen" => live = None

(* A kill between open(O_CREAT) and the header leaves an empty log.        *)
LiveLog == live # None => IsLog(files[live]) \/ files[live] = << >>

Steady == (\A c \in Sealers : Progress(c)) /\ (\A c \in Commands : Opening(c))
DirInv == Types /\ Alone /\ LiveLog /\ Steady /\ NoSpanLost

----------------------------------------------------------------------------
(* Logs.                                                                   *)

(* Spans flushed behind a log make a longer log with those spans too.      *)
LEMMA LogConcat ==
  ASSUME NEW cells \in Seq(Cell), NEW buf \in Seq(Spans)
  PROVE  /\ cells \o buf \in Seq(Cell)
         /\ Len(cells \o buf) = Len(cells) + Len(buf)
         /\ SpansIn(cells \o buf) = SpansIn(cells) \cup SpansIn(buf)
         /\ IsLog(cells) => IsLog(cells \o buf)
<1> DEFINE whole == cells \o buf
<1>1. /\ cells \in Seq(Cell) /\ buf \in Seq(Cell)
      /\ Len(cells) \in Nat /\ Len(buf) \in Nat
      /\ \A i \in 1 .. Len(buf) : buf[i] \in Spans
      /\ DOMAIN cells = 1 .. Len(cells) /\ DOMAIN buf = 1 .. Len(buf)
  BY ElementOfSeq, LenProperties, SeqDef DEF Cell
<1>2. /\ whole \in Seq(Cell) /\ Len(whole) = Len(cells) + Len(buf)
      /\ \A i \in 1 .. Len(whole) :
            whole[i] = IF i <= Len(cells) THEN cells[i] ELSE buf[i - Len(cells)]
      /\ DOMAIN whole = 1 .. Len(whole)
  BY <1>1, ConcatProperties, LenProperties
<1>3. IsLog(cells) => IsLog(whole)
  BY <1>1, <1>2 DEF IsLog
<1>4. SpansIn(whole) = SpansIn(cells) \cup SpansIn(buf)
  <2>1. ASSUME NEW s \in SpansIn(whole) PROVE s \in SpansIn(cells) \cup SpansIn(buf)
    <3>1. PICK i \in 1 .. Len(whole) : s = whole[i] /\ s # Header
      BY <1>2 DEF SpansIn
    <3>2. CASE i <= Len(cells)
      BY <3>1, <3>2, <1>1, <1>2 DEF SpansIn
    <3>3. CASE i > Len(cells)
      <4>1. i - Len(cells) \in 1 .. Len(buf) /\ s = buf[i - Len(cells)]
        BY <3>1, <3>3, <1>1, <1>2
      <4>2. QED
        BY <4>1, <3>1, <1>1 DEF SpansIn
    <3>4. QED
      BY <3>2, <3>3, <1>1
  <2>2. ASSUME NEW s \in SpansIn(cells) PROVE s \in SpansIn(whole)
    <3>1. PICK i \in 1 .. Len(cells) : s = cells[i] /\ s # Header
      BY <1>1 DEF SpansIn
    <3>2. i \in 1 .. Len(whole) /\ whole[i] = s
      BY <3>1, <1>1, <1>2
    <3>3. QED
      BY <3>1, <3>2, <1>2 DEF SpansIn
  <2>3. ASSUME NEW s \in SpansIn(buf) PROVE s \in SpansIn(whole)
    <3>1. PICK i \in 1 .. Len(buf) : s = buf[i] /\ s # Header
      BY <1>1 DEF SpansIn
    <3>2. i + Len(cells) \in 1 .. Len(whole) /\ whole[i + Len(cells)] = s
      BY <3>1, <1>1, <1>2
    <3>3. QED
      BY <3>1, <3>2, <1>2 DEF SpansIn
  <2>4. QED
    BY <2>1, <2>2, <2>3
<1>5. QED
  BY <1>2, <1>3, <1>4

(* The spans of a log are what follows its header.                         *)
LEMMA SpansOfLog ==
  ASSUME NEW cells, IsLog(cells), NEW s \in SpansIn(cells)
  PROVE  s \in Spans /\ \E i \in 2 .. Len(cells) : cells[i] = s
<1>1. DOMAIN cells = 1 .. Len(cells) /\ Len(cells) \in Nat
  BY LenProperties DEF IsLog
<1>2. PICK i \in 1 .. Len(cells) : s = cells[i] /\ s # Header
  BY <1>1 DEF SpansIn
<1>3. i \in 2 .. Len(cells)
  BY <1>1, <1>2 DEF IsLog
<1>4. QED
  BY <1>2, <1>3 DEF IsLog

(* recover() indexes the spans before a second header: every span of a log.*)
LEMMA RecoveredIndex ==
  ASSUME NEW cells \in Seq(Cell), NEW n \in 1 .. Len(cells), StopsAt(cells, n)
  PROVE  /\ IndexOf(cells, n) \in Seq(Entry)
         /\ Len(cells) \in Nat /\ n - 1 \in Nat
         /\ IsLog(cells) => Covers(IndexOf(cells, n), cells)
<1>1. Len(cells) \in Nat /\ n - 1 \in Nat
  BY LenProperties
<1>2. ASSUME NEW i \in 1 .. n - 1
      PROVE  [span |-> cells[i + 1], offset |-> i] \in Entry
  <2>1. i + 1 \in 1 .. Len(cells) /\ i + 1 \in 2 .. n /\ i \in Nat
    BY <1>1
  <2>2. cells[i + 1] \in Cell /\ cells[i + 1] # Header
    BY <2>1, ElementOfSeq DEF StopsAt
  <2>3. QED
    BY <2>1, <2>2 DEF Entry, Cell
<1>3. IndexOf(cells, n) \in [1 .. n - 1 -> Entry]
  BY <1>2 DEF IndexOf
<1>4. IndexOf(cells, n) \in Seq(Entry)
  BY <1>1, <1>3, SeqDef
<1>5. ASSUME IsLog(cells) PROVE n = Len(cells)
  <2>1. n < Len(cells) => n + 1 \in 2 .. Len(cells)
    BY <1>1
  <2>2. n < Len(cells) => cells[n + 1] \in Spans /\ cells[n + 1] = Header
    BY <2>1, <1>5 DEF IsLog, StopsAt
  <2>3. ~(n < Len(cells))
    BY <2>2, TraceDirAssumption
  <2>4. QED
    BY <2>3, <1>1
<1>6. ASSUME IsLog(cells), NEW i \in 2 .. Len(cells)
      PROVE  \E j \in DOMAIN IndexOf(cells, n) :
               IndexOf(cells, n)[j] = [span |-> cells[i], offset |-> i - 1]
  <2>1. i - 1 \in 1 .. n - 1 /\ (i - 1) + 1 = i
    BY <1>1, <1>5, <1>6
  <2>2. QED
    BY <2>1 DEF IndexOf
<1>7. QED
  BY <1>1, <1>4, <1>6 DEF Covers

(* An empty log has the header alone.                                      *)
LEMMA NewLog ==
  /\ IsLog(<<Header>>) /\ SpansIn(<<Header>>) = {} /\ Len(<<Header>>) = 1
  /\ SpansIn(<< >>) = {}
  /\ \A index : Covers(index, <<Header>>)
<1>1. <<Header>> \in Seq(Cell) /\ Len(<<Header>>) = 1 /\ <<Header>>[1] = Header
  BY DEF Cell
<1>2. QED
  BY <1>1 DEF IsLog, SpansIn, Covers

----------------------------------------------------------------------------
(* One command at a time.                                                  *)

(* While a command runs or starts, the others are off and stay off.        *)
LEMMA OthersOff ==
  ASSUME Types, Alone, ~Overlap, NEW c \in Commands, NEW to \in Points,
         pc[c] # "off" \/ Start(c), Goto(c, to)
  PROVE  /\ pc' \in [Commands -> Points] /\ pc'[c] = to
         /\ Alone'
         /\ \A d \in Commands \ {c} : pc'[d] = "off"
<1>1. \A d \in Commands \ {c} : pc[d] = "off"
  BY DEF Types, Alone, Start
<1>2. pc' \in [Commands -> Points] /\ pc'[c] = to /\ \A d \in Commands \ {c} : pc'[d] = pc[d]
  BY DEF Types, Goto
<1>3. QED
  BY <1>1, <1>2 DEF Alone

(* A command that is off has nothing to show.                              *)
LEMMA OffProgress ==
  ASSUME NEW c \in Sealers, pc[c] = "off"
  PROVE  Progress(c)
BY DEF Progress

(* So a step of one command needs its own progress only.                   *)
LEMMA OwnProgress ==
  ASSUME Types, Alone, ~Overlap, NEW c \in Commands, NEW to \in Points,
         pc[c] # "off" \/ Start(c), Goto(c, to),
         c \in Sealers => Progress(c)',
         to \in {"open", "header"} => Opening(c)'
  PROVE  pc' \in [Commands -> Points] /\ Alone' /\ Steady'
<1>1. /\ pc' \in [Commands -> Points] /\ pc'[c] = to /\ Alone'
      /\ \A d \in Commands \ {c} : pc'[d] = "off"
  BY OthersOff
<1>2. ASSUME NEW d \in Sealers, d # c PROVE Progress(d)'
  <2>1. pc'[d] = "off"
    BY <1>1, <1>2 DEF Sealers
  <2>2. QED
    BY <2>1 DEF Progress
<1>3. ASSUME NEW d \in Commands PROVE Opening(d)'
  <2>1. d # c => pc'[d] = "off"
    BY <1>1
  <2>2. QED
    BY <1>1, <2>1 DEF Opening
<1>4. QED
  BY <1>1, <1>2, <1>3 DEF Steady

(* What flushing cells into the live log does.                             *)
LEMMA FlushLive ==
  ASSUME Types, live # None, NEW cells \in Seq(Spans),
         files' = [files EXCEPT ![live] = @ \o cells], UNCHANGED live
  PROVE  /\ files' \in Seq(Seq(Cell))
         /\ live \in DOMAIN files' /\ live \in DOMAIN files
         /\ files'[live] = files[live] \o cells
         /\ IsLog(files[live]) => IsLog(files'[live])
         /\ InLive' = InLive \cup SpansIn(cells)
         /\ SpansIn(cells) \subseteq Spans
<1>0. DOMAIN files = 1 .. Len(files) /\ Len(files) \in Nat
  BY LenProperties DEF Types
<1>1. live \in DOMAIN files /\ files[live] \in Seq(Cell)
  BY <1>0, ElementOfSeq DEF Types
<1>2. /\ files[live] \o cells \in Seq(Cell)
      /\ SpansIn(files[live] \o cells) = SpansIn(files[live]) \cup SpansIn(cells)
      /\ IsLog(files[live]) => IsLog(files[live] \o cells)
  BY <1>1, LogConcat
<1>3. DOMAIN files' = DOMAIN files /\ files'[live] = files[live] \o cells
  BY <1>1
<1>7. files' \in Seq(Seq(Cell))
  BY <1>2, <1>0, <1>1, ExceptSeq DEF Types
<1>8. InLive' = InLive \cup SpansIn(cells)
  BY <1>2, <1>3 DEF InLive
<1>9. SpansIn(cells) \subseteq Spans
  BY ElementOfSeq, LenProperties DEF SpansIn
<1>10. QED
  BY <1>1, <1>2, <1>3, <1>7, <1>8, <1>9

(* SpanWal::open by any command looks for the path ...                     *)
LEMMA Existence ==
  ASSUME Types, NEW c \in Commands, NEW then \in {"recover", "run"}, LogExists(c, then)
  PROVE  /\ wal' \in [Commands -> Handle] /\ \A d \in Commands : d # c => wal'[d] = wal[d]
         /\ wal'[c].file = None /\ wal'[c].buf = << >>
         /\ wal'[c].fresh = (live = None) /\ wal'[c].then = then
<1>1. << >> \in Seq(Spans) /\ << >> \in Seq(Entry)
  BY EmptySeq
<1>2. (live = None) \in BOOLEAN
  OBVIOUS
<1>3. PICK b \in BOOLEAN : b = (live = None)
  BY <1>2
<1>4. PICK h : h = [NoWal EXCEPT !.fresh = b, !.then = then]
  OBVIOUS
<1>5. NoWal \in Handle /\ NoWal.file = None /\ NoWal.buf = << >>
  BY <1>1 DEF NoWal, Handle
<1>6. /\ h \in Handle
      /\ h.file = None /\ h.buf = << >> /\ h.fresh = b /\ h.then = then
  BY <1>4, <1>5 DEF Handle
<1>7. wal' = [wal EXCEPT ![c] = h]
  BY <1>3, <1>4 DEF LogExists
<1>8. QED
  BY <1>3, <1>6, <1>7 DEF Types

(* ... opens or makes the file; what the log holds stays ...               *)
LEMMA Opened ==
  ASSUME Types, NEW c \in Commands, OpenLog(c)
  PROVE  /\ files' \in Seq(Seq(Cell)) /\ DOMAIN files' = 1 .. Len(files')
         /\ live' \in DOMAIN files' /\ live' # None /\ live' \in Nat
         /\ wal' \in [Commands -> Handle] /\ \A d \in Commands : d # c => wal'[d] = wal[d]
         /\ wal'[c] = [wal[c] EXCEPT !.file = live']
         /\ wal'[c].file = live' /\ wal'[c].buf = wal[c].buf
         /\ InLive' = InLive
         /\ \A f \in 1 .. Len(files) : f \in 1 .. Len(files') /\ files'[f] = files[f]
         /\ IF live = None THEN live' = Len(files) + 1 /\ Len(files') = live' /\ files'[live'] = << >>
                           ELSE live' = live /\ files' = files
<1>0. << >> \in Seq(Cell) /\ None \notin Nat /\ SpansIn(<< >>) = {}
  BY EmptySeq, TraceDirAssumption, NewLog
<1>1. DOMAIN files = 1 .. Len(files) /\ Len(files) \in Nat
  BY LenProperties DEF Types
<1>2. /\ files' \in Seq(Seq(Cell)) /\ live' \in Nat /\ live' # None
      /\ live' \in 1 .. Len(files')
      /\ InLive' = InLive
      /\ \A f \in 1 .. Len(files) : f \in 1 .. Len(files') /\ files'[f] = files[f]
      /\ IF live = None THEN live' = Len(files) + 1 /\ Len(files') = live' /\ files'[live'] = << >>
                        ELSE live' = live /\ files' = files
  <2>1. CASE live = None
    <3>1. files' = Append(files, << >>) /\ live' = Len(files) + 1
      BY <2>1 DEF OpenLog
    <3>2. /\ files' \in Seq(Seq(Cell)) /\ Len(files') = Len(files) + 1
          /\ \A i \in 1 .. Len(files) : files'[i] = files[i]
          /\ files'[Len(files) + 1] = << >>
      BY <1>0, <3>1, AppendProperties DEF Types
    <3>3. live' # None /\ live' \in Nat
      BY <1>0, <1>1, <3>1
    <3>4. InLive' = {} /\ InLive = {}
      BY <1>0, <2>1, <3>1, <3>2, <3>3 DEF InLive
    <3>5. QED
      BY <1>1, <2>1, <3>1, <3>2, <3>3, <3>4
  <2>2. CASE live # None
    <3>1. UNCHANGED <<files, live>>
      BY <2>2 DEF OpenLog
    <3>2. QED
      BY <1>1, <2>2, <3>1 DEF Types, InLive
  <2>3. QED
    BY <2>1, <2>2
<1>3. DOMAIN files' = 1 .. Len(files')
  BY <1>2, LenProperties
<1>4. wal' = [wal EXCEPT ![c].file = live'] /\ wal[c] \in Handle
  BY DEF OpenLog, Types
<1>5. /\ wal'[c] = [wal[c] EXCEPT !.file = live'] /\ \A d \in Commands : d # c => wal'[d] = wal[d]
      /\ wal' = [d \in Commands |-> wal'[d]]
  BY <1>4 DEF Types
<1>6. wal'[c] \in Handle /\ wal'[c].file = live' /\ wal'[c].buf = wal[c].buf
  BY <1>2, <1>4, <1>5 DEF Handle
<1>7. wal' \in [Commands -> Handle]
  BY <1>5, <1>6 DEF Types
<1>8. QED
  BY <1>2, <1>3, <1>5, <1>6, <1>7

(* ... and writes the header where the path did not exist: no span.        *)
LEMMA Headed ==
  ASSUME Types, NEW c \in Commands, WriteHeader(c)
  PROVE  /\ files' \in Seq(Seq(Cell)) /\ Len(files') = Len(files)
         /\ \A f \in DOMAIN files : /\ files[f] \in Seq(Cell)
                                   /\ files'[f] = IF f = wal[c].file THEN files[f] \o <<Header>>
                                                                      ELSE files[f]
         /\ wal' \in [Commands -> Handle] /\ \A d \in Commands : d # c => wal'[d] = wal[d]
         /\ wal'[c].file = wal[c].file /\ wal'[c].buf = wal[c].buf /\ wal'[c].offset = 1
         /\ InLive' = InLive /\ UNCHANGED live /\ DOMAIN files' = DOMAIN files
<1>1. DOMAIN files = 1 .. Len(files) /\ Len(files) \in Nat
  BY LenProperties DEF Types
<1>2. \A f \in DOMAIN files : files[f] \in Seq(Cell)
  BY <1>1, ElementOfSeq DEF Types
<1>3. /\ DOMAIN files' = DOMAIN files
      /\ files' = [f \in DOMAIN files |-> IF f = wal[c].file THEN files[f] \o <<Header>> ELSE files[f]]
  BY DEF WriteHeader
<1>4. /\ <<Header>> \in Seq(Cell) /\ Len(<<Header>>) = 1 /\ <<Header>>[1] = Header
      /\ DOMAIN <<Header>> = 1 .. 1
  BY DEF Cell
<1>5. \A f \in DOMAIN files : files'[f] \in Seq(Cell)
  BY <1>2, <1>3, <1>4, ConcatProperties
<1>6. files' \in [1 .. Len(files) -> Seq(Cell)]
  BY <1>1, <1>3, <1>5
<1>7. files' \in Seq(Seq(Cell)) /\ Len(files') = Len(files)
  <2>1. files' \in Seq(Seq(Cell))
    BY <1>1, <1>6, SeqDef
  <2>2. QED
    BY <1>1, <1>6, <2>1, LenProperties
<1>8. ASSUME NEW cells \in Seq(Cell) PROVE SpansIn(cells \o <<Header>>) = SpansIn(cells)
  <2> DEFINE whole == cells \o <<Header>>
  <2>1. /\ Len(cells) \in Nat /\ DOMAIN cells = 1 .. Len(cells)
        /\ whole \in Seq(Cell) /\ Len(whole) = Len(cells) + 1
        /\ \A i \in 1 .. Len(whole) : whole[i] = IF i <= Len(cells) THEN cells[i] ELSE <<Header>>[i - Len(cells)]
    BY <1>4, LenProperties, ConcatProperties
  <2>2. DOMAIN whole = 1 .. Len(cells) + 1
    BY <2>1, LenProperties
  <2>3. \A i \in 1 .. Len(cells) : i \in 1 .. Len(cells) + 1 /\ whole[i] = cells[i]
    BY <2>1
  <2>4. whole[Len(cells) + 1] = Header
    BY <1>4, <2>1
  <2>5. \A i \in 1 .. Len(cells) + 1 : i \in 1 .. Len(cells) \/ i = Len(cells) + 1
    BY <2>1
  <2> HIDE DEF whole
  <2>6. SpansIn(whole) = SpansIn(cells)
    BY <2>1, <2>2, <2>3, <2>4, <2>5 DEF SpansIn
  <2>7. QED
    BY <2>6 DEF whole
<1>9. UNCHANGED live /\ InLive' = InLive
  <2>1. live' = live
    BY DEF WriteHeader
  <2>2. CASE live = None
    BY <2>1, <2>2 DEF InLive
  <2>3. CASE live # None
    <3>1. live \in DOMAIN files /\ files[live] \in Seq(Cell)
      BY <1>2, <2>3 DEF Types
    <3>2. files'[live] = files[live] \o <<Header>> \/ files'[live] = files[live]
      BY <1>3, <3>1
    <3>3. SpansIn(files'[live]) = SpansIn(files[live])
      BY <1>8, <3>1, <3>2
    <3>4. QED
      BY <2>1, <2>3, <3>3 DEF InLive
  <2>4. QED
    BY <2>1, <2>2, <2>3
<1>10. wal' = [wal EXCEPT ![c].offset = 1] /\ wal[c] \in Handle
  BY DEF WriteHeader, Types
<1>11. /\ wal'[c] = [wal[c] EXCEPT !.offset = 1] /\ \A d \in Commands : d # c => wal'[d] = wal[d]
       /\ wal' = [d \in Commands |-> wal'[d]]
  BY <1>10 DEF Types
<1>12. /\ wal'[c] \in Handle /\ wal'[c].file = wal[c].file /\ wal'[c].buf = wal[c].buf
       /\ wal'[c].offset = 1
  BY <1>10, <1>11 DEF Handle
<1>13. wal' \in [Commands -> Handle]
  BY <1>11, <1>12 DEF Types
<1>14. QED
  BY <1>2, <1>3, <1>7, <1>9, <1>11, <1>12, <1>13

----------------------------------------------------------------------------
(* Steps of the commands, one lemma each.                                  *)

(* The handle of a command that does not run.                              *)
LEMMA NoWalTyped == NoWal \in Handle
BY EmptySeq DEF NoWal, Handle

(* The job of a command that does not seal.                                *)
LEMMA NoJobTyped == NoJob \in SealJob
BY DEF NoJob, SealJob

(* recover() of a log that is there synchronises the handle.               *)
LEMMA RecoverSyncs ==
  ASSUME Types, NEW c \in Commands, Owns(c), wal[c].buf = << >>, IsLog(files[live]),
         NEW n \in 1 .. Len(files[live]), StopsAt(files[live], n),
         wal' = [wal EXCEPT ![c] = Recovered(@, n)], UNCHANGED <<files, live>>
  PROVE  wal' \in [Commands -> Handle] /\ Owns(c)' /\ Synced(wal[c])'
<1>1. files[live] \in Seq(Cell)
  BY DEF IsLog
<1>2. /\ IndexOf(files[live], n) \in Seq(Entry) /\ Covers(IndexOf(files[live], n), files[live])
      /\ Len(files[live]) \in Nat /\ n - 1 \in Nat
  BY <1>1, RecoveredIndex
<1>3. wal[c] \in Handle
  BY DEF Types
<1>4. Recovered(wal[c], n) \in Handle
  BY <1>2, <1>3 DEF Recovered, Handle
<1>5. wal' \in [Commands -> Handle] /\ wal'[c] = Recovered(wal[c], n)
  BY <1>4 DEF Types
<1>6. /\ wal'[c].file = wal[c].file /\ wal'[c].buf = << >>
      /\ wal'[c].index = IndexOf(files[live], n) /\ wal'[c].offset = Len(files[live])
  BY <1>3, <1>5 DEF Recovered, Handle
<1>7. files[live] \o << >> = files[live]
  BY <1>1, ConcatEmptySeq
<1>8. QED
  BY <1>2, <1>5, <1>6, <1>7 DEF Owns, Synced

(* A command that only looks whether the log is there loses nothing.       *)
LEMMA LogExistsStep ==
  ASSUME DirInv, ~Overlap, NEW c \in Commands, pc[c] # "off" \/ Start(c),
         NEW then \in {"recover", "run"}, LogExists(c, then), then = "run" => live = None,
         UNCHANGED <<fs, job, durable, warned>>
  PROVE  DirInv'
<1>1. Goto(c, "open") /\ "open" \in Points /\ UNCHANGED <<files, live, segs, lastMs>>
  BY DEF LogExists, Points, fs
<1>2. /\ wal' \in [Commands -> Handle] /\ wal'[c].buf = << >>
      /\ wal'[c].fresh = (live = None) /\ wal'[c].then = then
  BY Existence DEF DirInv
<1>3. pc'[c] = "open"
  BY <1>1 DEF Goto, DirInv, Types
<1>4. Opening(c)' /\ Progress(c)'
  BY <1>1, <1>2, <1>3 DEF Opening, Progress
<1>5. pc' \in [Commands -> Points] /\ Alone' /\ Steady'
  BY <1>1, <1>4, OwnProgress DEF DirInv
<1>6. Types' /\ LiveLog'
  BY <1>1, <1>2, <1>5 DEF DirInv, Types, LiveLog
<1>7. NoSpanLost'
  BY <1>1 DEF DirInv, NoSpanLost, InLive, Sealed
<1>8. QED
  BY <1>5, <1>6, <1>7 DEF DirInv

(* cmd_write looks for the log.                                            *)
LEMMA WriteStartStep ==
  ASSUME DirInv, ~Overlap, WriteStart
  PROVE  DirInv'
BY LogExistsStep DEF WriteStart, Start

(* cmd_seal looks for the log.                                             *)
LEMMA SealStartStep ==
  ASSUME DirInv, ~Overlap, SealStart
  PROVE  DirInv'
BY LogExistsStep DEF SealStart, Start

(* After a seal there is no log, and the next needs no recover().          *)
LEMMA WriteReopenStep ==
  ASSUME DirInv, ~Overlap, "write" \in Commands, WriteReopen
  PROVE  DirInv'
<1>1. "write" \in Sealers /\ pc["write"] = "reopen" /\ live = None
  BY DEF Sealers, WriteReopen, DirInv, Steady, Progress
<1>2. QED
  BY <1>1, LogExistsStep DEF WriteReopen

(* open() finds the log or makes an empty one.                             *)
LEMMA OpenLogStep ==
  ASSUME DirInv, ~Overlap, NEW c \in Commands, OpenLog(c)
  PROVE  DirInv'
<1> DEFINE to == IF wal[c].fresh THEN "header" ELSE wal[c].then
<1>1. /\ pc[c] = "open" /\ Goto(c, to) /\ UNCHANGED <<segs, lastMs, job, durable, warned>>
      /\ wal[c].fresh \in BOOLEAN /\ wal[c].then \in {"recover", "run"}
  BY DEF OpenLog, DirInv, Types, Handle
<1>2. /\ wal[c].buf = << >> /\ (wal[c].fresh <=> live = None)
      /\ wal[c].then = "run" => live = None
  BY <1>1 DEF DirInv, Steady, Opening
<1>3. /\ files' \in Seq(Seq(Cell)) /\ live' \in DOMAIN files' /\ live' # None
      /\ wal' \in [Commands -> Handle] /\ wal'[c].file = live' /\ wal'[c].buf = << >>
      /\ InLive' = InLive
      /\ IF live = None THEN files'[live'] = << >> ELSE live' = live /\ files' = files
  BY <1>2, Opened DEF DirInv
<1>4. to \in Points /\ pc'[c] = to
  BY <1>1 DEF Goto, DirInv, Types, Points
<1>5. Opening(c)'
  BY <1>1, <1>2, <1>3, <1>4 DEF Opening, Owns
<1>6. c \in Sealers => Progress(c)'
  BY <1>1, <1>2, <1>3, <1>4 DEF Progress, Owns
<1>7. pc' \in [Commands -> Points] /\ Alone' /\ Steady'
  BY <1>1, <1>4, <1>5, <1>6, OwnProgress DEF DirInv
<1>8. Types' /\ LiveLog'
  BY <1>1, <1>3, <1>7 DEF DirInv, Types, LiveLog
<1>9. NoSpanLost'
  BY <1>1, <1>3 DEF DirInv, NoSpanLost, Sealed
<1>10. QED
  BY <1>7, <1>8, <1>9 DEF DirInv

(* The header makes an empty file a log without spans.                     *)
LEMMA WriteHeaderStep ==
  ASSUME DirInv, ~Overlap, NEW c \in Commands, WriteHeader(c)
  PROVE  DirInv'
<1> DEFINE to == wal[c].then
<1>1. /\ pc[c] = "header" /\ Goto(c, to) /\ UNCHANGED <<live, segs, lastMs, job, durable, warned>>
      /\ to \in {"recover", "run"}
  BY DEF WriteHeader, DirInv, Types, Handle
<1>2. live = wal[c].file /\ live # None /\ wal[c].buf = << >> /\ files[live] = << >>
      /\ live \in DOMAIN files
  BY <1>1 DEF DirInv, Steady, Opening, Owns, Types
<1>3. /\ files' \in Seq(Seq(Cell)) /\ DOMAIN files' = DOMAIN files
      /\ files'[live] = files[live] \o <<Header>>
      /\ wal' \in [Commands -> Handle] /\ wal'[c].file = live /\ wal'[c].buf = << >>
      /\ wal'[c].offset = 1 /\ InLive' = InLive
  BY <1>2, Headed DEF DirInv
<1>4. <<Header>> \in Seq(Cell)
  BY DEF Cell
<1>5. files'[live] = <<Header>> /\ <<Header>> \o << >> = <<Header>>
  BY <1>2, <1>3, <1>4, ConcatEmptySeq
<1>6. IsLog(files'[live]) /\ Owns(c)' /\ Synced(wal[c])'
  BY <1>1, <1>2, <1>3, <1>5, NewLog DEF Owns, Synced
<1>7. to \in Points /\ pc'[c] = to
  BY <1>1 DEF Goto, DirInv, Types, Points
<1>8. c \in Sealers => Progress(c)'
  BY <1>1, <1>3, <1>6, <1>7 DEF Progress
<1>9. pc' \in [Commands -> Points] /\ Alone' /\ Steady'
  BY <1>1, <1>7, <1>8, OwnProgress DEF DirInv
<1>10. Types' /\ LiveLog'
  BY <1>1, <1>3, <1>6, <1>9 DEF DirInv, Types, LiveLog
<1>11. NoSpanLost'
  BY <1>1, <1>3 DEF DirInv, NoSpanLost, Sealed
<1>12. QED
  BY <1>9, <1>10, <1>11 DEF DirInv

(* SpanWal::open's two later steps.                                        *)
LEMMA OpenStepStep ==
  ASSUME DirInv, ~Overlap, NEW c \in Commands, OpenStep(c)
  PROVE  DirInv'
BY OpenLogStep, WriteHeaderStep DEF OpenStep

(* Once recovered, a command has a handle whose index is the log.          *)
LEMMA RecoverStep ==
  ASSUME DirInv, ~Overlap, NEW c \in Sealers, NEW to \in {"run", "seal"}, pc[c] = "recover",
         Goto(c, to), ~Logless,
         NEW n \in 1 .. Len(files[live]), StopsAt(files[live], n),
         wal' = [wal EXCEPT ![c] = Recovered(@, n)],
         UNCHANGED <<fs, job, query, durable, accepted, warned>>
  PROVE  DirInv'
<1>1. Owns(c) /\ wal[c].buf = << >>
  BY DEF DirInv, Steady, Progress
<1>a. c \in Commands /\ to \in Points /\ UNCHANGED <<files, live>>
  BY DEF Sealers, Points, fs
<1>b. IsLog(files[live])
  BY DEF Logless, Readable, DirInv, LiveLog
<1>2. wal' \in [Commands -> Handle] /\ Owns(c)' /\ Synced(wal[c])'
  BY <1>1, <1>a, <1>b, RecoverSyncs DEF DirInv
<1>3. pc'[c] = to
  BY <1>a DEF Goto, DirInv, Types
<1>4. Progress(c)'
  BY <1>2, <1>3, <1>a, <1>b DEF Progress
<1>5. pc' \in [Commands -> Points] /\ Alone' /\ Steady'
  BY <1>a, <1>4, OwnProgress DEF DirInv
<1>6. Types' /\ LiveLog'
  BY <1>2, <1>5 DEF DirInv, Types, fs, LiveLog
<1>7. NoSpanLost'
  BY DEF DirInv, NoSpanLost, InLive, Sealed, fs
<1>8. QED
  BY <1>5, <1>6, <1>7 DEF DirInv

(* A command that ends without a flush leaves the directory as it was.     *)
LEMMA ExitStep ==
  ASSUME DirInv, ~Overlap, NEW c \in Commands, pc[c] # "off", Exit(c),
         job' \in [Sealers -> SealJob], UNCHANGED <<fs, durable, warned>>
  PROVE  DirInv'
<1>1. Goto(c, "off") /\ "off" \in Points
  BY DEF Exit, Points
<1>2. pc'[c] = "off"
  BY <1>1 DEF Goto, DirInv, Types
<1>3. Progress(c)'
  BY <1>2 DEF Progress
<1>4. pc' \in [Commands -> Points] /\ Alone' /\ Steady'
  BY <1>1, <1>3, OwnProgress DEF DirInv
<1>5. wal' \in [Commands -> Handle]
  BY NoWalTyped DEF Exit, DirInv, Types
<1>6. Types' /\ LiveLog'
  BY <1>4, <1>5 DEF fs, DirInv, Types, LiveLog
<1>7. NoSpanLost'
  BY DEF fs, DirInv, NoSpanLost, InLive, Sealed
<1>8. QED
  BY <1>4, <1>6, <1>7 DEF DirInv

(* A span behind the log: the index that covered it covers the longer one. *)
LEMMA AppendCovers ==
  ASSUME NEW whole, IsLog(whole), NEW index \in Seq(Entry), Covers(index, whole),
         NEW s \in Spans
  PROVE  LET e == [span |-> s, offset |-> Len(whole)] IN
         /\ e \in Entry /\ Append(index, e) \in Seq(Entry)
         /\ Len(whole \o <<s>>) = Len(whole) + 1
         /\ Covers(Append(index, e), whole \o <<s>>)
<1> DEFINE e == [span |-> s, offset |-> Len(whole)]
           longer == whole \o <<s>>
           more == Append(index, e)
<1>1. /\ <<s>> \in Seq(Spans) /\ Len(<<s>>) = 1 /\ <<s>>[1] = s
  OBVIOUS
<1>2. Len(whole) \in Nat /\ whole \in Seq(Cell) /\ <<s>> \in Seq(Cell)
  BY LenProperties DEF IsLog, Cell
<1>3. /\ Len(longer) = Len(whole) + 1
      /\ \A i \in 1 .. Len(whole) : longer[i] = whole[i]
      /\ longer[Len(whole) + 1] = s
  BY <1>1, <1>2, ConcatProperties
<1>4. e \in Entry
  BY <1>2 DEF Entry
<1>5. /\ more \in Seq(Entry) /\ Len(more) = Len(index) + 1
      /\ \A j \in 1 .. Len(index) : more[j] = index[j]
      /\ more[Len(index) + 1] = e
  BY <1>4, AppendProperties
<1>6. /\ DOMAIN index = 1 .. Len(index) /\ DOMAIN more = 1 .. Len(index) + 1
      /\ Len(index) \in Nat
  BY <1>5, LenProperties
<1>7. ASSUME NEW i \in 2 .. Len(longer)
      PROVE  \E j \in DOMAIN more : more[j] = [span |-> longer[i], offset |-> i - 1]
  <2>1. CASE i <= Len(whole)
    <3>1. i \in 2 .. Len(whole) /\ longer[i] = whole[i]
      BY <2>1, <1>2, <1>3
    <3>2. PICK j \in DOMAIN index : index[j] = [span |-> whole[i], offset |-> i - 1]
      BY <3>1 DEF Covers
    <3>3. j \in DOMAIN more /\ more[j] = index[j]
      BY <1>5, <1>6
    <3>4. QED
      BY <3>1, <3>2, <3>3
  <2>2. CASE i > Len(whole)
    <3>1. i = Len(whole) + 1 /\ i - 1 = Len(whole)
      BY <2>2, <1>2, <1>3
    <3>2. more[Len(index) + 1] = [span |-> longer[i], offset |-> i - 1]
      BY <3>1, <1>3, <1>5
    <3>3. QED
      BY <3>2, <1>6
  <2>3. QED
    BY <2>1, <2>2, <1>2, <1>3
<1>8. Covers(more, longer)
  BY <1>7 DEF Covers
<1>9. QED
  BY <1>3, <1>4, <1>5, <1>8

(* append() keeps a handle synchronised, whether its buffer spills or not. *)
LEMMA AppendSyncs ==
  ASSUME Types, NEW c \in Commands, Owns(c), Synced(wal[c]), IsLog(files[live]),
         NEW s \in Spans,
         wal' = [wal EXCEPT ![c] = Appended(wal[c], s)], UNCHANGED live,
         IF Len(wal[c].buf) < BufSpans
         THEN UNCHANGED files
         ELSE files' = [files EXCEPT ![live] = @ \o wal[c].buf]
  PROVE  wal' \in [Commands -> Handle] /\ Owns(c)' /\ Synced(wal[c])'
<1> DEFINE w == wal[c]
           whole == files[live] \o w.buf
           e == [span |-> s, offset |-> Len(whole)]
<1>1. /\ w \in Handle /\ w.buf \in Seq(Spans) /\ w.index \in Seq(Entry)
      /\ w.file = live /\ w.count + 1 \in Nat
  BY DEF Types, Handle, Owns
<1>2. live \in DOMAIN files /\ files[live] \in Seq(Cell)
  BY DEF Types, Owns, IsLog
<1>3. IsLog(whole)
  BY <1>1, <1>2, LogConcat
<1>4. w.offset = Len(whole) /\ Covers(w.index, whole)
  BY <1>1 DEF Synced
<1>5. /\ e \in Entry /\ Append(w.index, e) \in Seq(Entry)
      /\ Len(whole \o <<s>>) = Len(whole) + 1
      /\ Covers(Append(w.index, e), whole \o <<s>>)
  BY <1>1, <1>3, <1>4, AppendCovers
<1>6. /\ Append(w.buf, s) \in Seq(Spans) /\ Append(w.buf, s) = w.buf \o <<s>>
      /\ <<s>> \in Seq(Spans) /\ <<s>> \in Seq(Cell) /\ w.buf \in Seq(Cell)
  <2> DEFINE buf == w.buf
  <2>0. buf \in Seq(Spans)
    BY <1>1
  <2> HIDE DEF buf
  <2>1. Append(buf, s) \in Seq(Spans)
    BY <2>0, AppendProperties
  <2>2. Append(buf, s) = buf \o <<s>>
    BY <2>0, AppendIsConcat
  <2>3. <<s>> \in Seq(Spans) /\ <<s>> \in Seq(Cell)
    BY DEF Cell
  <2>4. buf \in Seq(Cell)
    BY <2>0, ElementOfSeq, LenProperties, SeqDef DEF Cell
  <2>5. QED
    BY <2>1, <2>2, <2>3, <2>4 DEF buf
<1>a. files[live] \o (w.buf \o <<s>>) = whole \o <<s>>
  <2>1. \A p, q, r \in Seq(Cell) : (p \o q) \o r = p \o (q \o r)
    BY ConcatAssociative
  <2>2. QED
    BY <2>1, <1>2, <1>6
<1>7. files[live] \o Append(w.buf, s) = whole \o <<s>>
  BY <1>a, <1>6
<1>8. /\ wal'[c] = Appended(w, s) /\ Appended(w, s).file = live
      /\ Appended(w, s).buf = IF Len(w.buf) < BufSpans THEN Append(w.buf, s) ELSE <<s>>
      /\ Appended(w, s).index = Append(w.index, e)
      /\ Appended(w, s).offset = Len(whole) + 1
  BY <1>1, <1>4 DEF Types, Appended, Handle
<1>9. Len(whole) \in Nat
  BY <1>3, LenProperties DEF IsLog
<1>10. Appended(w, s) \in Handle
  <2>1. ASSUME NEW b \in Seq(Spans), NEW index \in Seq(Entry), NEW o \in Nat, NEW n \in Nat
        PROVE  [w EXCEPT !.buf = b, !.index = index, !.offset = o, !.count = n] \in Handle
    BY <1>1 DEF Handle
  <2>2. (IF Len(w.buf) < BufSpans THEN Append(w.buf, s) ELSE <<s>>) \in Seq(Spans)
    BY <1>6
  <2>a. w.offset + 1 \in Nat
    BY <1>1 DEF Handle
  <2>b. [span |-> s, offset |-> w.offset] = e
    BY <1>4
  <2>3. w.offset + 1 \in Nat /\ Append(w.index, [span |-> s, offset |-> w.offset]) \in Seq(Entry)
    BY <2>a, <2>b, <1>5
  <2>4. QED
    BY <2>1, <2>2, <2>3, <1>1 DEF Appended
<1>11. wal' \in [Commands -> Handle]
  BY <1>10 DEF Types
<1>12. files'[live] \o wal'[c].buf = whole \o <<s>>
  <2>1. CASE Len(w.buf) < BufSpans
    BY <2>1, <1>7, <1>8
  <2>2. CASE ~(Len(w.buf) < BufSpans)
    BY <2>2, <1>2, <1>8
  <2>3. QED
    BY <2>1, <2>2
<1>13. QED
  BY <1>5, <1>8, <1>11, <1>12 DEF Owns, Synced

(* A span taken keeps the handle in step; a spill makes spans durable.     *)
LEMMA WriteSpanStep ==
  ASSUME DirInv, ~Overlap, "write" \in Commands, NEW s \in Spans, WriteSpan(s)
  PROVE  DirInv'
<1> DEFINE w == wal["write"]
           to == IF SealEvery > 0 /\ (w.count + 1) % SealEvery = 0 THEN "seal" ELSE "run"
<1>1. /\ "write" \in Sealers /\ pc["write"] = "run" /\ Goto("write", to)
      /\ to \in Points /\ to \in {"run", "seal"}
  BY DEF Sealers, WriteSpan, Points
<1>2. Owns("write") /\ Synced(w) /\ w.file = live /\ live # None /\ IsLog(files[live])
  BY <1>1 DEF DirInv, Steady, Progress, Owns
<1>3. /\ wal' = [wal EXCEPT !["write"] = Appended(w, s)] /\ UNCHANGED live
      /\ IF Len(w.buf) < BufSpans
         THEN UNCHANGED <<files, durable>>
         ELSE /\ files' = [files EXCEPT ![live] = @ \o w.buf]
              /\ durable' = durable \cup SpansIn(w.buf)
  BY <1>2 DEF WriteSpan, FlushTo
<1>4. wal' \in [Commands -> Handle] /\ Owns("write")' /\ Synced(wal["write"])'
  BY <1>2, <1>3, AppendSyncs DEF DirInv
<1>5. pc'["write"] = to
  BY <1>1 DEF Goto, DirInv, Types
<1>8. w.buf \in Seq(Spans)
  BY DEF DirInv, Types, Handle
<1>9. /\ files' \in Seq(Seq(Cell)) /\ IsLog(files'[live'])
      /\ live' \in DOMAIN files' /\ durable' \subseteq Spans
      /\ durable' \subseteq durable \cup InLive' /\ InLive \subseteq InLive'
  <2>1. CASE Len(w.buf) < BufSpans
    BY <2>1, <1>2, <1>3 DEF DirInv, Types, InLive
  <2>2. CASE ~(Len(w.buf) < BufSpans)
    BY <2>2, <1>2, <1>3, <1>8, FlushLive DEF DirInv, Types
  <2>3. QED
    BY <2>1, <2>2
<1>6. Progress("write")'
  BY <1>1, <1>4, <1>5, <1>9 DEF Progress
<1>7. pc' \in [Commands -> Points] /\ Alone' /\ Steady'
  BY <1>1, <1>6, OwnProgress DEF DirInv
<1>10. Types' /\ LiveLog'
  BY <1>4, <1>7, <1>9 DEF WriteSpan, DirInv, Types, LiveLog
<1>11. NoSpanLost'
  BY <1>9 DEF WriteSpan, DirInv, NoSpanLost, Sealed
<1>12. QED
  BY <1>7, <1>10, <1>11 DEF DirInv

(* The last flush puts what it makes durable into the live log.            *)
LEMMA WriteEndStep ==
  ASSUME DirInv, ~Overlap, "write" \in Commands, WriteEnd
  PROVE  DirInv'
<1> DEFINE w == wal["write"]
<1>1. /\ "write" \in Sealers /\ pc["write"] = "run" /\ Goto("write", "off")
      /\ "off" \in Points
  BY DEF Sealers, WriteEnd, Exit, Points
<1>2. w.file = live /\ live # None /\ w.buf \in Seq(Spans) /\ IsLog(files[live])
  BY <1>1 DEF DirInv, Steady, Progress, Owns, Types, Handle
<1>3. /\ files' = [files EXCEPT ![live] = @ \o w.buf] /\ UNCHANGED live
      /\ durable' = durable \cup SpansIn(w.buf)
  BY <1>2 DEF WriteEnd, FlushTo
<1>4. /\ files' \in Seq(Seq(Cell)) /\ IsLog(files'[live])
      /\ live \in DOMAIN files' /\ InLive' = InLive \cup SpansIn(w.buf)
      /\ SpansIn(w.buf) \subseteq Spans
  BY <1>2, <1>3, FlushLive DEF DirInv
<1>5. pc'["write"] = "off"
  BY <1>1 DEF Goto, DirInv, Types
<1>6. Progress("write")'
  BY <1>5 DEF Progress
<1>7. pc' \in [Commands -> Points] /\ Alone' /\ Steady'
  BY <1>1, <1>6, OwnProgress DEF DirInv
<1>8. wal' \in [Commands -> Handle]
  BY NoWalTyped DEF WriteEnd, Exit, DirInv, Types
<1>9. Types' /\ LiveLog'
  BY <1>3, <1>4, <1>7, <1>8 DEF WriteEnd, DirInv, Types, LiveLog
<1>10. NoSpanLost'
  BY <1>3, <1>4 DEF WriteEnd, DirInv, NoSpanLost, Sealed
<1>11. QED
  BY <1>7, <1>9, <1>10 DEF DirInv

(* cmd_write, alone, finds the log it opened, or ends if it is empty.      *)
LEMMA WriteRecoverStep ==
  ASSUME DirInv, ~Overlap, "write" \in Commands, WriteRecover
  PROVE  DirInv'
<1>1. "write" \in Sealers /\ pc["write"] = "recover"
  BY DEF Sealers, WriteRecover
<1>2. live # None /\ job \in [Sealers -> SealJob]
  BY <1>1 DEF DirInv, Steady, Progress, Owns, Types
<1>3. CASE Exit("write")
  BY <1>1, <1>2, <1>3, ExitStep DEF WriteRecover
<1>4. CASE ~Logless /\ Goto("write", "run") /\ ~Exit("write")
  BY <1>1, <1>2, <1>4, RecoverStep DEF WriteRecover
<1>5. QED
  BY <1>2, <1>3, <1>4 DEF WriteRecover

(* cmd_seal, alone, finds the log it opened, or ends if it is empty.       *)
LEMMA SealRecoverStep ==
  ASSUME DirInv, ~Overlap, "seal" \in Commands, SealRecover
  PROVE  DirInv'
<1>1. "seal" \in Sealers /\ pc["seal"] = "recover"
  BY DEF Sealers, SealRecover
<1>2. job \in [Sealers -> SealJob]
  BY DEF DirInv, Types
<1>3. CASE Exit("seal")
  BY <1>1, <1>2, <1>3, ExitStep DEF SealRecover
<1>4. CASE ~Logless /\ Goto("seal", "seal") /\ ~Exit("seal")
  BY <1>1, <1>4, RecoverStep DEF SealRecover
<1>5. QED
  BY <1>3, <1>4 DEF SealRecover

----------------------------------------------------------------------------
(* do_seal.                                                                *)

(* Where the index covers the log, what do_seal reads back is every span.  *)
LEMMA SealReadsAll ==
  ASSUME NEW cells, IsLog(cells), NEW index, Covers(index, cells),
         NEW s \in SpansIn(cells)
  PROVE  \E j \in DOMAIN index : index[j].span = s /\ CellAt(cells, index[j].offset) = s
<1>1. PICK i \in 2 .. Len(cells) : cells[i] = s
  BY SpansOfLog
<1>2. PICK j \in DOMAIN index : index[j] = [span |-> cells[i], offset |-> i - 1]
  BY DEF Covers
<1>3. Len(cells) \in Nat
  BY LenProperties DEF IsLog
<1>4. i - 1 < Len(cells) /\ (i - 1) + 1 = i
  BY <1>3
<1>5. CellAt(cells, i - 1) = s
  BY <1>1, <1>4 DEF CellAt
<1>6. QED
  BY <1>1, <1>2, <1>5

(* What do_seal collects for the segment is the whole flushed log.         *)
LEMMA SealReadStep ==
  ASSUME DirInv, ~Overlap, ~SameMs, NEW c \in Sealers, SealRead(c)
  PROVE  DirInv'
<1> DEFINE w == wal[c]
           flushed == [files EXCEPT ![w.file] = @ \o w.buf]
           entries == {w.index[i] : i \in DOMAIN w.index}
           found == {e \in entries : live # None /\ CellAt(flushed[live], e.offset) = e.span}
           spans == {e.span : e \in found}
<1>1. /\ c \in Commands /\ pc[c] = "seal" /\ Goto(c, "write segment")
      /\ "write segment" \in Points
  BY DEF Sealers, SealRead, Points
<1>2. /\ w.file = live /\ live # None /\ w.buf \in Seq(Spans) /\ w.index \in Seq(Entry)
      /\ Synced(w) /\ w \in Handle /\ IsLog(files[live])
  BY <1>1 DEF DirInv, Steady, Progress, Owns, Types, Handle
<1>3. /\ files' = [files EXCEPT ![live] = @ \o w.buf] /\ UNCHANGED live
      /\ durable' = durable \cup SpansIn(w.buf) /\ files' = flushed
  BY <1>2 DEF SealRead, FlushTo
<1>4. /\ files' \in Seq(Seq(Cell)) /\ IsLog(files'[live])
      /\ live \in DOMAIN files' /\ InLive' = InLive \cup SpansIn(w.buf)
      /\ SpansIn(w.buf) \subseteq Spans /\ files'[live] = files[live] \o w.buf
  BY <1>2, <1>3, FlushLive DEF DirInv
<1>5. PICK ms \in lastMs .. MaxTime, ok \in BOOLEAN :
        /\ ms > 0 /\ ms > lastMs /\ lastMs' = ms
        /\ job' = [job EXCEPT ![c] = [ms |-> ms, spans |-> spans, ok |-> ok]]
  BY DEF SealRead
<1>6. ms \in Nat /\ DOMAIN segs \subseteq 1 .. ms /\ ms \notin DOMAIN segs
  BY <1>5, TraceDirAssumption DEF DirInv, Types
<1>7. InLive' \subseteq spans
  <2>1. Covers(w.index, flushed[live]) /\ IsLog(flushed[live])
    BY <1>2, <1>3, <1>4 DEF Synced
  <2>2. InLive' = SpansIn(flushed[live])
    BY <1>2, <1>3 DEF InLive
  <2>3. ASSUME NEW s \in SpansIn(flushed[live]) PROVE s \in spans
    <3>1. PICK j \in DOMAIN w.index :
            w.index[j].span = s /\ CellAt(flushed[live], w.index[j].offset) = s
      BY <2>1, SealReadsAll
    <3>2. w.index[j] \in found
      BY <3>1, <1>2
    <3>3. QED
      BY <3>1, <3>2
  <2>4. QED
    BY <2>2, <2>3
<1>8. spans \subseteq Spans
  <2>1. \A i \in DOMAIN w.index : w.index[i] \in Entry
    BY <1>2, ElementOfSeq, LenProperties
  <2>2. QED
    BY <2>1 DEF Entry
<1>9. job' \in [Sealers -> SealJob] /\ job'[c] = [ms |-> ms, spans |-> spans, ok |-> ok]
  BY <1>5, <1>6, <1>8 DEF DirInv, Types, SealJob
<1>10. pc'[c] = "write segment"
  BY <1>1 DEF Goto, DirInv, Types
<1>11. Progress(c)'
  BY <1>5, <1>6, <1>7, <1>9, <1>10 DEF Progress, SealRead
<1>12. pc' \in [Commands -> Points] /\ Alone' /\ Steady'
  BY <1>1, <1>11, OwnProgress DEF DirInv
<1>13. wal' \in [Commands -> Handle]
  <2>1. [w EXCEPT !.buf = << >>] \in Handle
    BY <1>2, EmptySeq DEF Handle
  <2>2. wal' = [wal EXCEPT ![c] = [w EXCEPT !.buf = << >>]]
    BY DEF SealRead
  <2>3. QED
    BY <2>1, <2>2 DEF DirInv, Types
<1>14. Types' /\ LiveLog'
  BY <1>3, <1>4, <1>5, <1>6, <1>9, <1>12, <1>13 DEF SealRead, DirInv, Types, LiveLog
<1>a. UNCHANGED <<segs, warned>>
  BY DEF SealRead
<1>15. NoSpanLost'
  BY <1>3, <1>4, <1>a DEF DirInv, NoSpanLost, Sealed
<1>16. QED
  BY <1>12, <1>14, <1>15 DEF DirInv

(* The segment has a new name, so creating it destroys none.               *)
LEMMA SegmentCreateStep ==
  ASSUME DirInv, ~Overlap, NEW c \in Sealers, SegmentCreate(c)
  PROVE  DirInv'
<1> DEFINE ms == job[c].ms
<1>1. /\ c \in Commands /\ pc[c] = "write segment" /\ job[c].ok /\ Goto(c, "fill segment")
      /\ "fill segment" \in Points
  BY DEF Sealers, SegmentCreate, Points
<1>2. /\ ms = lastMs /\ lastMs > 0 /\ ms \notin DOMAIN segs /\ InLive \subseteq job[c].spans
  BY <1>1 DEF DirInv, Steady, Progress
<1>3. segs' = [t \in DOMAIN segs \cup {ms} |-> IF t = ms THEN Partial ELSE segs[t]]
  BY DEF SegmentCreate
<1>4. /\ DOMAIN segs' = DOMAIN segs \cup {ms} /\ segs'[ms] = Partial
      /\ \A t \in DOMAIN segs : segs'[t] = segs[t]
      /\ segs' \in [DOMAIN segs' -> SUBSET Cell] /\ DOMAIN segs' \subseteq 1 .. lastMs
  BY <1>2, <1>3 DEF DirInv, Types, Partial, Cell
<1>5. Sealed \subseteq Sealed'
  BY <1>4 DEF Sealed
<1>6. InLive' = InLive
  BY DEF SegmentCreate, InLive
<1>7. pc'[c] = "fill segment"
  BY <1>1 DEF Goto, DirInv, Types
<1>8. Progress(c)'
  BY <1>2, <1>4, <1>6, <1>7 DEF Progress, SegmentCreate
<1>9. pc' \in [Commands -> Points] /\ Alone' /\ Steady'
  BY <1>1, <1>8, OwnProgress DEF DirInv
<1>10. Types' /\ LiveLog'
  BY <1>4, <1>9 DEF SegmentCreate, DirInv, Types, LiveLog
<1>11. NoSpanLost'
  BY <1>5, <1>6 DEF SegmentCreate, DirInv, NoSpanLost
<1>12. QED
  BY <1>9, <1>10, <1>11 DEF DirInv

(* The sealed spans, here and after a step.                                *)
LEMMA SealedSpans ==
  /\ \A s : s \in Sealed <=> s # Header /\ \E t \in DOMAIN segs : s \in segs[t]
  /\ \A s : s \in Sealed' <=> s # Header /\ \E t \in DOMAIN segs' : s \in segs'[t]
BY DEF Sealed, Partial

(* A seal that fails says so.                                              *)
LEMMA WarnStep ==
  ASSUME DirInv, ~Overlap, NEW c \in Sealers, pc[c] # "off", SealWarn(c), Goto(c, "remove"),
         UNCHANGED <<files, live, lastMs, wal, query, durable, accepted, crashes>>
  PROVE  DirInv'
<1>1. c \in Commands /\ "remove" \in Points /\ pc'[c] = "remove" /\ warned'
  BY DEF Sealers, Points, Goto, DirInv, Types, SealWarn
<1>2. Progress(c)'
  BY <1>1 DEF Progress
<1>3. pc' \in [Commands -> Points] /\ Alone' /\ Steady'
  BY <1>1, <1>2, OwnProgress DEF DirInv
<1>4. job' \in [Sealers -> SealJob]
  BY DEF SealWarn, DirInv, Types, SealJob
<1>5. Types' /\ LiveLog'
  BY <1>3, <1>4 DEF SealWarn, DirInv, Types, LiveLog
<1>6. QED
  BY <1>1, <1>3, <1>5 DEF DirInv, NoSpanLost

(* A log that does not read back, or a segment not opened, is warned of.   *)
LEMMA SealFailedStep ==
  ASSUME DirInv, ~Overlap, NEW c \in Sealers, SealFailed(c)
  PROVE  DirInv'
BY WarnStep DEF SealFailed

(* A segment written in full holds the log; one that fails is warned of.   *)
LEMMA SegmentFillStep ==
  ASSUME DirInv, ~Overlap, NEW c \in Sealers, SegmentFill(c)
  PROVE  DirInv'
<1> DEFINE ms == job[c].ms
<1>1. CASE IoErrors /\ SealWarn(c)
  BY <1>1, WarnStep DEF SegmentFill
<1>2. CASE segs' = [segs EXCEPT ![ms] = job[c].spans] /\ UNCHANGED <<job, warned>>
  <2>1. /\ c \in Commands /\ pc[c] = "fill segment" /\ Goto(c, "remove") /\ "remove" \in Points
    BY DEF Sealers, SegmentFill, Points
  <2>2. /\ ms \in DOMAIN segs /\ segs[ms] = Partial /\ InLive \subseteq job[c].spans
        /\ job[c].spans \subseteq Spans
    BY <2>1 DEF DirInv, Steady, Progress, Types, SealJob
  <2>3. /\ DOMAIN segs' = DOMAIN segs /\ segs'[ms] = job[c].spans
        /\ \A t \in DOMAIN segs : t # ms => segs'[t] = segs[t]
        /\ segs' \in [DOMAIN segs' -> SUBSET Cell]
    BY <1>2, <2>2 DEF DirInv, Types, Cell
  <2>4. InLive' = InLive /\ Header \notin InLive
    BY DEF SegmentFill, InLive, SpansIn
  <2>5. InLive' \subseteq Sealed'
    <3>1. ASSUME NEW s \in InLive' PROVE s \in segs'[ms] /\ ms \in DOMAIN segs' /\ s # Header
      BY <3>1, <2>2, <2>3, <2>4
    <3>2. QED
      BY <3>1, SealedSpans
  <2>6. Sealed \subseteq Sealed'
    <3>1. ASSUME NEW s \in Sealed PROVE s \in Sealed'
      <4>1. PICK t \in DOMAIN segs : s \in segs[t] /\ s \notin Partial
        BY <3>1, SealedSpans DEF Partial
      <4>2. t \in DOMAIN segs' /\ s \in segs'[t]
        BY <4>1, <2>2, <2>3
      <4>3. QED
        BY <4>1, <4>2, SealedSpans DEF Partial
    <3>2. QED
      BY <3>1
  <2>7. pc'[c] = "remove"
    BY <2>1 DEF Goto, DirInv, Types
  <2>8. Progress(c)'
    BY <2>5, <2>7 DEF Progress
  <2>9. pc' \in [Commands -> Points] /\ Alone' /\ Steady'
    BY <2>1, <2>8, OwnProgress DEF DirInv
  <2>10. Types' /\ LiveLog'
    BY <1>2, <2>3, <2>9 DEF SegmentFill, DirInv, Types, LiveLog
  <2>11. NoSpanLost'
    BY <1>2, <2>4, <2>6 DEF SegmentFill, DirInv, NoSpanLost
  <2>12. QED
    BY <2>9, <2>10, <2>11 DEF DirInv
<1>3. QED
  BY <1>1, <1>2 DEF SegmentFill

(* The log goes when what it held is sealed, or the seal warned.           *)
LEMMA RemoveWalStep ==
  ASSUME DirInv, ~Overlap, NEW c \in Sealers, RemoveWal(c)
  PROVE  DirInv'
<1> DEFINE to == IF c = "write" THEN "reopen" ELSE "off"
<1>1. /\ c \in Commands /\ pc[c] = "remove" /\ Goto(c, to) /\ to \in Points
      /\ live' = None /\ UNCHANGED <<files, segs, durable, warned>>
  BY DEF Sealers, RemoveWal, Exit, Points
<1>2. warned \/ InLive \subseteq Sealed
  BY <1>1 DEF DirInv, Steady, Progress
<1>3. InLive' = {} /\ Sealed' = Sealed
  BY <1>1 DEF InLive, Sealed
<1>4. NoSpanLost'
  BY <1>1, <1>2, <1>3 DEF DirInv, NoSpanLost
<1>5. pc'[c] = to
  BY <1>1 DEF Goto, DirInv, Types
<1>6. Progress(c)'
  BY <1>1, <1>5 DEF Progress
<1>7. pc' \in [Commands -> Points] /\ Alone' /\ Steady'
  BY <1>1, <1>6, OwnProgress DEF DirInv
<1>8. wal' \in [Commands -> Handle]
  BY NoWalTyped DEF RemoveWal, Exit, DirInv, Types
<1>9. job' \in [Sealers -> SealJob]
  BY NoJobTyped DEF RemoveWal, DirInv, Types
<1>10. Types' /\ LiveLog'
  BY <1>1, <1>7, <1>8, <1>9 DEF RemoveWal, DirInv, Types, LiveLog
<1>11. QED
  BY <1>4, <1>7, <1>10 DEF DirInv

(* A killed command leaves the directory as it was.                        *)
LEMMA CrashStep ==
  ASSUME DirInv, ~Overlap, NEW c \in Sealers, Crash(c)
  PROVE  DirInv'
<1>1. c \in Commands /\ pc[c] # "off" /\ Exit(c) /\ UNCHANGED <<fs, durable, warned>>
  BY DEF Sealers, Crash, Killed
<1>2. job' \in [Sealers -> SealJob]
  BY NoJobTyped DEF Crash, DirInv, Types
<1>3. QED
  BY <1>1, <1>2, ExitStep

----------------------------------------------------------------------------
(* The query.                                                              *)

(* A step of the query that leaves files, segments and handles alone.      *)
LEMMA QueryLooks ==
  ASSUME DirInv, ~Overlap, "query" \in Commands, NEW to \in Points,
         pc["query"] # "off" \/ Start("query"), Goto("query", to),
         to \notin {"open", "header"},
         wal' \in [Commands -> Handle],
         UNCHANGED <<fs, job, durable, warned>>
  PROVE  DirInv'
<1>1. pc' \in [Commands -> Points] /\ Alone' /\ Steady'
  BY OwnProgress DEF DirInv, Sealers
<1>2. Types' /\ LiveLog'
  BY <1>1 DEF fs, DirInv, Types, LiveLog
<1>3. NoSpanLost'
  BY DEF fs, DirInv, NoSpanLost, InLive, Sealed
<1>4. QED
  BY <1>1, <1>2, <1>3 DEF DirInv

(* A query goes on to the log if its listing had one.                      *)
LEMMA QueryOpenWalStep ==
  ASSUME DirInv, ~Overlap, "query" \in Commands, QueryOpenWal
  PROVE  DirInv'
<1>1. pc["query"] = "load" /\ UNCHANGED <<fs, job, durable, warned>>
  BY DEF QueryOpenWal
<1>2. CASE LogExists("query", "recover")
  BY <1>1, <1>2, LogExistsStep
<1>3. CASE Goto("query", "answered") /\ UNCHANGED wal
  <2>1. wal' \in [Commands -> Handle] /\ "answered" \in Points
    BY <1>3 DEF DirInv, Types, Points
  <2>2. QED
    BY <1>1, <1>3, <2>1, QueryLooks
<1>4. QED
  BY <1>2, <1>3 DEF QueryOpenWal

(* No step of a query loses a span.                                        *)
LEMMA QueryStepKeeps ==
  ASSUME DirInv, ~Overlap, QueryStep
  PROVE  DirInv'
<1>1. "query" \in Commands /\ wal \in [Commands -> Handle]
  BY DEF QueryStep, DirInv, Types
<1>a. /\ "load" \in Points /\ "read" \in Points /\ "answered" \in Points
      /\ "failed" \in Points /\ "off" \in Points /\ pc["query"] \in Points
  BY <1>1 DEF Points, DirInv, Types
<1>2. CASE QueryStart
  BY <1>1, <1>2, <1>a, QueryLooks DEF QueryStart
<1>3. CASE QueryOpenWal
  BY <1>1, <1>3, QueryOpenWalStep
<1>b. CASE OpenStep("query")
  BY <1>1, <1>b, OpenStepStep
<1>c. CASE QueryCrash
  <2>1. job' \in [Sealers -> SealJob]
    BY <1>c DEF QueryCrash, DirInv, Types
  <2>2. QED
    BY <1>1, <1>c, <2>1, ExitStep DEF QueryCrash, Killed
<1>4. CASE QueryRecover
  <2>1. PICK to \in {"failed", "read"} : Goto("query", to)
    BY <1>4 DEF QueryRecover
  <2>2. pc["query"] # "off" /\ UNCHANGED <<fs, wal, job, durable, warned>>
    BY <1>4 DEF QueryRecover
  <2>3. QED
    BY <1>1, <1>a, <2>1, <2>2, QueryLooks
<1>5. CASE QueryRead
  <2>1. PICK to \in {"failed", "answered"} : Goto("query", to)
    BY <1>5 DEF QueryRead
  <2>2. pc["query"] # "off" /\ UNCHANGED <<fs, wal, job, durable, warned>>
    BY <1>5 DEF QueryRead
  <2>3. QED
    BY <1>1, <1>a, <2>1, <2>2, QueryLooks
<1>6. CASE QueryEnd
  <2>1. wal' \in [Commands -> Handle]
    BY <1>1, <1>6, NoWalTyped DEF QueryEnd, Exit
  <2>2. QED
    BY <1>1, <1>6, <1>a, <2>1, QueryLooks DEF QueryEnd, Exit
<1>7. ASSUME NEW t \in query.todo, QueryLoad(t) PROVE DirInv'
  <2>1. PICK to \in {"failed", "load"} : Goto("query", to)
    <3>1. CASE segs[t] = Partial
      BY <1>7, <3>1 DEF QueryLoad
    <3>2. CASE segs[t] # Partial
      <4>1. pc' = pc /\ pc["query"] = "load"
        BY <1>7, <3>2 DEF QueryLoad
      <4>2. pc' = [pc EXCEPT !["query"] = "load"]
        BY <4>1, <1>1 DEF DirInv, Types
      <4>3. QED
        BY <4>2 DEF Goto
    <3>3. QED
      BY <3>1, <3>2
  <2>2. pc["query"] # "off" /\ UNCHANGED <<fs, wal, job, durable, warned>>
    BY <1>7 DEF QueryLoad
  <2>3. QED
    BY <1>1, <1>a, <2>1, <2>2, QueryLooks
<1>8. QED
  BY <1>2, <1>3, <1>b, <1>c, <1>4, <1>5, <1>6, <1>7 DEF QueryStep

----------------------------------------------------------------------------
(* The invariant holds of an empty directory ...                           *)
LEMMA DirInit == Init => DirInv
<1> SUFFICES ASSUME Init PROVE DirInv
  OBVIOUS
<1>1. files \in Seq(Seq(Cell)) /\ DOMAIN files = {}
  BY EmptySeq DEF Init
<1>2. /\ pc \in [Commands -> Points] /\ wal \in [Commands -> Handle]
      /\ job \in [Sealers -> SealJob]
  BY NoWalTyped, NoJobTyped DEF Init, Points
<1>3. Types
  BY <1>1, <1>2 DEF Init, Types
<1>4. Alone /\ LiveLog /\ Steady
  BY DEF Init, Alone, LiveLog, Steady, Progress, Opening, Sealers
<1>5. NoSpanLost
  BY DEF Init, NoSpanLost
<1>6. QED
  BY <1>3, <1>4, <1>5 DEF DirInv

(* ... and every step keeps it.                                            *)
LEMMA DirNext == ASSUME DirInv, ~Overlap, ~SameMs, [Next]_vars PROVE DirInv'
<1>1. CASE WriteStep
  BY <1>1, WriteStartStep, OpenStepStep, WriteRecoverStep, WriteEndStep, WriteReopenStep, WriteSpanStep
     DEF WriteStep
<1>2. CASE "seal" \in Commands /\ (SealStart \/ OpenStep("seal") \/ SealRecover)
  BY <1>2, SealStartStep, OpenStepStep, SealRecoverStep
<1>3. ASSUME NEW c \in Sealers, SealStep(c) \/ Crash(c) PROVE DirInv'
  BY <1>3, SealReadStep, SegmentCreateStep, SegmentFillStep, SealFailedStep, RemoveWalStep,
     CrashStep DEF SealStep
<1>4. CASE QueryStep
  BY <1>4, QueryStepKeeps
<1>5. CASE UNCHANGED vars
  <2> USE <1>5 DEF vars
  <2>1. Types' /\ Alone' /\ LiveLog' /\ InLive' = InLive /\ Sealed' = Sealed
    BY DEF DirInv, Types, Alone, LiveLog, InLive, Sealed
  <2>2. Steady'
    <3>1. \A c \in Commands : Owns(c)' = Owns(c) /\ Synced(wal[c])' = Synced(wal[c])
      BY DEF Owns, Synced
    <3>2. ASSUME NEW c \in Sealers PROVE Progress(c)'
      <4>1. Progress(c) /\ c \in Commands
        BY DEF DirInv, Steady, Sealers
      <4>2. QED
        BY <2>1, <3>1, <4>1 DEF Progress
    <3>3. ASSUME NEW c \in Commands PROVE Opening(c)'
      <4>1. Opening(c)
        BY DEF DirInv, Steady
      <4>2. QED
        BY <3>1, <4>1 DEF Opening
    <3>4. QED
      BY <3>2, <3>3 DEF Steady
  <2>3. NoSpanLost'
    BY <2>1 DEF DirInv, NoSpanLost
  <2>4. QED
    BY <2>1, <2>2, <2>3 DEF DirInv
<1>6. QED
  BY <1>1, <1>2, <1>3, <1>4, <1>5 DEF Next

(* While commands run one at a time and no two seals fall in a millisecond, *)
(* no span that reached the disk is lost: a seal removes the log only with  *)
(* a segment that has all of it, wherever a command is killed, or it has    *)
(* printed that it failed.                                                  *)
THEOREM NoSpanIsLost ==
  ASSUME ~Overlap, ~SameMs
  PROVE  Spec => []NoSpanLost
<1>1. DirInv => NoSpanLost
  BY DEF DirInv
<1>2. DirInv /\ [Next]_vars => DirInv'
  BY DirNext
<1>3. QED
  BY <1>1, <1>2, DirInit, PTL DEF Spec
=============================================================================
