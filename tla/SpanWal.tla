------------------------------ MODULE SpanWal ------------------------------
(***************************************************************************)
(* rust/src/wal.rs: the append-only span log `live.nxsw` of one SpanWal    *)
(* handle, over crashes and restarts.                                      *)
(*                                                                         *)
(* Bytes are grouped in cells.  The file starts with HeaderLen cells       *)
(* (magic; schema length; schema) and every NYXO record of span s is       *)
(* Size[s] cells: cell 1 is the 8-byte object header (magic, obj_len),     *)
(* cell 2 the bitmask and offset table, cell 3 the values of slots 0..2    *)
(* that carry the identity, the others the remaining fields.  A write that *)
(* is cut short is cut between two cells.  What cells 3 and up hold is the *)
(* caller's: a reader that takes them for something else finds anything.   *)
(*                                                                         *)
(* `log` is the file followed by the contents of the BufWriter; the first  *)
(* `written` cells of it are the file.                                     *)
(***************************************************************************)
EXTENDS Integers, Sequences

CONSTANTS
  Spans,       (* spans a caller may append                                *)
  Size,        (* Size[s]: cells of the encoded record of s                *)
  HeaderLen,   (* cells of the WAL header and its schema                   *)
  MaxRecord,   (* MAX_RECORD_BYTES, the largest obj_len recover() accepts  *)
  BufCap,      (* capacity of the BufWriter                                *)
  CrashKinds,  (* where a crash may fall: see the Crash actions            *)
  WalHeader,   (* tag of the header's cells, not a span                    *)
  Opaque,      (* spans whose record decode_span_object() refuses: an i64  *)
               (* of theirs begins like a nested object (decoder.rs:418)   *)
  Stray,       (* an identity that bytes spell which are nobody's          *)
  NoId,        (* extract_trace_span_id() returns None                     *)
  MaxLog,      (* bound: cells ever in log                                 *)
  MaxCrashes   (* bound: crashes per behaviour                             *)

ASSUME SpanWalAssumption ==
  /\ Size \in [Spans -> Nat]
  /\ \A s \in Spans : Size[s] >= 3
  /\ HeaderLen \in Nat /\ HeaderLen >= 2
  /\ MaxRecord \in Nat /\ BufCap \in Nat /\ MaxLog \in Nat /\ MaxCrashes \in Nat
  /\ CrashKinds \subseteq {"between", "torn", "creating"}
  /\ WalHeader \notin Spans /\ Stray \notin Spans /\ NoId \notin Spans
  /\ Stray # NoId /\ Opaque \subseteq Spans

VARIABLES
  exists,        (* live.nxsw is in the directory                          *)
  log,           (* cells of the file, then cells of the BufWriter         *)
  written,       (* how many cells of log have reached the file            *)
  mode,          (* what the handle is doing                               *)
  index,         (* SpanWal::index                                         *)
  recordCount,   (* SpanWal::record_count                                  *)
  currentOffset, (* SpanWal::current_offset                                *)
  scan,          (* locals of recover(): pos, index, record_count          *)
  sealed,        (* the last segment seal() wrote: entries and report      *)
  laid,          (* history: records whose cells are all in log, in order  *)
  safe,          (* history: how many of laid are in the file              *)
  tear,          (* history: where the first cut write begins, or NoTear   *)
  crashes        (* history: crashes so far                                *)

vars == <<exists, log, written, mode, index, recordCount, currentOffset,
          scan, sealed, laid, safe, tear, crashes>>
----------------------------------------------------------------------------
NoTear == -1
Cell == [span : Spans \cup {WalHeader}, part : Nat]
Entry == [span : Spans, offset : Nat]
Listed == [span : Spans \cup {Stray}, offset : Nat]
Modes == {"down", "creating", "unsynced", "scanning", "ready", "failed"}

HeaderCells == [i \in 1 .. HeaderLen |-> [span |-> WalHeader, part |-> i]]
RecordCells(s) == [i \in 1 .. Size[s] |-> [span |-> s, part |-> i]]

(* The file as another descriptor reads it: the BufWriter's cells are not  *)
(* in it.                                                                  *)
File == SubSeq(log, 1, written)

End(e) == e.offset + Size[e.span]

(* Where the first n of a log's records end.                               *)
Edge(recs, n) == IF n = 0 THEN HeaderLen ELSE End(recs[n])

NoScan == [pos |-> 0, index |-> << >>, count |-> 0]
NoSeal == [entries |-> {}, records |-> 0]

(* The cells a complete record of e leaves in f.                           *)
Intact(f, e) ==
  /\ e.span \in Spans /\ End(e) <= Len(f)
  /\ \A i \in 1 .. Size[e.span] : f[e.offset + i] = [span |-> e.span, part |-> i]

(* Mutant of RecordAt: a record that ends exactly at the end of the file   *)
(* is taken for a cut one.                                                 *)
RecordAtStrict(f, pos) ==
  /\ pos < Len(f)
  /\ f[pos + 1].span \in Spans
  /\ f[pos + 1].part = 1
  /\ Size[f[pos + 1].span] <= MaxRecord
  /\ pos + Size[f[pos + 1].span] < Len(f)

(* recover()'s loop accepts the bytes at pos: an object header is there,   *)
(* its length is within the guard and does not pass the end of the file.   *)
RecordAt(f, pos) ==
  /\ pos < Len(f)
  /\ f[pos + 1].span \in Spans
  /\ f[pos + 1].part = 1
  /\ Size[f[pos + 1].span] <= MaxRecord
  /\ pos + Size[f[pos + 1].span] <= Len(f)

(* What extract_trace_span_id() may return of the bytes of a record: with  *)
(* its own table and values the span, with its own table alone what bytes  *)
(* are where the values should be, without its table nothing, or something *)
(* if offsets read from other bytes happen to lie within obj_len.          *)
IdsAt(f, pos) ==
  LET s == f[pos + 1].span IN
  IF f[pos + 2] # [span |-> s, part |-> 2] THEN {NoId, Stray}
  ELSE IF f[pos + 3] = [span |-> s, part |-> 3] THEN {s} ELSE {Stray}

(* A cell of fields behind a cut record, where recover() lands after an    *)
(* obj_len that is not this record's: it may spell an object header.       *)
FieldsAt(f, pos) ==
  pos < Len(f) /\ f[pos + 1].span \in Spans /\ f[pos + 1].part >= 3

(* index.push() of an identity, if there is one.                           *)
Pushed(idx, id, pos) ==
  IF id = NoId THEN idx ELSE Append(idx, [span |-> id, offset |-> pos])

(* A header recover() accepts: the magic, and a schema length to skip.     *)
HeaderReadable(f) == Len(f) >= 2 /\ f[1] = [span |-> WalHeader, part |-> 1]

(* BufWriter::write_all of d cells: how much of the log is in the file     *)
(* afterwards.                                                             *)
WrittenAfter(d) ==
  IF d >= BufCap THEN Len(log) + d
  ELSE IF d > BufCap - (Len(log) - written) THEN Len(log) ELSE written
----------------------------------------------------------------------------
Init ==
  /\ exists = FALSE /\ log = << >> /\ written = 0
  /\ mode = "down"
  /\ index = << >> /\ recordCount = 0 /\ currentOffset = 0
  /\ scan = NoScan /\ sealed = NoSeal
  /\ laid = << >> /\ safe = 0 /\ tear = NoTear /\ crashes = 0

history == <<laid, safe, tear, crashes>>

(* open() of a path that does not exist creates the file ...               *)
OpenNew ==
  /\ mode = "down" /\ ~exists
  /\ exists' = TRUE /\ mode' = "creating"
  /\ UNCHANGED <<log, written, index, recordCount, currentOffset, scan, sealed, history>>

(* ... and then writes and flushes the header.                             *)
WriteHeader ==
  /\ mode = "creating"
  /\ log' = HeaderCells /\ written' = HeaderLen
  /\ currentOffset' = HeaderLen
  /\ mode' = "ready"
  /\ UNCHANGED <<exists, index, recordCount, scan, sealed, history>>

(* Mutant of OpenExisting: recover() is not called.                        *)
OpenExistingUnsynced ==
  /\ mode = "down" /\ exists
  /\ mode' = "ready"
  /\ UNCHANGED <<exists, log, written, index, recordCount, currentOffset, scan,
                 sealed, history>>

(* open() of an existing file writes no header.  A caller that follows the *)
(* comment of open() calls recover() next when the file is non-empty.      *)
OpenExisting ==
  /\ mode = "down" /\ exists
  /\ mode' = IF log = << >> THEN "ready" ELSE "unsynced"
  /\ UNCHANGED <<exists, log, written, index, recordCount, currentOffset, scan,
                 sealed, history>>

(* append(): encode, write_all, advance the offset, index the record.      *)
AppendSpan(s) ==
  LET e == [span |-> s, offset |-> currentOffset] IN
  /\ mode = "ready"
  /\ Len(log) + Size[s] <= MaxLog
  /\ log' = log \o RecordCells(s)
  /\ written' = WrittenAfter(Size[s])
  /\ currentOffset' = currentOffset + Size[s]
  /\ index' = Append(index, e)
  /\ recordCount' = recordCount + 1
  /\ laid' = Append(laid, [span |-> s, offset |-> Len(log)])
  /\ safe' = IF written' > Len(log) THEN Len(laid) + 1
             ELSE IF written' = Len(log) THEN Len(laid) ELSE safe
  /\ UNCHANGED <<exists, mode, scan, sealed, tear, crashes>>

(* flush() *)
Flush ==
  /\ mode = "ready" /\ written < Len(log)
  /\ written' = Len(log) /\ safe' = Len(laid)
  /\ UNCHANGED <<exists, log, mode, index, recordCount, currentOffset, scan,
                 sealed, laid, tear, crashes>>

(* recover(): header checks ...                                            *)
RecoverBegin ==
  /\ mode = "unsynced" /\ HeaderReadable(File)
  /\ scan' = [pos |-> HeaderLen, index |-> << >>, count |-> 0]
  /\ mode' = "scanning"
  /\ UNCHANGED <<exists, log, written, index, recordCount, currentOffset, sealed, history>>

RecoverFails ==
  /\ mode = "unsynced" /\ ~HeaderReadable(File)
  /\ mode' = "failed"
  /\ UNCHANGED <<exists, log, written, index, recordCount, currentOffset,
                 scan, sealed, history>>

(* Mutant of RecoverRecord: the position is not advanced past the record.  *)
RecoverRecordStuck ==
  /\ mode = "scanning" /\ RecordAt(File, scan.pos)
  /\ UNCHANGED vars

(* Mutant of RecoverRecord: the entry has the position behind the record.  *)
RecoverRecordEndPos ==
  LET s == File[scan.pos + 1].span IN
  /\ mode = "scanning" /\ RecordAt(File, scan.pos)
  /\ \E id \in IdsAt(File, scan.pos) :
       scan' = [pos   |-> scan.pos + Size[s],
                index |-> Pushed(scan.index, id, scan.pos + Size[s]),
                count |-> scan.count + 1]
  /\ UNCHANGED <<exists, log, written, mode, index, recordCount,
                 currentOffset, sealed, history>>

(* ... one turn of its loop; a record without identity is counted but not  *)
(* indexed ...                                                             *)
RecoverRecord ==
  LET s == File[scan.pos + 1].span IN
  /\ mode = "scanning" /\ RecordAt(File, scan.pos)
  /\ \E id \in IdsAt(File, scan.pos) :
       scan' = [pos   |-> scan.pos + Size[s],
                index |-> Pushed(scan.index, id, scan.pos),
                count |-> scan.count + 1]
  /\ UNCHANGED <<exists, log, written, mode, index, recordCount,
                 currentOffset, sealed, history>>

(* ... which may be on fields that look like a header, of any length ...   *)
RecoverFields ==
  /\ mode = "scanning" /\ FieldsAt(File, scan.pos)
  /\ \E n \in 1 .. MaxRecord, id \in {NoId, Stray} :
       /\ scan.pos + n <= Len(File)
       /\ scan' = [pos   |-> scan.pos + n,
                   index |-> Pushed(scan.index, id, scan.pos),
                   count |-> scan.count + 1]
  /\ UNCHANGED <<exists, log, written, mode, index, recordCount,
                 currentOffset, sealed, history>>

(* Mutants of RecoverEnd: the offset is that of the last good record ...   *)
RecoverEndScanPos ==
  /\ mode = "scanning" /\ ~RecordAt(File, scan.pos)
  /\ index' = scan.index /\ recordCount' = scan.count
  /\ currentOffset' = scan.pos
  /\ scan' = NoScan /\ mode' = "ready"
  /\ UNCHANGED <<exists, log, written, sealed, history>>

(* ... or is relative to the end of the header ...                         *)
RecoverEndDataOnly ==
  /\ mode = "scanning" /\ ~RecordAt(File, scan.pos)
  /\ index' = scan.index /\ recordCount' = scan.count
  /\ currentOffset' = Len(File) - HeaderLen
  /\ scan' = NoScan /\ mode' = "ready"
  /\ UNCHANGED <<exists, log, written, sealed, history>>

(* ... or a tail that is not a record voids the scan.                      *)
RecoverEndAllOrNothing ==
  /\ mode = "scanning" /\ ~RecordAt(File, scan.pos)
  /\ index' = IF scan.pos = Len(File) THEN scan.index ELSE << >>
  /\ recordCount' = scan.count
  /\ currentOffset' = Len(File)
  /\ scan' = NoScan /\ mode' = "ready"
  /\ UNCHANGED <<exists, log, written, sealed, history>>

(* ... and its break: the scan's results replace the handle's, and the     *)
(* offset becomes the length of the file, whatever follows the last record.*)
RecoverEnd ==
  /\ mode = "scanning" /\ ~RecordAt(File, scan.pos)
  /\ index' = scan.index /\ recordCount' = scan.count
  /\ currentOffset' = Len(File)
  /\ scan' = NoScan /\ mode' = "ready"
  /\ UNCHANGED <<exists, log, written, sealed, history>>

(* The entries seal() keeps of f: complete records, but for the opaque     *)
(* ones, and of the others those whose bytes happen to decode.             *)
Decoded(f, others) ==
  {index[i] : i \in {j \in DOMAIN index : Intact(f, index[j]) /\ index[j].span \notin Opaque}
                     \cup others}
Torn == {j \in DOMAIN index : ~Intact(log, index[j])}

(* Mutant of Seal: the records are read before the BufWriter is flushed.   *)
SealUnflushed ==
  /\ mode = "ready"
  /\ written' = Len(log) /\ safe' = Len(laid)
  /\ \E others \in SUBSET Torn :
       sealed' = [entries |-> Decoded(File, others), records |-> recordCount]
  /\ UNCHANGED <<exists, log, mode, index, recordCount, currentOffset, scan,
                 laid, tear, crashes>>

(* seal(): flush, re-read every indexed record, keep those that decode,    *)
(* report record_count.  The log stays in place and the index is kept.     *)
Seal ==
  /\ mode = "ready"
  /\ written' = Len(log) /\ safe' = Len(laid)
  /\ \E others \in SUBSET Torn :
       sealed' = [entries |-> Decoded(log, others), records |-> recordCount]
  /\ UNCHANGED <<exists, log, mode, index, recordCount, currentOffset, scan,
                 laid, tear, crashes>>

(* The handle is gone, and its fields with it; the next open() starts from *)
(* these.                                                                  *)
NoHandle ==
  mode' = "down" /\ index' = << >> /\ recordCount' = 0 /\ currentOffset' = 0

(* Dropping the handle flushes the BufWriter.                              *)
Close ==
  /\ mode \in {"ready", "failed"} /\ NoHandle
  /\ written' = Len(log) /\ safe' = Len(laid)
  /\ UNCHANGED <<exists, log, scan, sealed, laid, tear, crashes>>
----------------------------------------------------------------------------
(* The process dies and a restart finds the first k cells of `cells`, of   *)
(* which the first n records of `recs` are complete; the first cut that is *)
(* not at the end of a record is remembered.                               *)
CutTo(cells, recs, k, n) ==
  /\ \A i \in DOMAIN recs : End(recs[i]) <= k <=> i <= n
  /\ log' = SubSeq(cells, 1, k) /\ written' = k
  /\ laid' = SubSeq(recs, 1, n) /\ safe' = n
  /\ tear' = IF tear = NoTear /\ k # Edge(recs, n) THEN Edge(recs, n) ELSE tear

Die ==
  /\ crashes < MaxCrashes /\ crashes' = crashes + 1
  /\ NoHandle /\ scan' = NoScan
  /\ UNCHANGED <<exists, sealed>>

(* Between two write calls: the BufWriter's cells are lost.  (A kill right *)
(* after the BufWriter spilled is a Flush followed by this.)               *)
CrashBetween ==
  /\ "between" \in CrashKinds /\ mode \notin {"down", "creating"}
  /\ Die /\ CutTo(log, laid, written, safe)

(* During a write call: of the cells on their way, those of the BufWriter  *)
(* and perhaps of one record being appended, a prefix reaches the file.    *)
CrashTorn ==
  /\ "torn" \in CrashKinds /\ mode = "ready" /\ Die
  /\ \/ \E k \in written .. Len(log), n \in safe .. Len(laid) : CutTo(log, laid, k, n)
     \/ \E s \in Spans :
          LET cells == log \o RecordCells(s)
              recs  == Append(laid, [span |-> s, offset |-> Len(log)])
          IN /\ Size[s] >= BufCap /\ Len(cells) <= MaxLog
             /\ \E k \in Len(log) + 1 .. Len(cells), n \in Len(laid) .. Len(recs) :
                  CutTo(cells, recs, k, n)

(* Between the creation of the file and the flush of its header.           *)
CrashCreating ==
  /\ "creating" \in CrashKinds /\ mode = "creating" /\ Die
  /\ \E k \in 0 .. HeaderLen - 1 :
       /\ k = 0 \/ "torn" \in CrashKinds
       /\ log' = SubSeq(HeaderCells, 1, k) /\ written' = k
  /\ laid' = << >> /\ safe' = 0 /\ tear' = 0
----------------------------------------------------------------------------
Next ==
  \/ OpenNew \/ WriteHeader \/ OpenExisting
  \/ \E s \in Spans : AppendSpan(s)
  \/ Flush
  \/ RecoverBegin \/ RecoverFails \/ RecoverRecord \/ RecoverFields \/ RecoverEnd
  \/ Seal \/ Close
  \/ CrashBetween \/ CrashTorn \/ CrashCreating

(* recover() is one synchronous call: unless the process dies it runs on.  *)
Fairness == WF_vars(RecoverBegin) /\ WF_vars(RecoverRecord) /\ WF_vars(RecoverEnd)

SafetySpec == Init /\ [][Next]_vars
Spec == SafetySpec /\ Fairness
----------------------------------------------------------------------------
TypeOK ==
  /\ exists \in BOOLEAN
  /\ log \in Seq(Cell)
  /\ written \in 0 .. Len(log)
  /\ mode \in Modes
  /\ index \in Seq(Listed) /\ recordCount \in Nat /\ currentOffset \in Nat
  /\ scan \in [pos : Nat, index : Seq(Listed), count : Nat]
  /\ sealed \in [entries : SUBSET Listed, records : Nat]
  /\ laid \in Seq(Entry) /\ safe \in 0 .. Len(laid)
  /\ tear \in Nat \cup {NoTear} /\ crashes \in Nat

(* append() computes a record's offset from current_offset without asking  *)
(* the file: in a handle that has been synchronised the two must agree,    *)
(* crashes and cut writes included.                                        *)
OffsetInSync == mode = "ready" => currentOffset = Len(log)

(* Cut writes leave bytes behind which recover() resumes, and it may take  *)
(* what it finds there for a record with somebody's identity.  Even so no  *)
(* look-up is led astray among complete records: every entry of the index  *)
(* is a complete record under its own identity, or lies behind the first   *)
(* cut write where no complete record begins; and no record is listed      *)
(* twice, although offsets of append() and recover() meet in one index.    *)
AtRecord(e) == \E i \in DOMAIN laid : e = laid[i]
BehindTear(e) ==
  /\ tear # NoTear /\ e.offset >= tear
  /\ \A i \in DOMAIN laid : laid[i].offset # e.offset
Points(idx) ==
  /\ \A i \in DOMAIN idx : AtRecord(idx[i]) \/ BehindTear(idx[i])
  /\ \A i, j \in DOMAIN idx : i < j => idx[i].offset < idx[j].offset
IndexPointsAtRecords ==
  /\ mode = "ready" => Points(index)
  /\ mode = "scanning" => Points(scan.index)

(* As long as no write was cut and no span was too large for recover(),    *)
(* the index of a synchronised handle is exactly the records that are in   *)
(* the log, in order, with the right count: no span is lost or invented.   *)
Clean == tear = NoTear /\ \A i \in DOMAIN laid : Size[laid[i].span] <= MaxRecord
IndexIsLog == mode = "ready" /\ Clean => index = laid /\ recordCount = Len(laid)

(* Cut writes and records above MAX_RECORD_BYTES never reach back: the     *)
(* records laid down before the first of either are the beginning of every *)
(* later index.                                                            *)
Reachable(i) ==
  /\ tear = NoTear \/ laid[i].offset < tear
  /\ \A j \in 1 .. i : Size[laid[j].span] <= MaxRecord
SurvivorsIndexed ==
  mode = "ready" =>
    \A i \in DOMAIN laid : Reachable(i) => i <= Len(index) /\ index[i] = laid[i]

(* A segment holds what the log held and it is safe: under the same        *)
(* conditions the entries of the last segment are those of the first       *)
(* `records` records of the log that can be decoded, all in the file after *)
(* any number of later crashes; the report counts the others too.          *)
FirstRecords(n) == {laid[i] : i \in {j \in 1 .. n : laid[j].span \notin Opaque}}
SealedIsDurable ==
  Clean => sealed.records <= safe /\ sealed.entries = FirstRecords(sealed.records)

(* recover() ends: no file makes its loop turn for ever.                   *)
RecoverTerminates == mode = "scanning" ~> mode # "scanning"
----------------------------------------------------------------------------
(* The inductive invariant behind these properties.                        *)
Born == exists /\ mode # "creating"

(* Without a synchronised handle nothing is buffered.                      *)
Drained ==
  /\ mode # "ready" => written = Len(log)
  /\ mode \in {"down", "creating", "unsynced"} =>
       index = << >> /\ recordCount = 0 /\ currentOffset = 0
  /\ mode # "scanning" => scan = NoScan
  /\ ~Born => log = << >> /\ laid = << >> /\ tear = NoTear
  /\ ~exists => mode = "down"

(* Records of a log: complete, apart, and up to a tear one right after the *)
(* other.                                                                  *)
Records(cells, recs, t) ==
  /\ \A i \in DOMAIN recs : Intact(cells, recs[i])
  /\ \A i, j \in DOMAIN recs : i < j => End(recs[i]) <= recs[j].offset
  /\ \A i \in DOMAIN recs :
       t = NoTear \/ recs[i].offset < t => recs[i].offset = Edge(recs, i - 1)

Layout ==
  /\ Records(log, laid, tear)
  /\ Born /\ tear = NoTear => Len(log) = Edge(laid, Len(laid)) /\ written >= HeaderLen
  /\ tear <= written

(* safe counts the records that are in the file.                           *)
SafeIsWritten == \A i \in DOMAIN laid : End(laid[i]) <= written <=> i <= safe

(* The first cut write began at the end of a record, or of the header.     *)
TearAtEdge == tear \in {NoTear, 0} \/ \E n \in 0 .. Len(laid) : tear = Edge(laid, n)

(* Until it reaches the first cut write recover() goes from record to      *)
(* record, and its entries lie before its position.                        *)
ScanOnRecords ==
  mode = "scanning" =>
    /\ tear = NoTear \/ scan.pos < tear =>
         scan.count <= Len(laid) /\ scan.pos = Edge(laid, scan.count)
    /\ \A i \in DOMAIN scan.index : scan.index[i].offset < scan.pos
    /\ scan.pos <= Len(log) \/ scan.index = << >>
IndexInLog ==
  mode = "ready" => \A i \in DOMAIN index : index[i].offset < Len(log)

(* recover()'s position and index while it scans.                          *)
ScanFollowsLaid ==
  LET m == Len(scan.index) IN
  mode = "scanning" =>
    /\ \A i \in DOMAIN laid : Reachable(i) /\ i <= m => scan.index[i] = laid[i]
    /\ \A i \in DOMAIN laid : Reachable(i) /\ i > m => scan.pos = Edge(laid, m)
    /\ Clean => m <= Len(laid) /\ scan.pos = Edge(laid, m) /\ scan.count = m

SealedInFile ==
  tear = NoTear /\ (\A i \in 1 .. safe : Size[laid[i].span] <= MaxRecord) =>
    sealed.records <= safe /\ sealed.entries = FirstRecords(sealed.records)

IInv ==
  /\ TypeOK /\ Drained /\ Layout /\ SafeIsWritten /\ ScanFollowsLaid /\ SealedInFile
  /\ TearAtEdge /\ ScanOnRecords /\ IndexInLog
  /\ OffsetInSync /\ IndexPointsAtRecords /\ IndexIsLog /\ SurvivorsIndexed
----------------------------------------------------------------------------
(* The log a caller sees: spans in order, those in the file and those that *)
(* a crash may still take.                                                 *)
SpansOf(entries) == [i \in DOMAIN entries |-> entries[i].span]

Promise == INSTANCE SpanLog WITH
  Closed  <- <<WalHeader>>,
  stored  <- SpansOf(SubSeq(laid, 1, safe)),
  pending <- SpansOf(SubSeq(laid, safe + 1, Len(laid))),
  view    <- IF mode = "ready" THEN SpansOf(index) ELSE <<WalHeader>>

(* With no cut write the log keeps the promise of SpanLog: every step of   *)
(* the code, each turn of recover()'s loop included, is a step of that log *)
(* or leaves it unchanged.                                                 *)
KeepsPromise == Promise!Spec
============================================================================
