------------------------------ MODULE TraceDir ------------------------------
(***************************************************************************)
(* A trace directory and the nxs-trace commands that share it              *)
(* (rust/src/bin/nxs_trace.rs over wal.rs and segment_reader.rs): `write`  *)
(* appends to live.nxsw and seals it every SealEvery records, `seal` seals *)
(* it at once, `query` reads every segment and the live log.  Each action  *)
(* is a system call or a run of code between two of them.                  *)
(*                                                                         *)
(* Here the log is SpanLog's: one cell is the header, every other cell is  *)
(* a span that decodes, and an offset is a number of cells; SpanWal says   *)
(* what happens inside a record.                                           *)
(***************************************************************************)
EXTENDS Integers, Sequences, FiniteSets

CONSTANTS
  Spans,       (* spans on the writer's standard input, each once          *)
  SealEvery,   (* --seal-every; 0 never seals                              *)
  BufSpans,    (* spans the BufWriter holds                                *)
  Commands,    (* the commands in play                                     *)
  Overlap,     (* may one command start while another runs                 *)
  IoErrors,    (* may fs::write of a segment fail                          *)
  SameMs,      (* may two seals fall in one millisecond                    *)
  Header, None,
  MaxTime,     (* bound: milliseconds that may name a segment              *)
  MaxCrashes   (* bound: crashes of commands                               *)

ASSUME TraceDirAssumption ==
  /\ SealEvery \in Nat /\ BufSpans \in Nat \ {0}
  /\ Commands \subseteq {"write", "seal", "query"}
  /\ {Overlap, IoErrors, SameMs} \subseteq BOOLEAN
  /\ Header \notin Spans /\ None \notin Nat \cup Spans
  /\ MaxTime \in Nat /\ MaxCrashes \in Nat

Sealers == Commands \ {"query"}

VARIABLES
  files,     (* files ever created as live.nxsw: sequences of cells        *)
  live,      (* which of them the directory still names, or None           *)
  segs,      (* segments by the millisecond in their name                  *)
  lastMs,    (* the clock when a segment was last named                    *)
  pc,        (* per command: where it is                                   *)
  wal,       (* per command: its SpanWal handle                            *)
  job,       (* per sealing command: the segment do_seal is writing        *)
  query,     (* the query: segments still to load, index, answer           *)
  durable,   (* history: spans that have reached a file                    *)
  accepted,  (* history: spans append() took                               *)
  crashes,   (* history: crashes so far                                    *)
  warned     (* history: has a seal printed "warn: seal failed"            *)

vars == <<files, live, segs, lastMs, pc, wal, job, query, durable, accepted, crashes, warned>>
fs == <<files, live, segs, lastMs>>
----------------------------------------------------------------------------
Partial == {Header}     \* a segment whose fs::write has not finished: no spans to decode
NoWal == [file |-> None, buf |-> << >>, index |-> << >>, offset |-> 0, count |-> 0,
          fresh |-> FALSE, then |-> "recover"]   \* SpanWal::open's file_exists; who goes on
NoJob == [ms |-> None, spans |-> {}, ok |-> FALSE]
NoQuery == [todo |-> {}, listed |-> None, index |-> << >>,
            answer |-> [s \in Spans |-> 0], owed |-> {}]

SpansIn(cells) == {cells[i] : i \in DOMAIN cells} \ {Header}
(* recover() of a file: it must begin with a header; the records are read  *)
(* up to the end, or to a second header, which is no record.               *)
Readable(cells) == Len(cells) > 0 /\ cells[1] = Header
StopsAt(cells, n) ==
  /\ \A i \in 2 .. n : cells[i] # Header
  /\ n < Len(cells) => cells[n + 1] = Header
IndexOfAllButLast(cells, n) ==  \* MUTANT: the scan stops one record early
  [i \in 1 .. n - 2 |-> [span |-> cells[i + 1], offset |-> i]]
IndexOf(cells, n) == [i \in 1 .. n - 1 |-> [span |-> cells[i + 1], offset |-> i]]
Reached(cells) ==
  {cells[i] : i \in {j \in 2 .. Len(cells) :
                       Readable(cells) /\ \A k \in 2 .. j : cells[k] # Header}}
CellAt(cells, off) == IF off < Len(cells) THEN cells[off + 1] ELSE None

(* The spans of the segments, and of the log.                              *)
Sealed == (UNION {segs[t] : t \in DOMAIN segs}) \ Partial
InLive == IF live = None THEN {} ELSE SpansIn(files[live])

(* SpanWal::recover opens the path again: it reads whatever file has that  *)
(* name now.                                                               *)
Recovered(w, n) ==
  [w EXCEPT !.index = IndexOf(files[live], n), !.count = n - 1, !.offset = Len(files[live])]

(* SpanWal::append into the BufWriter, which spills when it is full.       *)
AppendedNoSpill(w, s) ==     \* MUTANT: what spilled stays in the buffer
  [w EXCEPT !.buf = Append(w.buf, s),
            !.index = Append(w.index, [span |-> s, offset |-> w.offset]),
            !.offset = w.offset + 1, !.count = w.count + 1]

Appended(w, s) ==
  [w EXCEPT !.buf = IF Len(w.buf) < BufSpans THEN Append(w.buf, s) ELSE <<s>>,
            !.index = Append(w.index, [span |-> s, offset |-> w.offset]),
            !.offset = w.offset + 1,
            !.count = w.count + 1]

FlushTo(w, cells) ==
  /\ files' = [files EXCEPT ![w.file] = @ \o cells]
  /\ durable' = durable \cup SpansIn(cells)

Goto(c, to) == pc' = [pc EXCEPT ![c] = to]
Start(c) ==
  /\ c \in Commands /\ pc[c] = "off"
  /\ Overlap \/ \A d \in Commands : pc[d] = "off"
Exit(c) == Goto(c, "off") /\ wal' = [wal EXCEPT ![c] = NoWal]

(* SpanWal::open, first step: path.exists(), believed from here on ...     *)
LogExists(c, then) ==
  /\ wal' = [wal EXCEPT ![c] = [NoWal EXCEPT !.fresh = (live = None), !.then = then]]
  /\ Goto(c, "open")

Logless == IF live = None THEN TRUE ELSE ~Readable(files[live])    \* recover() fails
----------------------------------------------------------------------------
Init ==
  /\ files = << >> /\ live = None /\ segs = << >> /\ lastMs = 0
  /\ pc = [c \in Commands |-> "off"]
  /\ wal = [c \in Commands |-> NoWal] /\ job = [c \in Sealers |-> NoJob]
  /\ query = NoQuery /\ durable = {} /\ accepted = {} /\ crashes = 0 /\ warned = FALSE

(* ... open(O_CREAT | O_APPEND) finds a file or makes one; the header is   *)
(* due if there was none before, and until recover() the offset is 0 ...   *)
OpenLog(c) ==
  /\ pc[c] = "open"
  /\ IF live = None
     THEN files' = Append(files, << >>) /\ live' = Len(files) + 1
     ELSE UNCHANGED <<files, live>>
  /\ wal' = [wal EXCEPT ![c].file = live']
  /\ Goto(c, IF wal[c].fresh THEN "header" ELSE wal[c].then)
  /\ UNCHANGED <<segs, lastMs, job, query, durable, accepted, crashes, warned>>

(* ... and the header goes behind whatever others have written since.      *)
WriteHeader(c) ==
  /\ pc[c] = "header"
  /\ files' = [files EXCEPT ![wal[c].file] = @ \o <<Header>>]
  /\ wal' = [wal EXCEPT ![c].offset = 1]
  /\ Goto(c, wal[c].then)
  /\ UNCHANGED <<live, segs, lastMs, job, query, durable, accepted, crashes, warned>>

OpenStep(c) == OpenLog(c) \/ WriteHeader(c)

(* cmd_write: open the log ...                                             *)
WriteStart ==
  /\ Start("write") /\ LogExists("write", "recover")
  /\ UNCHANGED <<fs, job, query, durable, accepted, crashes, warned>>

(* ... recover what it holds, unless the path is gone again; a log that    *)
(* does not begin with a header ends the command ...                       *)
WriteRecover ==
  /\ pc["write"] = "recover"
  /\ \/ live = None /\ Goto("write", "run") /\ UNCHANGED wal
     \/ live # None /\ Logless /\ Exit("write")
     \/ /\ ~Logless /\ Goto("write", "run")
        /\ \E n \in 1 .. Len(files[live]) :
             StopsAt(files[live], n) /\ wal' = [wal EXCEPT !["write"] = Recovered(@, n)]
  /\ UNCHANGED <<fs, job, query, durable, accepted, crashes, warned>>

(* ... then one span per line, and a seal when the count is a multiple.    *)
WriteSpan(s) ==
  LET w == wal["write"] IN
  /\ pc["write"] = "run" /\ s \in Spans \ accepted /\ (SealEvery > 0 => lastMs < MaxTime)
  /\ wal' = [wal EXCEPT !["write"] = Appended(w, s)]
  /\ IF Len(w.buf) < BufSpans THEN UNCHANGED <<files, durable>> ELSE FlushTo(w, w.buf)
  /\ accepted' = accepted \cup {s}
  /\ Goto("write", IF SealEvery > 0 /\ (w.count + 1) % SealEvery = 0 THEN "seal" ELSE "run")
  /\ UNCHANGED <<live, segs, lastMs, job, query, crashes, warned>>

(* End of input: flush and exit.                                           *)
WriteEnd ==
  /\ pc["write"] = "run" /\ FlushTo(wal["write"], wal["write"].buf) /\ Exit("write")
  /\ UNCHANGED <<live, segs, lastMs, job, query, accepted, crashes, warned>>

(* cmd_seal: there must be a log; open and recover it.                     *)
SealStart ==
  /\ Start("seal") /\ live # None /\ lastMs < MaxTime /\ LogExists("seal", "recover")
  /\ UNCHANGED <<fs, job, query, durable, accepted, crashes, warned>>

SealRecover ==
  /\ pc["seal"] = "recover"
  /\ \/ Logless /\ Exit("seal")
     \/ /\ ~Logless /\ Goto("seal", "seal")
        /\ \E n \in 1 .. Len(files[live]) :
             StopsAt(files[live], n) /\ wal' = [wal EXCEPT !["seal"] = Recovered(@, n)]
  /\ UNCHANGED <<fs, job, query, durable, accepted, crashes, warned>>
----------------------------------------------------------------------------
(* do_seal: the segment's name is the clock; SpanWal::seal flushes, then   *)
(* re-reads every indexed span from the file at the path.  Where an offset *)
(* is not that span's, the bytes there either end the seal with an error   *)
(* or do not decode and are skipped.                                       *)
SealRead(c) ==
  LET w      == wal[c]
      flushed == [files EXCEPT ![w.file] = @ \o w.buf]
      entries == {w.index[i] : i \in DOMAIN w.index}
      found   == {e \in entries : live # None /\ CellAt(flushed[live], e.offset) = e.span}
  IN
  /\ c \in Sealers /\ pc[c] = "seal" /\ Goto(c, "write segment")
  /\ FlushTo(w, w.buf)
  /\ wal' = [wal EXCEPT ![c].buf = << >>]
  /\ \E ms \in lastMs .. MaxTime :
       /\ ms > 0 /\ (SameMs \/ ms > lastMs)
       /\ lastMs' = ms
       /\ \E ok \in BOOLEAN :
            /\ live = None => ~ok
            /\ found = entries /\ live # None => ok
            /\ job' = [job EXCEPT ![c] =
                 [ms |-> ms, spans |-> {e.span : e \in found}, ok |-> ok]]
  /\ UNCHANGED <<live, segs, query, accepted, crashes, warned>>

(* fs::write truncates or creates the segment ...                          *)
SegmentCreate(c) ==
  /\ c \in Sealers /\ pc[c] = "write segment" /\ job[c].ok
  /\ LET name == job[c].ms IN
       segs' = [t \in DOMAIN segs \cup {name} |-> IF t = name THEN Partial ELSE segs[t]]
  /\ Goto(c, "fill segment")
  /\ UNCHANGED <<files, live, lastMs, wal, job, query, durable, accepted, crashes, warned>>

(* ... and writes it; an error is reported and forgotten.                  *)
SealWarn(c) == warned' = TRUE /\ job' = [job EXCEPT ![c].ok = FALSE] /\ UNCHANGED segs

SegmentFill(c) ==
  /\ c \in Sealers /\ pc[c] = "fill segment"
  /\ \/ /\ segs' = [segs EXCEPT ![job[c].ms] = job[c].spans]
        /\ UNCHANGED <<job, warned>>
     \/ IoErrors /\ SealWarn(c)
  /\ Goto(c, "remove")
  /\ UNCHANGED <<files, live, lastMs, wal, query, durable, accepted, crashes>>

(* So is a log that does not read back, or a segment that does not open.   *)
SealFailed(c) ==
  /\ c \in Sealers /\ pc[c] = "write segment" /\ (job[c].ok => IoErrors)
  /\ SealWarn(c) /\ Goto(c, "remove")
  /\ UNCHANGED <<files, live, lastMs, wal, query, durable, accepted, crashes>>

(* do_seal's last line removes whatever has the log's name, sealed or not. *)
RemoveWalNever(c) ==        \* MUTANT: the log is left in place
  /\ c \in Sealers /\ pc[c] = "remove"
  /\ job' = [job EXCEPT ![c] = NoJob]
  /\ IF c = "write" THEN Goto(c, "reopen") /\ UNCHANGED wal ELSE Exit(c)
  /\ UNCHANGED <<fs, query, durable, accepted, crashes, warned>>

RemoveWalOfWriter(c) ==     \* MUTANT: only cmd_write rotates the log
  /\ c \in Sealers /\ pc[c] = "remove"
  /\ live' = IF c = "write" THEN None ELSE live
  /\ job' = [job EXCEPT ![c] = NoJob]
  /\ IF c = "write" THEN Goto(c, "reopen") /\ UNCHANGED wal ELSE Exit(c)
  /\ UNCHANGED <<files, segs, lastMs, query, durable, accepted, crashes, warned>>

RemoveWal(c) ==
  /\ c \in Sealers /\ pc[c] = "remove"
  /\ live' = None
  /\ job' = [job EXCEPT ![c] = NoJob]
  /\ IF c = "write" THEN Goto(c, "reopen") /\ UNCHANGED wal ELSE Exit(c)
  /\ UNCHANGED <<files, segs, lastMs, query, durable, accepted, crashes, warned>>

(* Back in cmd_write: "re-open a fresh WAL", without recover().            *)
WriteReopen ==
  /\ pc["write"] = "reopen" /\ LogExists("write", "run")
  /\ UNCHANGED <<fs, job, query, durable, accepted, crashes, warned>>
----------------------------------------------------------------------------
(* cmd_query: SegmentReader::open lists the directory ...                  *)
QueryStart ==
  /\ Start("query")
  /\ query' = [NoQuery EXCEPT !.todo = DOMAIN segs, !.listed = live,
                              !.owed = Sealed \cup IF live = None THEN {} ELSE Reached(files[live])]
  /\ Goto("query", "load")
  /\ UNCHANGED <<fs, wal, job, durable, accepted, crashes, warned>>

(* ... loads a segment; one that does not decode fails the whole command.  *)
QueryLoad(t) ==
  /\ pc["query"] = "load" /\ t \in query.todo
  /\ IF segs[t] = Partial
     THEN Goto("query", "failed") /\ UNCHANGED query
     ELSE /\ query' = [query EXCEPT !.todo = @ \ {t},
                         !.answer = [s \in Spans |-> @[s] + IF s \in segs[t] THEN 1 ELSE 0]]
          /\ UNCHANGED pc
  /\ UNCHANGED <<fs, wal, job, durable, accepted, crashes, warned>>

(* If the listing had a log, SpanWal::open opens it, or creates it ...     *)
QueryOpenWal ==
  /\ pc["query"] = "load" /\ query.todo = {}
  /\ IF query.listed # None
     THEN LogExists("query", "recover")
     ELSE Goto("query", "answered") /\ UNCHANGED wal
  /\ UNCHANGED <<fs, job, query, durable, accepted, crashes, warned>>

(* ... recover() indexes it ...                                            *)
QueryRecover ==
  /\ pc["query"] = "recover"
  /\ \/ Logless /\ Goto("query", "failed") /\ UNCHANGED query
     \/ /\ ~Logless /\ Goto("query", "read")
        /\ \E n \in 1 .. Len(files[live]) :
             /\ StopsAt(files[live], n)
             /\ query' = [query EXCEPT !.index = IndexOf(files[live], n)]
  /\ UNCHANGED <<fs, wal, job, durable, accepted, crashes, warned>>

(* ... and fs::read takes the bytes the index is used on.                  *)
QueryRead ==
  LET here(s) == \E i \in DOMAIN query.index :
                   /\ query.index[i].span = s
                   /\ CellAt(files[live], query.index[i].offset) = s
  IN
  /\ pc["query"] = "read"
  /\ IF live = None
     THEN Goto("query", "failed") /\ UNCHANGED query
     ELSE /\ query' = [query EXCEPT !.answer =
                         [s \in Spans |-> @[s] + IF here(s) THEN 1 ELSE 0]]
          /\ Goto("query", "answered")
  /\ UNCHANGED <<fs, wal, job, durable, accepted, crashes, warned>>

QueryEnd ==
  /\ pc["query"] \in {"answered", "failed"}
  /\ query' = NoQuery /\ Exit("query")
  /\ UNCHANGED <<fs, job, durable, accepted, crashes, warned>>

(* A command is killed: its BufWriter is lost, the directory is not.       *)
Killed(c) == crashes < MaxCrashes /\ crashes' = crashes + 1 /\ pc[c] # "off" /\ Exit(c)

Crash(c) ==
  /\ c \in Sealers /\ Killed(c)
  /\ job' = [job EXCEPT ![c] = NoJob]
  /\ UNCHANGED <<fs, query, durable, accepted, warned>>

QueryCrash ==
  /\ Killed("query") /\ query' = NoQuery
  /\ UNCHANGED <<fs, job, durable, accepted, warned>>
----------------------------------------------------------------------------
WriteStep ==
  "write" \in Commands /\ (\/ WriteStart \/ OpenStep("write") \/ WriteRecover \/ WriteEnd
                           \/ WriteReopen \/ \E s \in Spans : WriteSpan(s))
SealStep(c) ==
  SealRead(c) \/ SegmentCreate(c) \/ SegmentFill(c) \/ SealFailed(c) \/ RemoveWal(c)
QueryStep ==
  "query" \in Commands /\ (\/ QueryStart \/ QueryOpenWal \/ OpenStep("query") \/ QueryRecover
                           \/ QueryRead \/ QueryEnd \/ QueryCrash
                           \/ \E t \in query.todo : QueryLoad(t))

Next ==
  \/ WriteStep
  \/ "seal" \in Commands /\ (SealStart \/ OpenStep("seal") \/ SealRecover)
  \/ \E c \in Sealers : SealStep(c) \/ Crash(c)
  \/ QueryStep

Spec == Init /\ [][Next]_vars
----------------------------------------------------------------------------
TypeOK ==
  /\ files \in Seq(Seq(Spans \cup {Header})) /\ live \in DOMAIN files \cup {None}
  /\ DOMAIN segs \subseteq 1 .. MaxTime
  /\ \A t \in DOMAIN segs : segs[t] = Partial \/ segs[t] \subseteq Spans
  /\ lastMs \in 0 .. MaxTime
  /\ \A c \in Commands :
       /\ wal[c].file \in DOMAIN files \cup {None}
       /\ wal[c].offset \in Nat /\ Len(wal[c].buf) <= BufSpans
  /\ durable \subseteq accepted /\ accepted \subseteq Spans

(* No span that reached the disk is lost without a warning: sealing moves  *)
(* it from the log to a segment and the log goes only after that, kills    *)
(* included, or a seal said that it failed.                                *)
NoSpanLost == warned \/ durable \subseteq InLive \cup Sealed

(* Unless a command was killed, a durable span is in one place at a time,  *)
(* but for the moment between the end of a segment and the removal of the  *)
(* log.                                                                    *)
InOnePlace ==
  crashes = 0 /\ (\A c \in Sealers : pc[c] # "remove") =>
    /\ InLive \cap Sealed = {}
    /\ \A t, u \in DOMAIN segs : t # u => segs[t] \cap segs[u] \subseteq Partial

(* segment_reader.rs: "Return all spans belonging to a trace": an answer   *)
(* has every span of a segment, and of the log, that was in the directory  *)
(* when the query started ...                                              *)
AnswerComplete ==
  "query" \in Commands /\ pc["query"] = "answered" =>
    \A s \in query.owed : query.answer[s] >= 1

(* ... which it has if the log it listed is still there when it is done,   *)
(* whatever the writer appended and sealed meanwhile.  Of a log only what  *)
(* recover() reaches is meant: two commands that both find no log write a  *)
(* header each, and no answer has the spans behind the second (wal.rs:123).*)
AnswerCompleteIfLogKept == live = query.listed => AnswerComplete

(* No answer has a span twice, or one that was never written.              *)
AnswerExact ==
  crashes = 0 => \A s \in Spans : query.answer[s] <= IF s \in durable THEN 1 ELSE 0
============================================================================
