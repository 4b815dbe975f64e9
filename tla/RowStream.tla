------------------------------ MODULE RowStream -------------------------------
(***************************************************************************)
(* A row stream file: one thread writes header, records and footer, as the *)
(* producers of bench/harness/stream_d do with NxsWriter; another polls    *)
(* the growing file and scans it, as measure_nxs_throughput does with      *)
(* StreamReader.  The file system is a sequence of words that only grows,  *)
(* and a write shows word by word.                                         *)
(***************************************************************************)
EXTENDS RowWriter

CONSTANTS
    Plans,        \* the calls that may make up a record, between begin_object and end_object
    Sizes,        \* Sizes[s]: kind and size of the values of slot s, and what their words spell
    Records,      \* records the producer writes
    SchemaText,   \* words of the schema up to its last key
    SchemaWords   \* words of the schema with its padding

\* Objects open after the first i calls of a record: its own and those nested in it.
Open(plan, i) ==
    1 + Cardinality({j \in 1 .. i : plan[j][1] = "begin"})
      - Cardinality({j \in 1 .. i : plan[j][1] = "end"})

ASSUME RowStreamAssumption ==
    /\ Sizes \in [Slots -> {"scalar", "text", "list"} \X Nat \X Seq(Nat)]
    /\ \A s \in Slots : Len(Sizes[s][3]) = WordsOf([kind |-> Sizes[s][1], size |-> Sizes[s][2]])
    /\ \A plan \in Plans :
          /\ plan \in Seq({<<"begin">>, <<"end">>} \cup {"field"} \X Slots)
          /\ \A i \in DOMAIN plan : Open(plan, i) >= 1
          /\ Open(plan, Len(plan)) = 1
    /\ Records \in Nat \ {0} /\ SchemaText \in Nat \ {0}
    /\ SchemaWords \in Nat /\ SchemaText <= SchemaWords

\* No record writes a slot again in the object it has been written in: between two writes
\* of one slot at one depth the object of the first is ended.
WritesOnce ==
    \A plan \in Plans : \A j, l \in DOMAIN plan :
        /\ j < l /\ plan[j][1] = "field" /\ plan[j] = plan[l] /\ Open(plan, j) = Open(plan, l)
        => \E m \in j .. l : Open(plan, m) < Open(plan, j)

VARIABLES
    w,        \* the NxsWriter
    flushed,  \* words of its buffer that are in the file
    file,     \* the file
    todo,     \* what the write in progress has still to put there
    pc,       \* the producer: "header", "ready", "flush", "seal", "end"
    ds, wd,   \* the atomics data_start and writer_done
    view,     \* the reader's buffer between poll and scan: so many words of the file
    scan,     \* scan_off
    got,      \* the offsets of the objects the reader has counted
    rpc,      \* the reader: "poll", "scan", "check", "return"
    laid,     \* history: <<start, end>> in the file of every record that was ended
    written   \* history: every object ended, its place and its fields

prodVars == <<w, flushed, file, todo, pc, wd, laid, written>>
readVars == <<view, scan, got, rpc>>
vars == <<w, flushed, file, todo, pc, ds, wd, view, scan, got, rpc, laid, written>>

Preamble == 8
DataStart == Preamble + SchemaWords

HeaderBytes ==
    [i \in 1 .. Preamble |-> <<"preamble", i>>]
      \o [i \in 1 .. SchemaWords |-> IF i <= SchemaText THEN <<"schema", i>> ELSE <<"pad", 0>>]

\* Mutant of Footer: offsets within the data sector, as record_offsets() returns them.
FooterRelative(offsets, tail) ==
    << <<"count", Len(offsets)>> >>
      \o FlattenSeq([i \in DOMAIN offsets |->
                       << <<"entry", offsets[i] - DataStart>>, <<"pad", 0>> >>])
      \o << <<"ptr", tail>>, <<"pad", 0>>, <<"foot", 0>> >>

\* build_tail_index_records: count, entries, the tail's own offset, magic.
Footer(offsets, tail) ==
    << <<"count", Len(offsets)>> >>
      \o FlattenSeq([i \in DOMAIN offsets |-> << <<"entry", offsets[i]>>, <<"pad", 0>> >>])
      \o << <<"ptr", tail>>, <<"pad", 0>>, <<"foot", 0>> >>

\* -------------------------------------------------------------------------
\* StreamReader::open on a buffer

Opens(data) == Len(data) >= Preamble + SchemaText

MAGIC_FOOTER == 559110222      \* 0x2153584E

\* The number a word spells, where the test below can come to it.  What the bytes of a head
\* spell is taken for a place in the file.
Number(word) ==
    CASE word[1] = "ptr"  -> 4 * word[2]
      [] word[1] = "val"  -> word[2].says[1]
      [] word[1] = "data" -> word[2]
      [] word[1] = "pad"  -> 0
      [] word[1] = "head" -> 1
      [] OTHER -> -1

\* The footer's magic, or a word of a value that spells it.  Lengths and offsets do not: they
\* are multiples of four.
SpellsFooter(word) ==
    \/ word[1] = "foot"
    \/ word[1] \in {"val", "data"} /\ Number(word) = MAGIC_FOOTER

\* Only the last four bytes and the eight before them are looked at, whatever they are part of.
Sealed(data) ==
    LET n  == Len(data)
        tp == Number(data[n - 2])
    IN  /\ n >= 4 /\ SpellsFooter(data[n])
        /\ Number(data[n - 1]) = 0
        /\ tp > 0 /\ tp < 4 * n /\ 4 * n - tp >= 16

\* The buffer ends within a value.
EndsInValue(data) == data # <<>> /\ Last(data)[1] \in {"val", "data"}

\* -------------------------------------------------------------------------
\* The producer

Init ==
    /\ w = NewWriter /\ flushed = 0 /\ file = <<>> /\ todo = HeaderBytes /\ pc = "header"
    /\ ds = 0 /\ wd = FALSE
    /\ view = 0 /\ scan = 0 /\ got = <<>> /\ rpc = "poll"
    /\ laid = <<>> /\ written = {}

\* One word more of what is to be written becomes visible.
WritePart ==
    /\ todo # <<>>
    /\ file' = Append(file, Head(todo)) /\ todo' = Tail(todo)
    /\ UNCHANGED <<w, flushed, pc, ds, wd, laid, written>> /\ UNCHANGED readVars

HeaderWritten ==
    /\ pc = "header" /\ todo = <<>>
    /\ ds' = DataStart /\ pc' = "ready"
    /\ UNCHANGED <<w, flushed, file, todo, wd, laid, written>> /\ UNCHANGED readVars

Value(s, depth) ==
    [kind |-> Sizes[s][1], size |-> Sizes[s][2], says |-> Sizes[s][3],
     id |-> <<Len(laid), depth, s>>]

\* One call on the writer, and what end_object leaves for the history.
Call(st, c) ==
    LET f == Last(st.w.frames) IN
    CASE c[1] = "begin" -> [st EXCEPT !.w = BeginObject(st.w)]
      [] c[1] = "field" ->
            [st EXCEPT !.w = WriteField(st.w, c[2], Value(c[2], Len(st.w.frames)))]
      [] c[1] = "end"   ->
            [w |-> EndObject(st.w),
             written |-> st.written \cup
                {[at |-> DataStart + f.start,
                  fields |-> {<<f.places[i][1], DataStart + f.places[i][2],
                                st.w.buf[f.places[i][2] + 1][2]>> : i \in DOMAIN f.places}]}]

\* The writer after these calls.
AfterCalls(start, calls) ==
    LET after[i \in 0 .. Len(calls)] == IF i = 0 THEN start ELSE Call(after[i - 1], calls[i])
    IN  after[Len(calls)]

\* write_nxs_record: the record is built in the writer's buffer, by any of the plans, and
\* what the buffer has grown by since the last call is to be written.
PutRecord ==
    /\ pc = "ready"
    /\ \E plan \in Plans :
          LET st == AfterCalls([w |-> w, written |-> written],
                               << <<"begin">> >> \o plan \o << <<"end">> >>)
          IN  /\ w' = st.w /\ written' = st.written
              /\ todo' = SubSeq(st.w.buf, flushed + 1, Len(st.w.buf))
    /\ laid' = Append(laid, <<Len(file), Len(file) + Len(todo')>>)
    /\ pc' = "flush"
    /\ UNCHANGED <<flushed, file, ds, wd>> /\ UNCHANGED readVars

\* write_nxs_record returns; after the last record the producer says so.
Flushed ==
    /\ pc = "flush" /\ todo = <<>>
    /\ flushed' = Len(w.buf)
    /\ wd' = (Len(laid) = Records)
    /\ pc' = IF wd' THEN "seal" ELSE "ready"
    /\ UNCHANGED <<w, file, todo, ds, laid, written>> /\ UNCHANGED readVars

\* write_stream_file_footer, with the positions write_nxs_record returned.
Seal ==
    /\ pc = "seal"
    /\ todo' = Footer([i \in DOMAIN laid |-> laid[i][1]], Len(file))
    /\ pc' = "end"
    /\ UNCHANGED <<w, flushed, file, ds, wd, laid, written>> /\ UNCHANGED readVars

\* -------------------------------------------------------------------------
\* The reader

\* IncrementalReader::poll takes what the file has grown by.
Poll ==
    /\ rpc = "poll"
    /\ view' = Len(file) /\ rpc' = "scan"
    /\ UNCHANGED <<ds, scan, got>> /\ UNCHANGED prodVars

\* The data sector's start is taken from the producer or from the header; then the
\* scan goes on from where it stopped.
Scan ==
    /\ rpc = "scan"
    /\ LET data == SubSeq(file, 1, view)
           from == IF ds = 0 /\ Opens(data) THEN DataStart
                   ELSE IF ds # 0 /\ scan = 0 THEN ds ELSE scan
           more == PollAll(data, from)
       IN  /\ ds' = IF ds = 0 /\ Opens(data) THEN DataStart ELSE ds
           /\ got' = got \o more
           /\ scan' = IF more = <<>> THEN from ELSE CompleteEnd(data, Last(more))
    /\ rpc' = "check" /\ view' = 0
    /\ UNCHANGED prodVars

\* Mutant of Check: one record more is waited for than is written.
CheckOffByOne ==
    /\ rpc = "check"
    /\ rpc' = IF Len(got) > Records /\ wd THEN "return" ELSE "poll"
    /\ UNCHANGED <<ds, view, scan, got>> /\ UNCHANGED prodVars

Check ==
    /\ rpc = "check"
    /\ rpc' = IF Len(got) >= Records /\ wd THEN "return" ELSE "poll"
    /\ UNCHANGED <<ds, view, scan, got>> /\ UNCHANGED prodVars

Produce == WritePart \/ HeaderWritten \/ PutRecord \/ Flushed \/ Seal
Read == Poll \/ Scan \/ Check
Next == Produce \/ Read

SafetySpec == Init /\ [][Next]_vars

\* The reader's thread is scheduled.  The producer may stop anywhere: it can be killed.
Spec == SafetySpec /\ WF_vars(Read)

\* -------------------------------------------------------------------------
\* Properties

\* Every variable has its type, and the file is header, data sector and footer.
TypeOK ==
    /\ w.frames = <<>> /\ flushed \in 0 .. Len(w.buf)
    /\ pc \in {"header", "ready", "flush", "seal", "end"}
    /\ rpc \in {"poll", "scan", "check", "return"}
    /\ ds \in {0, DataStart} /\ wd \in BOOLEAN
    /\ view \in 0 .. Len(file) /\ scan \in 0 .. Len(file) + DataStart

\* An object that a reader takes as complete holds what was written: each slot that was
\* written resolves to its value unless its distance from the object's start is beyond the
\* width of an offset, every other slot to nothing, and decode_object agrees with
\* resolve_slot; whatever the order of the writes and the objects nested between them.
FieldsReadBack ==
    \A o \in written :
        CompleteEnd(file, o.at) # Nowhere =>
            /\ \A f \in o.fields : f[2] - o.at < OffMod =>
                   /\ ResolveSlot(file, o.at, f[1]) = f[2]
                   /\ file[f[2] + 1] = <<"val", f[3]>>
            /\ \A s \in Slots : (\A f \in o.fields : f[1] # s) =>
                   ResolveSlot(file, o.at, s) = Nowhere
            /\ DecodeObject(file, o.at) =
                   {<<s, ResolveSlot(file, o.at, s)>> :
                       s \in {t \in Slots : ResolveSlot(file, o.at, t) # Nowhere}}

\* The whole file opens as sealed.  A cut that does either ends within a value, whose bytes
\* and those before them are then like a footer's, or has every record: polling returns
\* exactly those and the tail-index points at each.  No cut of the header, between values or
\* of the footer passes for a sealed file.
SealedIsComplete ==
    /\ pc = "end" /\ todo = <<>> => Sealed(file)
    /\ Sealed(file) /\ ~EndsInValue(file) =>
        LET n     == Len(file)
            tail  == file[n - 2][2]
            count == file[tail + 1][2]
        IN  /\ Opens(file) /\ count = Records
            /\ PollAll(file, DataStart) = [i \in 1 .. count |-> file[tail + 2 * i][2]]
            /\ PollAll(file, DataStart) = [i \in DOMAIN laid |-> laid[i][1]]

\* What is complete in the file, by the producer's account of where it put each record.
Complete == SubSeq(laid, 1, Cardinality({i \in DOMAIN laid : laid[i][2] <= Len(file)}))

CompleteAt == [i \in DOMAIN Complete |-> Complete[i][1]]

Items == INSTANCE ItemStream WITH
    made   <- CompleteAt,
    seen   <- got,
    closed <- wd

\* The polling reader is given whole records, all of them, in order and once.
ReaderFollows == Items!Safe

\* Once the producer is done the reader has seen every record, and returns.
ReaderFinishes == wd ~> (rpc = "return" /\ Len(got) = Records)
===============================================================================
