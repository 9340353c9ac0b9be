----------------------------- MODULE WalFormat -----------------------------
(***************************************************************************)
(* The bytes of a write-ahead log: batches encoded with varints            *)
(* (wal/batch.rs), framed into blocks as whole or fragmented records       *)
(* (wal/writer.rs, wal/format.rs), cut by a crash, and read back           *)
(* (wal/reader.rs, the loop over one file in wal/manager.rs).              *)
(*                                                                         *)
(* Scaled widths: a block has BLOCK_SIZE cells; each header field, the     *)
(* checksum included, is one cell; a varint cell carries one bit of the    *)
(* number and a continuation bit.  The checksum is injective: that no      *)
(* damaged record passes it is assumed.                                    *)
(***************************************************************************)
EXTENDS Integers, Sequences, SequencesExt, FiniteSets

CONSTANTS
    BLOCK_SIZE, HEADER_SIZE, RECYCLABLE_HEADER_SIZE,
    Recyclable,   \* does the log use headers with a log number?
    MaxBatches    \* bound: batches appended to the log

FormatAssumption ==
    /\ HEADER_SIZE = 3 /\ RECYCLABLE_HEADER_SIZE = 4
    /\ BLOCK_SIZE \in Nat /\ BLOCK_SIZE > RECYCLABLE_HEADER_SIZE
    /\ Recyclable \in BOOLEAN /\ MaxBatches \in Nat

VARIABLES
    log,           \* cells of the file
    block_offset,  \* of the writer
    appended,      \* batches append() returned for
    synced,        \* [len, batches] at the last fsync
    phase,         \* "write", "read" after the crash, "done"
    reader,        \* [file_offset, block_offset, expected]
    fragment,      \* [on, payload]: the record being assembled
    recovered,     \* batches recovered
    corrupt        \* did the reader or the decoder report corruption?

vars == <<log, block_offset, appended, synced, phase, reader, fragment, recovered, corrupt>>
writer == <<block_offset, appended, synced>>

LogNumber == 1
header_size == IF Recyclable THEN RECYCLABLE_HEADER_SIZE ELSE HEADER_SIZE

NoFragment == [on |-> FALSE, payload |-> <<>>]

----------------------------------------------------------------------------
(* WriteBatch                                                               *)

PutVarint(n) ==
    LET v[m \in 0..n] == IF m < 2 THEN <<m>> ELSE <<(m % 2) + 2>> \o v[m \div 2]
    IN v[n]

EncodeRecord(r) ==
    <<r.op>> \o PutVarint(Len(r.key)) \o r.key \o PutVarint(Len(r.value)) \o r.value

EncodeBatch(batch) ==
    <<batch.seq, Len(batch.records)>>
        \o FlattenSeq([i \in 1..Len(batch.records) |-> EncodeRecord(batch.records[i])])

Err == [ok |-> FALSE]

\* read_varint, read_bytes: a length at cell i and as many cells after it.
ReadPrefixed(data, i) ==
    LET v[j \in 1..(Len(data) + 1)] ==
            IF j > Len(data) THEN Err
            ELSE IF data[j] < 2 THEN [ok |-> TRUE, n |-> data[j], next |-> j + 1]
            ELSE IF v[j + 1].ok THEN [v[j + 1] EXCEPT !.n = data[j] - 2 + 2 * @] ELSE Err
    IN IF i > Len(data) \/ ~v[i].ok THEN Err
       ELSE IF v[i].next + v[i].n > Len(data) + 1 THEN Err
       ELSE [ok |-> TRUE, bytes |-> SubSeq(data, v[i].next, v[i].next + v[i].n - 1),
             next |-> v[i].next + v[i].n]

DecodeBatch(data) ==
    LET rec[n \in 0..data[2]] ==
            IF n = 0 THEN [ok |-> TRUE, next |-> 3, records |-> <<>>]
            ELSE LET p == rec[n - 1]
                 IN IF ~p.ok THEN Err
                    ELSE IF p.next > Len(data) THEN Err
                    ELSE IF data[p.next] \notin {0, 1} THEN Err
                    ELSE LET key == ReadPrefixed(data, p.next + 1)
                         IN IF ~key.ok THEN Err
                            ELSE LET val == ReadPrefixed(data, key.next)
                                 IN IF ~val.ok THEN Err
                                    ELSE [ok |-> TRUE, next |-> val.next,
                                          records |-> Append(p.records,
                                              [op |-> data[p.next], key |-> key.bytes, value |-> val.bytes])]
        last == rec[data[2]]
    IN IF Len(data) < 2 THEN Err
       ELSE IF ~last.ok THEN Err
       ELSE [ok |-> TRUE, batch |-> [seq |-> data[1], records |-> last.records]]

----------------------------------------------------------------------------
(* WalWriter                                                                *)

\* RecordType: 1 Full, 2 First, 3 Middle, 4 Last; 4 more in a recyclable log.
RecordType(is_first, is_last) ==
    (CASE is_first /\ is_last -> 1 [] is_first /\ ~is_last -> 2
       [] ~is_first /\ ~is_last -> 3 [] ~is_first /\ is_last -> 4)
    + IF Recyclable THEN 4 ELSE 0

Crc(type, payload) == FoldSeq(LAMBDA c, acc : acc * 8 + c + 1, type, payload)

EmitPhysicalRecord(type, payload) ==
    <<Crc(type, payload), Len(payload), type>>
        \o (IF Recyclable THEN <<LogNumber>> ELSE <<>>) \o payload

\* The rest of the block has no room for a header.
MustPad(available) == available < header_size

\* add_record: the cells it appends and the writer's offset in its block.
AddRecord(payload, offset) ==
    LET from[i \in 0..Len(payload), off \in 0..BLOCK_SIZE, is_first \in BOOLEAN] ==
          IF i = Len(payload) THEN [cells |-> <<>>, offset |-> off]
          ELSE LET pad == IF MustPad(BLOCK_SIZE - off) THEN BLOCK_SIZE - off ELSE 0
                   start == IF MustPad(BLOCK_SIZE - off) THEN 0 ELSE off
                   capacity == BLOCK_SIZE - start - header_size
                   end == IF Len(payload) - i <= capacity THEN Len(payload) ELSE i + capacity
                   cells == [x \in 1..pad |-> 0]
                            \o EmitPhysicalRecord(RecordType(is_first, end = Len(payload)),
                                                  SubSeq(payload, i + 1, end))
                   rest == from[end, start + header_size + end - i, FALSE]
               IN [rest EXCEPT !.cells = cells \o @]
    IN from[0, offset, TRUE]

\* Contents of a batch: from one record to two, values empty or not; a delete
\* carries its pre-image as a put carries its row.
Contents ==
    LET r(op, value) == [op |-> op, key |-> <<1>>, value |-> value]
    IN {<<r(1, <<0, 2, 1>>)>>, <<r(0, <<>>)>>, <<r(1, <<>>), r(0, <<3>>)>>}

Init ==
    /\ log = <<>> /\ block_offset = 0 /\ appended = <<>>
    /\ synced = [len |-> 0, batches |-> 0]
    /\ phase = "write"
    /\ reader = [file_offset |-> 0, block_offset |-> 0, expected |-> LogNumber]
    /\ fragment = NoFragment /\ recovered = <<>> /\ corrupt = FALSE

AppendBatch(records) ==
    /\ phase = "write" /\ Len(appended) < MaxBatches
    /\ LET batch == [seq |-> Len(appended), records |-> records]
           added == AddRecord(EncodeBatch(batch), block_offset)
       IN /\ appended' = Append(appended, batch)
          /\ log' = log \o added.cells
          /\ block_offset' = added.offset
    /\ UNCHANGED <<synced, phase, reader, fragment, recovered, corrupt>>

Sync ==
    /\ phase = "write"
    /\ synced' = [len |-> Len(log), batches |-> Len(appended)]
    /\ UNCHANGED <<log, block_offset, appended, phase, reader, fragment, recovered, corrupt>>

\* A crash loses cells from some point on that is not synced: they are gone, or
\* the file has its length and zeros for them.  The log is then opened for the
\* generation it has or, recycled, for another.
Crash(n, zeros, expected) ==
    /\ phase = "write" /\ n >= synced.len /\ (Recyclable \/ expected = LogNumber)
    /\ log' = SubSeq(log, 1, n) \o (IF zeros THEN [i \in 1..(Len(log) - n) |-> 0] ELSE <<>>)
    /\ phase' = "read"
    /\ reader' = [reader EXCEPT !.expected = expected]
    /\ UNCHANGED <<writer, fragment, recovered, corrupt>>

----------------------------------------------------------------------------
(* WalReader                                                                *)

Cell(i) == log[i + 1]
Cells(i, n) == SubSeq(log, i + 1, i + n)

\* The reader's place once a block tail without room for a header is skipped.
AtHeader ==
    LET left == BLOCK_SIZE - reader.block_offset
    IN IF left < header_size
       THEN [reader EXCEPT !.file_offset = @ + left, !.block_offset = 0]
       ELSE reader

CrcUnchecked(stored, type, payload) ==  \* mutant: the checksum is not compared
    TRUE
CrcMatches(stored, type, payload) == Crc(type, payload) = stored

\* read_physical_record, one turn of its loop.
ReadPhysicalRecord ==
    LET at == AtHeader
        fo == at.file_offset
        stop(kind) == [kind |-> kind, reader |-> at]
        type == Cell(fo + 2)
        length == Cell(fo + 1)
        payload == Cells(fo + header_size, length)
        total == header_size + length
    IN CASE Len(log) <= fo -> stop("end")
         [] Len(log) > fo /\ Len(log) < fo + header_size -> stop("err")
         [] OTHER ->
              IF Cell(fo) = 0 /\ length = 0 /\ type = 0
              THEN [kind |-> "skip",
                    reader |-> [at EXCEPT !.file_offset = @ + BLOCK_SIZE - at.block_offset,
                                          !.block_offset = 0]]
              ELSE IF type \notin 1..8 \/ (type >= 5) # Recyclable THEN stop("err")
              ELSE IF Recyclable /\ Cell(fo + 3) # at.expected THEN stop("end")
              ELSE IF Len(log) < fo + total THEN stop("err")
              ELSE IF ~CrcMatches(Cell(fo), type, payload) THEN stop("err")
              ELSE [kind |-> "record", type |-> ((type - 1) % 4) + 1, payload |-> payload,
                    reader |-> [at EXCEPT !.file_offset = @ + total,
                                          !.block_offset = (@ + total) % BLOCK_SIZE]]

\* A skipped block tail: the loop goes on in the next block.
ReadSkip ==
    /\ phase = "read" /\ ReadPhysicalRecord.kind = "skip"
    /\ reader' = ReadPhysicalRecord.reader
    /\ UNCHANGED <<log, writer, phase, fragment, recovered, corrupt>>

\* The end of the file, of the generation, or of what is intact: a clean stop,
\* with a fragment in hand or not.
ReadStop ==
    /\ phase = "read" /\ ReadPhysicalRecord.kind \in {"end", "err"}
    /\ reader' = ReadPhysicalRecord.reader
    /\ phase' = "done"
    /\ UNCHANGED <<log, writer, fragment, recovered, corrupt>>

\* recover_from_dir: a record that does not decode ends the file.
Deliver(payload) ==
    \E d \in {DecodeBatch(payload)} :
       IF d.ok THEN recovered' = Append(recovered, d.batch) /\ UNCHANGED <<phase, corrupt>>
       ELSE phase' = "done" /\ corrupt' = TRUE /\ UNCHANGED recovered

Assembled(p) == fragment.payload \o p

\* next_record: a record, assembled when it comes in fragments; fragments out
\* of order are corruption and end the file.
ReadRecord ==
    /\ phase = "read"
    /\ \E r \in {ReadPhysicalRecord} :
       /\ r.kind = "record"
       /\ reader' = r.reader
       /\ IF (r.type \in {1, 2}) = fragment.on
          THEN /\ corrupt' = TRUE /\ phase' = "done" /\ UNCHANGED <<fragment, recovered>>
          ELSE CASE r.type = 1 -> Deliver(r.payload) /\ UNCHANGED fragment
                 [] r.type = 2 -> fragment' = [on |-> TRUE, payload |-> r.payload] /\ UNCHANGED <<phase, recovered, corrupt>>
                 [] r.type = 3 -> fragment' = [fragment EXCEPT !.payload = @ \o r.payload]
                                  /\ UNCHANGED <<phase, recovered, corrupt>>
                 [] r.type = 4 -> /\ \E p \in {Assembled(r.payload)} : Deliver(p)
                                  /\ fragment' = NoFragment
    /\ UNCHANGED <<log, writer>>

Next ==
    \/ \E records \in Contents : AppendBatch(records)
    \/ Sync
    \/ \E n \in 0..Len(log), zeros \in BOOLEAN, expected \in {LogNumber, LogNumber + 1} :
          Crash(n, zeros, expected)
    \/ ReadSkip
    \/ ReadStop
    \/ ReadRecord

Spec == Init /\ [][Next]_vars

----------------------------------------------------------------------------
\* Wherever the crash cut the log, recovery yields the batches that were
\* appended, in order and whole, up to some point; from a log of another
\* generation it yields nothing.
RecoversPrefix ==
    /\ IsPrefix(recovered, appended)
    /\ reader.expected # LogNumber => recovered = <<>>

\* Every batch appended before the last sync comes back, also when it crossed
\* block boundaries or ended where a header does not fit.
RecoversSynced ==
    phase = "done" /\ reader.expected = LogNumber => Len(recovered) >= synced.batches

\* A cut log is no corruption: "partial tail record is NOT a hard error".
CutIsNoCorruption == ~corrupt

\* Every turn of the reader's loop ends recovery or moves it on in the file, so
\* that a log full of zeros is read in finitely many turns.
Advances == phase = "read" => phase' = "done" \/ reader'.file_offset > reader.file_offset

============================================================================
