--------------------------- MODULE ManifestCodec ---------------------------
(***************************************************************************)
(* What a manifest says of a file, from the rows to an external reader:    *)
(* the column statistics the Parquet writer reduces over its row groups    *)
(* (parquet/writer.rs), the framed protobuf form of a manifest             *)
(* (iceberg/manifest.rs, iceberg/manifest_pb.rs) and the projection to an  *)
(* Iceberg data file (iceberg/translate.rs).                               *)
(*                                                                         *)
(* The table has one user column.  Its values are encoded as the bytes of  *)
(* the statistics: an integer in two digits to the base 4, little endian   *)
(* and in two's complement, a byte string as it is.  An optional value is  *)
(* a sequence of length 0 or 1.  The payload of a frame has one cell per   *)
(* protobuf field, in the order of the field numbers; a field whose value  *)
(* is the default is not written, and a missing field reads as it.         *)
(***************************************************************************)
EXTENDS Integers, Sequences, SequencesExt, FiniteSets, FiniteSetsExt

CONSTANTS
    ColType,     \* "Int" or "Bytes"
    Nullable,    \* is the column nullable?
    GroupRows,   \* target_rows_per_row_group
    MaxRows,     \* bound: rows of a file
    MaxFiles,    \* bound: files of the table
    LengthDamage \* may the length in the header be damaged?

CodecAssumption ==
    /\ ColType \in {"Int", "Bytes"}
    /\ Nullable \in BOOLEAN /\ LengthDamage \in BOOLEAN
    /\ GroupRows \in Nat \ {0} /\ MaxRows \in Nat /\ MaxFiles \in Nat

VARIABLES
    manifest,  \* the catalog's manifest
    rows,      \* history: the column of each file as the rows have it
    frame,     \* the bytes of the manifest's file
    opened     \* what the last open made of the frame: <<>> if it was refused

vars == <<manifest, rows, frame, opened>>

Some(o) == o[1]

----------------------------------------------------------------------------
(* Values and bounds.                                                       *)

\* Integers of both signs, the smallest one, and two that differ in the second
\* digit; strings in which a prefix and a later byte decide.
ColumnValues ==
    IF ColType = "Int" THEN {-8, -1, 0, 3, 4} ELSE {<<>>, <<1>>, <<0, 1>>}

LittleEndian(v) == LET u == (v + 16) % 16 IN <<u % 4, u \div 4>>

SignedOf(b) == LET u == b[1] + 4 * b[2] IN IF u < 8 THEN u ELSE u - 16

Encoded(v) == IF ColType = "Int" THEN LittleEndian(v) ELSE v

\* The order of byte slices.
BytesLess(a, b) ==
    \/ IsStrictPrefix(a, b)
    \/ \E i \in 1..Min({Len(a), Len(b)}) :
          a[i] < b[i] /\ \A j \in 1..i - 1 : a[j] = b[j]

ValueOf(b) == IF ColType = "Int" THEN SignedOf(b) ELSE b

ValueLess(a, b) == IF ColType = "Int" THEN a < b ELSE BytesLess(a, b)

BoundIsLess(a, b) == ValueLess(ValueOf(a), ValueOf(b))

\* build_column: an absent value of a NOT NULL column is written as the default.
AsWritten(v) ==
    IF v # <<>> \/ Nullable THEN v ELSE <<IF ColType = "Int" THEN 0 ELSE <<>> >>

----------------------------------------------------------------------------
(* Column statistics.                                                       *)

\* The row groups of a file, each a sequence of written values.
RowGroups(col) ==
    [g \in 1..((Len(col) + GroupRows - 1) \div GroupRows) |->
        [i \in 1..Min({GroupRows, Len(col) - (g - 1) * GroupRows}) |->
            AsWritten(col[(g - 1) * GroupRows + i])]]

\* The statistics Parquet keeps of a row group.
GroupStats(group) ==
    LET vals == {Some(group[i]) : i \in {j \in DOMAIN group : group[j] # <<>>}}
        Least == CHOOSE v \in vals : \A w \in vals : ~ValueLess(w, v)
        Most == CHOOSE v \in vals : \A w \in vals : ~ValueLess(v, w)
    IN [rows |-> Len(group),
        nulls |-> Cardinality({i \in DOMAIN group : group[i] = <<>>}),
        lower |-> IF vals = {} THEN <<>> ELSE <<Encoded(Least)>>,
        upper |-> IF vals = {} THEN <<>> ELSE <<Encoded(Most)>>]

\* Mutant: bounds of every type are compared as bytes.
CompareRaw(cur, new) ==
    IF cur = <<>> \/ (new # <<>> /\ BytesLess(Some(new), Some(cur))) THEN new ELSE cur

SmallerBound(cur, new) ==
    IF cur = <<>> \/ (new # <<>> /\ BoundIsLess(Some(new), Some(cur))) THEN new ELSE cur

LargerBound(cur, new) ==
    IF cur = <<>> \/ (new # <<>> /\ BoundIsLess(Some(cur), Some(new))) THEN new ELSE cur

Reduce(acc, g) ==
    [values |-> acc.values + g.rows - g.nulls, nulls |-> acc.nulls + g.nulls,
     lower |-> SmallerBound(acc.lower, g.lower), upper |-> LargerBound(acc.upper, g.upper)]

ExtractColumnStats(col) ==
    LET groups == RowGroups(col)
    IN FoldLeft(Reduce, [values |-> 0, nulls |-> 0, lower |-> <<>>, upper |-> <<>>],
                [g \in DOMAIN groups |-> GroupStats(groups[g])])

----------------------------------------------------------------------------
(* Manifests.                                                               *)

Empty == [snapshot_id |-> 0, parent |-> <<>>, next_row_id |-> 0, props |-> {},
          entries |-> <<>>]

\* Manifest::apply of a transaction that adds one file.
AddFile(m, col, format) ==
    [snapshot_id |-> m.snapshot_id + 1,
     parent |-> IF m.snapshot_id = 0 THEN <<>> ELSE <<m.snapshot_id>>,
     next_row_id |-> m.next_row_id + Len(col),
     props |-> {"job"},
     entries |-> Append(m.entries,
        [num_rows |-> Len(col), stats |-> <<ExtractColumnStats(col)>>, dv |-> <<>>,
         format |-> <<format>>, status |-> "added", first_row_id |-> <<m.next_row_id>>])]

\* A transaction that gives file i a deletion vector.
AddVector(m, i) ==
    [m EXCEPT !.snapshot_id = @ + 1,
              !.parent = <<m.snapshot_id>>,
              !.entries[i].dv = <<m.snapshot_id + 1>>]

StatusCode(s) == IF s = "added" THEN 1 ELSE IF s = "deleted" THEN 2 ELSE 0

StatusOf(c) == IF c = 1 THEN "added" ELSE IF c = 2 THEN "deleted" ELSE "existing"

FormatCode(f) == IF f = "Dual" THEN 1 ELSE 0

FormatOf(c) == IF c = 1 THEN "Dual" ELSE "Columnar"

MapOption(F(_), o) == [i \in DOMAIN o |-> F(o[i])]

FileRef(e) ==
    [num_rows |-> e.num_rows, dv |-> e.dv, status |-> StatusCode(e.status),
     format |-> MapOption(FormatCode, e.format), first_row_id |-> e.first_row_id]

EntryOf(d) ==
    [num_rows |-> d.num_rows, stats |-> <<>>, dv |-> d.dv, status |-> StatusOf(d.status),
     format |-> MapOption(FormatOf, d.format), first_row_id |-> d.first_row_id]

\* A field is [f, v]; fields with a default value of 0 are left out.
Number(f, n) == IF n = 0 THEN <<>> ELSE <<[f |-> f, v |-> n]>>

Field(f, v) == [f |-> f, v |-> v]

\* The schema rides along as a property.
ToPb(m) ==
    Number("snapshot_id", m.snapshot_id)
        \o [i \in DOMAIN m.entries |-> Field("data_files", FileRef(m.entries[i]))]
        \o MapOption(LAMBDA p : Field("previous_snapshot_id", p), m.parent)
        \o <<Field("properties", m.props \cup {"merutable.schema.json"})>>
        \o Number("next_row_id", m.next_row_id)

Fields(pb, f) == LET at == SelectSeq(pb, LAMBDA c : c.f = f) IN [i \in DOMAIN at |-> at[i].v]

NumberOf(pb, f) == LET at == Fields(pb, f) IN IF at = <<>> THEN 0 ELSE Some(at)

\* <<>> if the schema is missing.
FromPb(pb) ==
    IF \A i \in DOMAIN pb : pb[i].f # "properties" THEN <<>>
    ELSE <<[snapshot_id |-> NumberOf(pb, "snapshot_id"),
            parent |-> Fields(pb, "previous_snapshot_id"),
            next_row_id |-> NumberOf(pb, "next_row_id"),
            props |-> Some(Fields(pb, "properties")) \ {"merutable.schema.json"},
            entries |-> MapOption(EntryOf, Fields(pb, "data_files"))]>>

----------------------------------------------------------------------------
(* The frame: magic, format version, length, payload.                       *)

Header(len) == <<Field("magic", "MRUB"), Field("version", 1), Field("length", len)>>

HEADER_LEN == 3

Encode(pb) == Header(Len(pb)) \o pb

\* <<>> for a frame that is too short, that has another magic or version, or
\* that lacks a part of the payload the header announces.
Decode(bytes) ==
    IF \/ Len(bytes) < HEADER_LEN
       \/ ~IsPrefix(Header(bytes[3].v), bytes)
       \/ Len(bytes) < HEADER_LEN + bytes[3].v
    THEN <<>>
    ELSE FromPb(SubSeq(bytes, HEADER_LEN + 1, HEADER_LEN + bytes[3].v))

----------------------------------------------------------------------------
(* The projection to Iceberg: [values, nulls, lower, upper], each optional. *)

ToIcebergDataFile(e) ==
    IF e.stats # <<>>
    THEN LET s == Some(e.stats)
         IN [values |-> <<s.values>>, nulls |-> <<s.nulls>>, lower |-> s.lower, upper |-> s.upper]
    ELSE [values |-> IF Nullable THEN <<>> ELSE <<e.num_rows>>,
          nulls |-> IF Nullable THEN <<>> ELSE <<0>>, lower |-> <<>>, upper |-> <<>>]

----------------------------------------------------------------------------
Init ==
    /\ manifest = Empty /\ rows = <<>> /\ frame = Encode(ToPb(Empty)) /\ opened = <<Empty>>

Commit(m) == manifest' = m /\ frame' = Encode(ToPb(m)) /\ opened' = Decode(frame')

Flush ==
    /\ Len(rows) < MaxFiles /\ frame = Encode(ToPb(manifest))
    /\ \E n \in 1..MaxRows : \E col \in [1..n -> {<<>>} \cup {<<v>> : v \in ColumnValues}],
          format \in {"Columnar", "Dual"} :
          /\ Commit(AddFile(manifest, col, format))
          /\ rows' = Append(rows, col)

Mark ==
    /\ frame = Encode(ToPb(manifest)) /\ rows # <<>>
    /\ \E i \in DOMAIN manifest.entries :
          manifest.entries[i].dv = <<>> /\ Commit(AddVector(manifest, i))
    /\ UNCHANGED rows

\* The engine opens the file it wrote and goes on from there.
Reopen ==
    /\ Decode(frame) # <<>> /\ frame = Encode(ToPb(manifest))
    /\ manifest' = Some(Decode(frame))
    /\ UNCHANGED <<rows, frame, opened>>

\* A torn write: an open sees a prefix of the frame.
Tear ==
    /\ frame = Encode(ToPb(manifest))
    /\ \E n \in 0..Len(frame) - 1 : frame' = SubSeq(frame, 1, n)
    /\ opened' = Decode(frame')
    /\ UNCHANGED <<manifest, rows>>

DamageLength ==
    /\ LengthDamage /\ frame = Encode(ToPb(manifest))
    /\ \E n \in 0..Len(frame) : n # frame[3].v /\ frame' = [frame EXCEPT ![3].v = n]
    /\ opened' = Decode(frame')
    /\ UNCHANGED <<manifest, rows>>

Next == Flush \/ Mark \/ Reopen \/ Tear \/ DamageLength

Spec == Init /\ [][Next]_vars

----------------------------------------------------------------------------
\* A reader that skips a file because the value it looks for lies outside
\* lower_bounds and upper_bounds misses no row: every value the file holds lies
\* within the bounds, whatever row groups it was cut into and whether the
\* manifest is the one committed or the one read back.
BoundsHold ==
    \A i \in DOMAIN rows :
        LET d == ToIcebergDataFile(manifest.entries[i])
        IN \A j \in DOMAIN rows[i] : AsWritten(rows[i][j]) # <<>> =>
             LET v == Some(AsWritten(rows[i][j]))
             IN /\ d.lower # <<>> => ~ValueLess(v, ValueOf(Some(d.lower)))
                /\ d.upper # <<>> => ~ValueLess(ValueOf(Some(d.upper)), v)

\* value_counts and null_value_counts, from the statistics or derived for a
\* NOT NULL column, are the numbers of values and of nulls in the file.
CountsExact ==
    \A i \in DOMAIN rows :
        LET d == ToIcebergDataFile(manifest.entries[i])
            nulls == Cardinality({j \in DOMAIN rows[i] : AsWritten(rows[i][j]) = <<>>})
        IN /\ d.nulls # <<>> => Some(d.nulls) = nulls
           /\ d.values # <<>> => Some(d.values) = Len(rows[i]) - nulls

WithoutStats(m) == [m EXCEPT !.entries = [i \in DOMAIN @ |-> [@[i] EXCEPT !.stats = <<>>]]]

\* What an open reads is the manifest that was committed, but for the column
\* statistics, and never a part of it: a torn frame is refused.
OpenedExact ==
    IF frame = Encode(ToPb(manifest))
    THEN opened # <<>> /\ Some(opened) = WithoutStats(manifest)
    ELSE opened = <<>>

\* A frame whose length was damaged may be accepted with its last fields
\* missing, but never with a file missing: the schema, without which from_pb
\* refuses the manifest, is written behind the files.
FilesKept == opened # <<>> => Some(opened).entries = WithoutStats(manifest).entries

\* from_protobuf gives back every field of the manifest, column statistics
\* included (Manifest::to_protobuf).
EveryFieldKept == frame = Encode(ToPb(manifest)) => opened = <<manifest>>

\* A corrupt frame is refused (manifest_pb::decode).
CorruptRefused == frame # Encode(ToPb(manifest)) => opened = <<>>

============================================================================
