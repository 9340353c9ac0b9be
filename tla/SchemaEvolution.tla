-------------------------- MODULE SchemaEvolution --------------------------
(***************************************************************************)
(* Columns added to a table, and what its rows read as in every tier       *)
(* (types/schema.rs, types/value.rs, parquet/codec.rs, the schema check of *)
(* iceberg/catalog.rs, MeruDB::put and add_column).                        *)
(*                                                                         *)
(* A schema here is the sequence of the columns after the first two, which *)
(* hold key and value and never change.  A row is kept as the blob of its  *)
(* fields (log, memtable, L0) and as typed columns by name (L0, L1).       *)
(***************************************************************************)
EXTENDS Integers, Sequences, SequencesExt

CONSTANTS
    Keys,            \* primary keys
    Names, Types,    \* names and types of the columns callers add
    MaxColumns,      \* bound: columns added
    MaxSessions,     \* bound: calls of open
    WriteDefaultOnly,  \* may a NOT NULL column have a write_default and no initial_default
    Extends,         \* does a caller reopen with what it used last, or more
    CleanFirst       \* is a table closed, not crashed, before it is extended

SchemaAssumption ==
    /\ {MaxColumns, MaxSessions} \subseteq Nat
    /\ {WriteDefaultOnly, Extends, CleanFirst} \subseteq BOOLEAN

VARIABLES
    persisted,   \* the schema of the manifest on disk
    manifest,    \* the schema of the manifest in memory
    engine,      \* the schema the table is open with
    rows,        \* of each key: [tier, op, blob, cols, given]
    last,        \* history: the schema of the last session
    added,       \* history: what the last add_column of this session returned
    sessions

vars == <<persisted, manifest, engine, rows, last, added, sessions>>

None == <<"none", "none">>
NoSchema == <<[name |-> "none", type |-> "none", nullable |-> FALSE, initial |-> None, write |-> None]>>

\* The values a column may default to, and what a caller supplies.
Fill(kind, type) == {None, <<type, kind>>}
Given == {None} \cup {<<t, "given">> : t \in Types}
Zero(c) == <<c.type, "zero">>

Columns ==
    {c \in UNION {[name : Names, type : {t}, nullable : BOOLEAN,
                   initial : Fill("initial", t), write : Fill("write", t)] : t \in Types} :
        WriteDefaultOnly \/ c.nullable \/ c.write = None \/ c.initial # None}

Schemas ==
    {s \in UNION {[1 .. n -> Columns] : n \in 0 .. MaxColumns} :
        \A i, j \in DOMAIN s : s[i].name = s[j].name => i = j}

NoRow == [tier |-> "none", op |-> "none", blob |-> <<>>, cols |-> {}, given |-> <<>>]

Init ==
    /\ persisted = NoSchema /\ manifest = NoSchema /\ engine = NoSchema
    /\ rows = [k \in Keys |-> NoRow]
    /\ last = NoSchema /\ added = NoSchema /\ sessions = 0

----------------------------------------------------------------------------
\* check_schema_compatible: the columns of the one are the first of the other,
\* by name, type and nullability, and the rest can be filled in.

CheckSchemaCompatible(old, new) ==
    /\ Len(old) <= Len(new)
    /\ \A i \in DOMAIN old : /\ old[i].name = new[i].name /\ old[i].type = new[i].type
                             /\ old[i].nullable = new[i].nullable
    /\ \A i \in Len(old) + 1 .. Len(new) : new[i].nullable \/ new[i].write # None \/ new[i].initial # None

\* pad_with_defaults, and whether it succeeds.
Filling(c) == IF c.write # None THEN c.write ELSE c.initial

PadWithDefaults(row, s) ==
    [i \in DOMAIN s |-> IF i <= Len(row) THEN row[i] ELSE Filling(s[i])]

Paddable(row, s) == \A i \in Len(row) + 1 .. Len(s) : s[i].nullable \/ Filling(s[i]) # None

\* Row::validate: arity, types, NOT NULL.
Validate(row, s) ==
    /\ Len(row) = Len(s)
    /\ \A i \in DOMAIN s : IF row[i] = None THEN s[i].nullable ELSE row[i][1] = s[i].type

\* build_column: a cell that is absent is NULL, or the type's zero where NULL
\* is not allowed.
Cell(row, s, i) ==
    IF i <= Len(row) /\ row[i] # None THEN row[i]
    ELSE IF s[i].nullable THEN None ELSE Zero(s[i])

Buildable(row, s) == \A i \in DOMAIN s : i <= Len(row) /\ row[i] # None => row[i][1] = s[i].type

\* rows_to_record_batch.
BuildColumns(row, s) == {[name |-> s[i].name, value |-> Cell(row, s, i)] : i \in DOMAIN s}

\* record_batch_to_rows by the blob, and by the typed columns.
FromBlob(blob, s) ==
    [i \in 1 .. (IF Len(blob) > Len(s) THEN Len(blob) ELSE Len(s)) |->
        IF i <= Len(blob) THEN blob[i] ELSE s[i].initial]

FromColumnsNull(cols, s) ==  \* mutant: a missing column reads as NULL
    [i \in DOMAIN s |->
        LET found == {c \in cols : c.name = s[i].name}
        IN  IF found = {} THEN None ELSE (CHOOSE c \in found : TRUE).value]
FromColumns(cols, s) ==
    [i \in DOMAIN s |->
        LET found == {c \in cols : c.name = s[i].name}
        IN  IF found = {} THEN s[i].initial ELSE (CHOOSE c \in found : TRUE).value]

\* What get returns for a row: the memtable decodes the logged bytes as they are.
Read(row, s) ==
    CASE row.tier = "mem" -> row.blob
      [] row.tier = "l0" -> FromBlob(row.blob, s)
      [] OTHER -> FromColumns(row.cols, s)

----------------------------------------------------------------------------
\* The table.

IsOpen == engine # NoSchema
Unflushed == \E k \in Keys : rows[k].tier = "mem"

\* MeruEngine::open.  Nothing checks a schema against the log.
Open(s) ==
    /\ Extends /\ last # NoSchema => IsPrefix(last, s)
    /\ CleanFirst /\ Unflushed => s = last
    /\ persisted # NoSchema => CheckSchemaCompatible(persisted, s)
    /\ engine' = s /\ last' = s
    /\ manifest' = IF persisted = NoSchema THEN s ELSE persisted
    /\ sessions' = sessions + 1 /\ added' = NoSchema
    /\ UNCHANGED <<persisted, rows>>

\* MeruDB::put with the first n fields, or all of them.
Put(k, row) ==
    /\ Paddable(row, engine)
    /\ LET full == PadWithDefaults(row, engine)
       IN  /\ Validate(full, engine)
           /\ rows' = [rows EXCEPT ![k] = [tier |-> "mem", op |-> "put", blob |-> full, cols |-> {},
                                           given |-> [i \in DOMAIN engine |->
                                               IF i <= Len(row) THEN row[i] ELSE Filling(engine[i])]]]
    /\ UNCHANGED <<persisted, manifest, engine, last, added, sessions>>

Delete(k) ==
    /\ IsOpen
    /\ rows' = [rows EXCEPT ![k] = [NoRow EXCEPT !.tier = "mem", !.op = "delete"]]
    /\ UNCHANGED <<persisted, manifest, engine, last, added, sessions>>

\* A flush, and with it the first commit of the manifest.
Flush ==
    /\ IsOpen /\ Unflushed
    /\ \A k \in Keys : rows[k].tier = "mem" => Buildable(rows[k].blob, engine)
    /\ rows' = [k \in Keys |->
            IF rows[k].tier # "mem" THEN rows[k]
            ELSE [rows[k] EXCEPT !.tier = "l0", !.cols = BuildColumns(rows[k].blob, engine)]]
    /\ persisted' = manifest
    /\ UNCHANGED <<manifest, engine, last, added, sessions>>

\* A compaction to L1, which has no blobs.
Compact(k) ==
    /\ IsOpen /\ rows[k].tier = "l0"
    /\ Buildable(Read(rows[k], engine), engine)
    /\ rows' = [rows EXCEPT ![k].tier = "l1", ![k].blob = <<>>,
                            ![k].cols = BuildColumns(Read(rows[k], engine), engine)]
    /\ UNCHANGED <<persisted, manifest, engine, last, added, sessions>>

\* MeruDB::add_column: an empty transaction is committed.  Its new schema is a
\* parameter of commit that the manifest does not take up.
AddColumn(c) ==
    /\ Len(engine) < MaxColumns
    /\ \A i \in DOMAIN engine : engine[i].name # c.name
    /\ c.nullable \/ c.write # None \/ c.initial # None
    /\ persisted' = manifest
    /\ added' = Append(engine, c)
    /\ UNCHANGED <<manifest, engine, rows, last, sessions>>

\* A crash leaves what was logged; close() comes after a flush.
Stop ==
    /\ IsOpen
    /\ engine' = NoSchema /\ manifest' = NoSchema
    /\ UNCHANGED <<persisted, rows, last, added, sessions>>

Next ==
    \/ ~IsOpen /\ sessions < MaxSessions /\ \E s \in Schemas : Open(s)
    \/ IsOpen /\ \E k \in Keys, n \in 0 .. MaxColumns : \E row \in [1 .. n -> Given] : Put(k, row)
    \/ \E k \in Keys : Delete(k) \/ Compact(k)
    \/ IsOpen /\ \E c \in Columns : AddColumn(c)
    \/ Flush \/ Stop

Spec == Init /\ [][Next]_vars

----------------------------------------------------------------------------
\* What a row should read as: the fields of its put, and initial defaults for
\* columns added later.
Expected(row, s) == [i \in DOMAIN s |-> IF i <= Len(row.given) THEN row.given[i] ELSE s[i].initial]

Puts == {k \in Keys : rows[k].op = "put"}

\* A row reads as it was put in every tier, over flushes, compactions and
\* reopening under an extended schema: old rows show the initial default of
\* the columns they lack, short puts the write default.
ReadsAsWritten == IsOpen => \A k \in Puts : Read(rows[k], engine) = Expected(rows[k], engine)

\* The typed columns of a file, which external readers see, agree with the
\* blob, which the engine reads.
TypedAgrees ==
    IsOpen => \A k \in Puts : rows[k].tier = "l0" =>
        FromColumns(rows[k].cols, engine) = FromBlob(rows[k].blob, engine)

\* What is in the memtable can always be flushed: no row was logged that the
\* columns of its table refuse.
Flushable == IsOpen => \A k \in Keys : rows[k].tier # "none" => Buildable(Read(rows[k], engine), engine)

\* Every row a reader gets has one field per column of the schema.
RowsComplete == IsOpen => \A k \in Puts : Len(Read(rows[k], engine)) = Len(engine)

\* No row shows NULL in a NOT NULL column.
NotNullKept ==
    IsOpen => \A k \in Puts : LET r == Read(rows[k], engine)
                              IN  \A i \in DOMAIN r \cap DOMAIN engine : r[i] = None => engine[i].nullable

\* A table is reopened with at least the columns it was used with last.
SchemaGrows == [][IsOpen' /\ ~IsOpen /\ last # NoSchema /\ persisted # NoSchema
                    => CheckSchemaCompatible(last, engine')]_vars

\* When add_column has returned, the schema on disk has the new column.
ColumnAdded == added # NoSchema => persisted = added
=============================================================================
