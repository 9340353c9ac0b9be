----------------------------- MODULE MCStorage -----------------------------
(***************************************************************************)
(* What is on disk, for TLC: the catalog, the file formats, and rows under *)
(* a schema that grows.  A behaviour is that of Catalog or of one of the   *)
(* instances below, named by part; the variables of the first then keep    *)
(* their values, and those of the other instances are 0.                   *)
(***************************************************************************)
EXTENDS CatalogInv

VARIABLES
    part,
    keys, index, target, pc, lo, hi, cursor, prev_key, best, next,
    file, dv, call, answer, pages, next_page_idx, buffer, fallback_done,
    schema, a, b, decoded,
    log, block_offset, appended, synced, phase, reader, fragment, recovered, corrupt,
    bitmap, bytes, location, damaged, result,
    manifest, rows, frame, opened,
    persisted, in_memory, engine, table, last, added, sessions

indexVars == <<keys, index, target, pc, lo, hi, cursor, prev_key, best, next>>
fileVars == <<file, dv, call, answer, pages, next_page_idx, buffer, fallback_done>>
keyVars == <<schema, a, b, decoded>>
walVars == <<log, block_offset, appended, synced, phase, reader, fragment, recovered, corrupt>>
puffinVars == <<bitmap, bytes, location, damaged, result>>
manifestVars == <<manifest, rows, frame, opened>>
formatVars == <<indexVars, fileVars, keyVars, walVars, puffinVars, manifestVars>>
schemaVars == <<persisted, in_memory, engine, table, last, added, sessions>>
storageVars == <<part, vars, formatVars, schemaVars>>

Index == INSTANCE KvIndex WITH
    KeyBytes <- {0, 1}, MaxKeyLen <- 2, MaxEntries <- 5, Intervals <- 1..3, Damaged <- FALSE
AnyBuffer == INSTANCE KvIndex WITH
    KeyBytes <- {0}, MaxKeyLen <- 2, MaxEntries <- 3, Intervals <- 1..3, Damaged <- TRUE
Compacted == INSTANCE ParquetFile WITH FileKeys <- {2, 4}, FileSeqs <- 1..3, Versions <- TRUE
Flushed == INSTANCE ParquetFile WITH FileKeys <- 2..4, FileSeqs <- 1..3, Versions <- FALSE
Encoded == INSTANCE KeyCodec WITH
    TopByte <- 3, MaxColumns <- 2, MaxBytesLen <- 2,
    ColumnTypes <- {"bool", "int", "float", "bytes", "fixed"}
Wal == INSTANCE WalFormat WITH
    BLOCK_SIZE <- 10, HEADER_SIZE <- 3, RECYCLABLE_HEADER_SIZE <- 4,
    Recyclable <- FALSE, MaxBatches <- 3
Recycled == INSTANCE WalFormat WITH
    BLOCK_SIZE <- 11, HEADER_SIZE <- 3, RECYCLABLE_HEADER_SIZE <- 4,
    Recyclable <- TRUE, MaxBatches <- 3
Vectors == INSTANCE Puffin WITH RowPositions <- {0, 1, 3, 5}
Ints == INSTANCE ManifestCodec WITH
    ColType <- "Int", Nullable <- FALSE, GroupRows <- 2, MaxRows <- 3, MaxFiles <- 1,
    LengthDamage <- FALSE
Strings == INSTANCE ManifestCodec WITH
    ColType <- "Bytes", Nullable <- TRUE, GroupRows <- 1, MaxRows <- 2, MaxFiles <- 1,
    LengthDamage <- FALSE
TwoFiles == INSTANCE ManifestCodec WITH
    ColType <- "Bytes", Nullable <- TRUE, GroupRows <- 1, MaxRows <- 1, MaxFiles <- 2,
    LengthDamage <- TRUE
TwoTypes == INSTANCE SchemaEvolution WITH
    Keys <- {"k1"}, Names <- {"x", "y"}, Types <- {"int", "bytes"}, MaxColumns <- 1,
    MaxSessions <- 3, WriteDefaultOnly <- FALSE, Extends <- TRUE, CleanFirst <- TRUE,
    manifest <- in_memory, rows <- table
Evolution == INSTANCE SchemaEvolution WITH
    Keys <- {"k1"}, Names <- {"x", "y"}, Types <- {"int"}, MaxColumns <- 2,
    MaxSessions <- 3, WriteDefaultOnly <- FALSE, Extends <- TRUE, CleanFirst <- TRUE,
    manifest <- in_memory, rows <- table

ASSUME StorageAssumption ==
    /\ Index!IndexAssumption /\ AnyBuffer!IndexAssumption
    /\ Compacted!FileAssumption /\ Flushed!FileAssumption
    /\ Encoded!CodecAssumption /\ Wal!FormatAssumption /\ Recycled!FormatAssumption
    /\ Vectors!PuffinAssumption /\ Ints!CodecAssumption /\ Strings!CodecAssumption
    /\ TwoFiles!CodecAssumption /\ TwoTypes!SchemaAssumption /\ Evolution!SchemaAssumption

----------------------------------------------------------------------------
NoIndex ==
    /\ keys = 0 /\ index = 0 /\ target = 0 /\ pc = 0 /\ lo = 0 /\ hi = 0 /\ cursor = 0
    /\ prev_key = 0 /\ best = 0 /\ next = 0
NoFile ==
    /\ file = 0 /\ dv = 0 /\ call = 0 /\ answer = 0 /\ pages = 0 /\ next_page_idx = 0
    /\ buffer = 0 /\ fallback_done = 0
NoKeys == schema = 0 /\ a = 0 /\ b = 0 /\ decoded = 0
NoWal ==
    /\ log = 0 /\ block_offset = 0 /\ appended = 0 /\ synced = 0 /\ phase = 0 /\ reader = 0
    /\ fragment = 0 /\ recovered = 0 /\ corrupt = 0
NoVectors == bitmap = 0 /\ bytes = 0 /\ location = 0 /\ damaged = 0 /\ result = 0
NoManifests == manifest = 0 /\ rows = 0 /\ frame = 0 /\ opened = 0

NoFormats == NoIndex /\ NoFile /\ NoKeys /\ NoWal /\ NoVectors /\ NoManifests
NoSchema ==
    /\ persisted = 0 /\ in_memory = 0 /\ engine = 0 /\ table = 0 /\ last = 0 /\ added = 0
    /\ sessions = 0

FormatsInit ==
    \/ /\ \/ part = "index" /\ Index!Init
          \/ part = "any buffer" /\ AnyBuffer!Init
       /\ NoFile /\ NoKeys /\ NoWal /\ NoVectors /\ NoManifests
    \/ /\ \/ part = "compacted" /\ Compacted!Init
          \/ part = "flushed" /\ Flushed!Init
       /\ NoIndex /\ NoKeys /\ NoWal /\ NoVectors /\ NoManifests
    \/ part = "keys" /\ Encoded!Init /\ NoIndex /\ NoFile /\ NoWal /\ NoVectors /\ NoManifests
    \/ /\ \/ part = "wal" /\ Wal!Init
          \/ part = "recycled" /\ Recycled!Init
       /\ NoIndex /\ NoFile /\ NoKeys /\ NoVectors /\ NoManifests
    \/ part = "vectors" /\ Vectors!Init /\ NoIndex /\ NoFile /\ NoKeys /\ NoWal /\ NoManifests
    \/ /\ \/ part = "ints" /\ Ints!Init
          \/ part = "strings" /\ Strings!Init
          \/ part = "two files" /\ TwoFiles!Init
       /\ NoIndex /\ NoFile /\ NoKeys /\ NoWal /\ NoVectors

FormatsNext ==
    \/ /\ \/ part = "index" /\ Index!Next
          \/ part = "any buffer" /\ AnyBuffer!Next
       /\ UNCHANGED <<fileVars, keyVars, walVars, puffinVars, manifestVars>>
    \/ /\ \/ part = "compacted" /\ Compacted!Next
          \/ part = "flushed" /\ Flushed!Next
       /\ UNCHANGED <<indexVars, keyVars, walVars, puffinVars, manifestVars>>
    \/ /\ part = "keys" /\ Encoded!Next
       /\ UNCHANGED <<indexVars, fileVars, walVars, puffinVars, manifestVars>>
    \/ /\ \/ part = "wal" /\ Wal!Next
          \/ part = "recycled" /\ Recycled!Next
       /\ UNCHANGED <<indexVars, fileVars, keyVars, puffinVars, manifestVars>>
    \/ /\ part = "vectors" /\ Vectors!Next
       /\ UNCHANGED <<indexVars, fileVars, keyVars, walVars, manifestVars>>
    \/ /\ \/ part = "ints" /\ Ints!Next
          \/ part = "strings" /\ Strings!Next
          \/ part = "two files" /\ TwoFiles!Next
       /\ UNCHANGED <<indexVars, fileVars, keyVars, walVars, puffinVars>>

StorageInit ==
    /\ \/ part = "commits" /\ NoFormats /\ NoSchema
       \/ FormatsInit /\ NoSchema
       \/ part = "two types" /\ TwoTypes!Init /\ NoFormats
       \/ part = "evolution" /\ Evolution!Init /\ NoFormats
    /\ Init

StorageNext ==
    /\ \/ part = "commits" /\ Next /\ UNCHANGED <<formatVars, schemaVars>>
       \/ FormatsNext /\ UNCHANGED <<vars, schemaVars>>
       \/ /\ \/ part = "two types" /\ TwoTypes!Next
             \/ part = "evolution" /\ Evolution!Next
          /\ UNCHANGED <<vars, formatVars>>
    /\ UNCHANGED part

StorageSpec == StorageInit /\ [][StorageNext]_storageVars

----------------------------------------------------------------------------
\* The sparse index decodes to the keys it was built from and finds the page of
\* the largest key not above the target (KvSparseIndex::build,
\* find_page_with_next), and any buffer from_bytes accepts is decoded within its
\* bounds.
IndexSound ==
    /\ part = "index" => Index!FindsPage /\ Index!RoundTrip
    /\ part = "any buffer" => AnyBuffer!DecodeInfallible

\* ParquetReader::get and scan return the newest visible row of each key,
\* wherever pages and row groups end and whatever the deletion vector marks;
\* iter_user_keys_in_range, with which a flush finds the rows to mark, yields
\* every row of the range of a flushed file once.
FileReadsExact ==
    /\ part = "compacted" => Compacted!GetExact /\ Compacted!ScanExact
    /\ part = "flushed" => Flushed!RangeExact

\* Byte order of encoded keys is primary key ascending, then sequence number
\* descending (InternalKey::encode); seek_latest stands before all versions of
\* its key and the padded probe of a file lookup behind them; decode gives back
\* what encode was given, but for floats, which decode to other numbers.
KeysOrdered ==
    part = "keys" =>
        /\ Encoded!MemcmpOrder /\ Encoded!SeekStandsBefore /\ Encoded!ProbeStandsBehind
        /\ (\A i \in DOMAIN schema : schema[i] # "float") => Encoded!DecodeInverse

\* Recovery yields whole batches, a prefix of those appended with every one that
\* was synced, and nothing of a log of another generation, wherever the crash
\* cut the log; the cut is not taken for corruption, and every turn of the loop
\* ends it or moves it on (WalReader, WriteBatch::decode).
LogRecovers ==
    [][/\ part = "wal" => /\ Wal!Advances /\ Wal!RecoversPrefix' /\ Wal!RecoversSynced'
                          /\ Wal!CutIsNoCorruption'
       /\ part = "recycled" => /\ Recycled!Advances /\ Recycled!RecoversPrefix'
                               /\ Recycled!RecoversSynced']_storageVars

\* A deletion vector is read back as it was written; a damaged one is read back
\* so or refused, never as another set (decode_puffin_blob, decode_puffin_file).
NeverAnotherSet == part = "vectors" => Vectors!ReadsBack /\ Vectors!NeverAnotherSet

\* A manifest is opened as it was committed, but for the column statistics, a torn
\* one is refused, and none with a damaged length is accepted without one of its
\* files (manifest_pb::decode); every value of a file lies within the bounds
\* exported for it, with exact counts, also after a reopen
\* (extract_column_stats, to_iceberg_data_file_v2).
ManifestExact ==
    /\ part = "ints" => Ints!OpenedExact /\ Ints!BoundsHold /\ Ints!CountsExact
    /\ part = "strings" => Strings!OpenedExact /\ Strings!BoundsHold /\ Strings!CountsExact
    /\ part = "two files" => TwoFiles!FilesKept /\ TwoFiles!BoundsHold /\ TwoFiles!CountsExact

\* A row is read with the values it was written with and the defaults of the
\* columns added since, the typed columns of a file agree with the rows in its
\* value blobs, and every row that validate let through can be flushed.
RowsKept ==
    /\ part = "two types" =>
        TwoTypes!ReadsAsWritten /\ TwoTypes!TypedAgrees /\ TwoTypes!Flushable
    /\ part = "evolution" =>
        Evolution!ReadsAsWritten /\ Evolution!TypedAgrees /\ Evolution!Flushable

============================================================================
