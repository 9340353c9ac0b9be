--------------------------- MODULE IcebergExport ---------------------------
(***************************************************************************)
(* Export of a snapshot as an Iceberg v2 table while flushes, compactions, *)
(* installs, deletions and crashes go on (engine/engine.rs export_iceberg, *)
(* iceberg/catalog.rs export_to_iceberg, iceberg/translate.rs).            *)
(*                                                                         *)
(* Composes Snapshots: the export is the reader Exporter.  Once it has     *)
(* cloned the manifest, what it will write is fixed: data files, manifest, *)
(* manifest list, metadata and the two hints, in that order, each created  *)
(* in place and then filled.  An external reader goes the other way, from  *)
(* a hint to the rows.                                                     *)
(***************************************************************************)
EXTENDS Snapshots, SequencesExt

CONSTANTS
    Exporter,      \* the one reader: the task in export_iceberg
    ReuseTarget,   \* is target_dir the directory of the earlier exports?
    MaxExports     \* bound: number of exports

ExportAssumption ==
    /\ Readers = {Exporter} /\ ReuseTarget \in BOOLEAN /\ MaxExports \in Nat

VARIABLES
    export,   \* the call in progress: [pc, todo], todo the writes that remain
    target,   \* target_dir: path -> content
    exports,  \* number of calls so far
    finished  \* history: the rows read through v{N}.metadata.json when it was new

exportVars == <<export, target, exports, finished>>

NoExport == [pc |-> "idle", todo |-> <<>>]

Torn == [kind |-> "torn"]

DataPath(id) == <<"data", id>>
AvroPath(n) == <<"manifest", n>>        \* named by a fresh uuid
ListPath(snap) == <<"list", snap>>      \* named by the snapshot and table_uuid
MetadataPath(snap) == <<"metadata", snap>>
HintPath(dir) == <<"hint", dir>>

Written(path, content) == [path |-> path, content |-> content]

ExportInit ==
    /\ Init
    /\ export = NoExport /\ target = <<>> /\ exports = 0 /\ finished = <<>>

----------------------------------------------------------------------------
\* rewrite_parquet_user_columns_only: all rows of the source are copied, the
\* ones its deletion vector marks and tombstones included; the key and the
\* values stay, the columns that tell versions and deletes apart do not.
CopyOf(f) == Written(DataPath(f.id), [kind |-> "data", rows |-> f.rows])

\* copy_data_files_for_export: every live entry, in the order of the manifest.
Copies(v) ==
    LET files == SetToSortSeq(v.files, LAMBDA f, g : f.id < g.id)
    IN [i \in DOMAIN files |-> CopyOf(files[i])]

\* write_iceberg_avro_manifests.
AvroManifests(v, n) ==
    <<Written(AvroPath(n), [kind |-> "manifest",
                         entries |-> {[path |-> DataPath(f.id), count |-> Cardinality(f.rows)] :
                                         f \in v.files}]),
      Written(ListPath(v.snap), [kind |-> "list", manifest |-> AvroPath(n)])>>

\* snapshot_summary: total-records counts marked rows and tombstones too.
SnapshotSummary(v) == MapThenSumSet(LAMBDA f : Cardinality(f.rows), v.files)

\* all_properties: merutable.deletion-vectors.
AllProperties(v) == {f.id : f \in {g \in v.files : g.dv # {}}}

\* to_iceberg_v2_table_metadata.
TableMetadata(v) ==
    <<Written(MetadataPath(v.snap),
           [kind |-> "metadata", list |-> ListPath(v.snap),
            total |-> SnapshotSummary(v), vectors |-> AllProperties(v)])>>

Hints(v) == [i \in 1..2 |-> Written(HintPath(<<"root", "metadata">>[i]),
                                 [kind |-> "hint", snap |-> v.snap])]

\* Mutant: the hints are written before the files they lead to.
HintsFirst(v, n) == Hints(v) \o Copies(v) \o AvroManifests(v, n) \o TableMetadata(v)
\* export_to_iceberg: what it writes, in order.
ExportFiles(v, n) == Copies(v) \o AvroManifests(v, n) \o TableMetadata(v) \o Hints(v)

----------------------------------------------------------------------------
\* export_iceberg pins the installed version.
ExportPin ==
    /\ export.pc = "idle" /\ exports < MaxExports
    /\ Pin(Exporter)
    /\ export' = [export EXCEPT !.pc = "clone"]
    /\ exports' = exports + 1
    /\ target' = IF ReuseTarget THEN target ELSE <<>>
    /\ finished' = IF ReuseTarget THEN finished ELSE <<>>

\* The manifest it exports is the catalog's, cloned under the lock on current.
ExportClone ==
    /\ export.pc = "clone"
    /\ export' = [pc |-> "write", todo |-> ExportFiles(manifest, exports)]
    /\ UNCHANGED <<vars, target, exports, finished>>

NextFile == Head(export.todo)

SourceOnDisk == NextFile.path[1] = "data" => NextFile.path[2] \in disk

\* A data file is read whole before its copy is created.
ExportCreate ==
    /\ export.pc = "write" /\ export.todo # <<>> /\ SourceOnDisk
    /\ target' = (NextFile.path :> Torn) @@ target
    /\ export' = [export EXCEPT !.pc = "fill"]
    /\ UNCHANGED <<vars, exports, finished>>

ExportFill ==
    /\ export.pc = "fill"
    /\ target' = (NextFile.path :> NextFile.content) @@ target
    /\ export' = [pc |-> "write", todo |-> Tail(export.todo)]
    /\ UNCHANGED <<vars, exports, finished>>

\* An error of a read (a source that is gone) or a write ends the call and drops the pin.
ExportFail ==
    /\ export.pc # "idle" /\ (export.pc = "write" => export.todo # <<>>)
    /\ export' = NoExport
    /\ Unpin(Exporter)
    /\ UNCHANGED <<target, exports, finished>>

----------------------------------------------------------------------------
(* What an external reader gets.                                            *)

Whole(path) == path \in DOMAIN target /\ target[path] # Torn

\* Every file a metadata file leads to is there and complete.
Readable(snap) ==
    /\ Whole(MetadataPath(snap))
    /\ Whole(target[MetadataPath(snap)].list)
    /\ Whole(target[target[MetadataPath(snap)].list].manifest)
    /\ \A e \in target[target[target[MetadataPath(snap)].list].manifest].entries :
          Whole(e.path)

Entries(snap) == target[target[target[MetadataPath(snap)].list].manifest].entries

RowsRead(snap) == UNION {target[e.path].rows : e \in Entries(snap)}

Hinted == {target[p].snap : p \in {q \in DOMAIN target : q[1] = "hint" /\ Whole(q)}}

----------------------------------------------------------------------------
ExportReturn ==
    /\ export.pc = "write" /\ export.todo = <<>>
    /\ export' = NoExport
    /\ finished' = [s \in {s \in Hinted : Readable(s)} |-> RowsRead(s)] @@ finished
    /\ Unpin(Exporter)
    /\ UNCHANGED <<target, exports>>

\* The process dies: what is in target_dir stays as it is.
ExportCrash ==
    /\ CrashReopen
    /\ export' = NoExport
    /\ UNCHANGED <<target, exports, finished>>

Maintain ==
    /\ \/ Write \/ FlushCommit \/ FlushInstall \/ FlushDrop
       \/ \E c \in Compactors : Compact(c)
    /\ UNCHANGED exportVars

ExportNext ==
    \/ Maintain
    \/ ExportPin \/ ExportClone \/ ExportCreate \/ ExportFill \/ ExportFail \/ ExportReturn
    \/ ExportCrash

ExportSpec == ExportInit /\ [][ExportNext]_<<vars, exportVars>>

----------------------------------------------------------------------------
ExportTypeOK ==
    /\ TypeOK
    /\ export.pc \in {"idle", "clone", "write", "fill"}
    /\ exports \in 0..MaxExports
    /\ (export.pc = "idle") = (pins[Exporter] = Unpinned)

\* The pin export_iceberg holds keeps every file of the manifest it cloned,
\* which may be newer than the version it pinned, until it has been copied.
ExportServed ==
    export.pc = "write" =>
        \A i \in DOMAIN export.todo :
            export.todo[i].path[1] = "data" => export.todo[i].path[2] \in disk

\* From the first hint on, at every step and after a crash, a reader that
\* follows a hint of the target finds every file it is led to, complete: the
\* hints are the last thing export_to_iceberg writes.
HintLeadsToTable == \A s \in Hinted : Readable(s)

\* The counts agree: the rows of each copied file are as many as record_count
\* of its manifest entry, and they add up to total-records of the summary.
CountsAgree ==
    \A s \in Hinted : Readable(s) =>
        /\ \A e \in Entries(s) : Cardinality(target[e.path].rows) = e.count
        /\ target[MetadataPath(s)].total =
             MapThenSumSet(LAMBDA e : Cardinality(target[e.path].rows), Entries(s))

\* Nothing of the table is lost in an export: the latest version of every key
\* of some prefix of the writes that was committed by the time of the export
\* is among the rows exported, whatever was merged or deleted meanwhile.
ExportCovers ==
    \A s \in Hinted : Readable(s) =>
        \E n \in 0..committed : Table(n) \subseteq RowsRead(s) /\ RowsRead(s) \subseteq Rows(1, n)

\* An external reader sees one row per primary key (docs/EXTERNAL_READS.md).
ExportOneRowPerKey ==
    \A s \in Hinted : Readable(s) => \A r, q \in RowsRead(s) : r.key = q.key => r = q

\* A reader that stays with one v{N}.metadata.json of a finished export keeps
\* reading the same rows (docs/EXTERNAL_READS.md, Snapshot isolation).
PinnedMetadataStable ==
    \A s \in DOMAIN finished : Readable(s) /\ RowsRead(s) = finished[s]

============================================================================
